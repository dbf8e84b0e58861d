------------------ MODULE ProviderComputeJobManagerProofs ------------------
(***************************************************************************)
(* Proofs about ProviderComputeJobManager, for every set of jobs, keys,    *)
(* clients and workers and every bound.                                    *)
(***************************************************************************)
EXTENDS ProviderComputeJobManager, TLAPS

(* Lemmas about the operators *)

\* The sentinels are values of their types.
LEMMA SentinelTypes ==
    /\ NoJob \in Job
    /\ NoRecord \in Record
    /\ NoRequest \in Request
    /\ NoTicket \in Ticket
    /\ EmptyImage \in Image
<1>1. (CHOOSE f \in Fingerprints : TRUE) \in Fingerprints
  BY ConstantsAssumption
<1>2. /\ NoJob \in Job
      /\ NoRecord \in Record
      /\ NoRequest \in Request
      /\ NoTicket \in Ticket
  BY <1>1 DEF NoJob, Job, NoRecord, Record, NoRequest, Request, NoTicket, Ticket
<1>3. EmptyImage \in Image
  BY <1>2 DEF EmptyImage, Image, NoJobs, NoRecords
<1> QED BY <1>2, <1>3

\* Pruning keeps a job as it is or forgets it; it forgets finished jobs only.
LEMMA PruningKeepsOrForgets ==
    ASSUME NEW js \in [JobIds -> Job], NEW t \in Nat, NEW pj \in Prunings(js, t)
    PROVE  /\ pj \in [JobIds -> Job]
           /\ \A j \in JobIds : pj[j] = js[j] \/ (pj[j] = NoJob /\ js[j].status \in Terminal)
<1> DEFINE kept == Unaged(js, t)
<1>1. PICK V \in Victims(kept) : pj = [j \in JobIds |-> IF j \in V THEN NoJob ELSE kept[j]]
  BY DEF Prunings
<1>2. V \subseteq Finished(kept)
  BY DEF Victims
<1>3. \A j \in JobIds : kept[j] = js[j] \/ (kept[j] = NoJob /\ js[j].status \in Terminal)
  BY DEF Unaged
<1>4. NoJob.status \notin Terminal
  BY DEF NoJob, Terminal
<1>5. \A j \in V : j \in JobIds /\ kept[j].status \in Terminal
  BY <1>2 DEF Finished
<1> QED BY ONLY <1>1, <1>3, <1>4, <1>5, SentinelTypes, js \in [JobIds -> Job]

\* Expiry keeps a record as it is or forgets one whose retention is over.
LEMMA ExpiryKeepsOrForgets ==
    ASSUME NEW ks \in [Keys -> Record], NEW t \in Nat
    PROVE  /\ UnexpiredKeys(ks, t) \in [Keys -> Record]
           /\ \A k \in Keys : \/ UnexpiredKeys(ks, t)[k] = ks[k]
                              \/ UnexpiredKeys(ks, t)[k] = NoRecord /\ ks[k].expires <= t
BY SentinelTypes DEF UnexpiredKeys

\* Recovery closes the interrupted jobs and leaves the others alone.
LEMMA RecoveryCloses ==
    ASSUME NEW js \in [JobIds -> Job], NEW t \in Nat
    PROVE  /\ Recovered(js, t) \in [JobIds -> Job]
           /\ \A j \in JobIds :
                 \/ js[j].status = "queued" /\ Recovered(js, t)[j] = Closed("cancelled", t)
                 \/ js[j].status = "running" /\ Recovered(js, t)[j] = Closed("outcome_unknown", t)
                 \/ js[j].status \notin Active /\ Recovered(js, t)[j] = js[j]
<1>1. Closed("cancelled", t) \in Job /\ Closed("outcome_unknown", t) \in Job
  BY DEF Closed, Job, Terminal
<1> QED BY <1>1 DEF Recovered, Active

-----------------------------------------------------------------------------
(* Type correctness *)

\* A write, successful or not, leaves images of the right type on disk.
LEMMA WritesAreTyped ==
    ASSUME NEW image \in Image,
           file \in Image, survivors \subseteq Image, file \in survivors,
           PersistSucceeds(image) \/ PersistFails(image)
    PROVE  /\ file' \in Image
           /\ survivors' \subseteq Image
           /\ file' \in survivors'
BY DEF PersistSucceeds, PersistFails, disk

LEMMA SnapshotTyped ==
    ASSUME NEW js \in [JobIds -> Job], NEW ks \in [Keys -> Record]
    PROVE  Snapshot(js, ks) \in Image
BY DEF Snapshot, Image

LEMMA ClosedTyped ==
    ASSUME NEW s \in Terminal, NEW t \in Nat
    PROVE  Closed(s, t) \in Job
BY DEF Closed, Job

LEMMA WithTyped ==
    ASSUME NEW js \in [JobIds -> Job], NEW ks \in [Keys -> Record],
           NEW j \in JobIds, NEW r \in Request
    PROVE  /\ WithJob(js, j) \in [JobIds -> Job]
           /\ WithKey(ks, j, r) \in [Keys -> Record]
<1>1. WithJob(js, j) \in [JobIds -> Job]
  BY DEF WithJob, Job, Active
<1>2. ASSUME r.key # NoKey
      PROVE  [job |-> j, fingerprint |-> r.fingerprint,
              expires |-> r.created + IdempotencyRetention] \in Record
  BY <1>2, ConstantsAssumption DEF Request, Record
<1>3. WithKey(ks, j, r) \in [Keys -> Record]
  BY <1>2 DEF WithKey
<1> QED BY <1>1, <1>3

LEMMA TypeInit == Init => TypeOK
<1> SUFFICES ASSUME Init PROVE TypeOK
  OBVIOUS
<1>1. jobs \in [JobIds -> Job] /\ keys \in [Keys -> Record] /\ queue \in Seq(JobIds) /\ Len(queue) <= MaximumQueuedJobs
  BY SentinelTypes, ConstantsAssumption DEF Init, NoJobs, NoRecords
<1>2. file \in Image /\ survivors \subseteq Image /\ file \in survivors
  BY SentinelTypes DEF Init
<1>3. worker \in [Workers -> Thread] /\ client \in [Clients -> Request]
  BY SentinelTypes DEF Init, Off, Thread
<1>4. /\ ticket \in [JobIds -> Ticket] /\ launches \in [JobIds -> Nat]
      /\ disclaimed \subseteq JobIds /\ told \in [JobIds -> SUBSET Fingerprints]
  BY SentinelTypes DEF Init
<1> QED BY <1>1, <1>2, <1>3, <1>4 DEF Init, TypeOK

\* The process that died keeps nothing but the disk.
LEMMA MemoryLostTyped ==
    ASSUME MemoryLost
    PROVE  /\ phase' = "down" /\ available' = FALSE
           /\ jobs' \in [JobIds -> Job]
           /\ queue' \in Seq(JobIds) /\ Len(queue') <= MaximumQueuedJobs
           /\ keys' \in [Keys -> Record]
           /\ worker' \in [Workers -> Thread]
           /\ client' \in [Clients -> Request]
<1>1. worker' \in [Workers -> Thread]
  BY DEF MemoryLost, Off, Thread
<1> QED BY <1>1, SentinelTypes, ConstantsAssumption DEF MemoryLost, NoJobs, NoRecords

LEMMA TypeNext == TypeOK /\ [Next]_vars => TypeOK'
<1> SUFFICES ASSUME TypeOK, [Next]_vars PROVE TypeOK'
  OBVIOUS
<1>1. CASE UNCHANGED vars
  BY <1>1 DEF vars, memory, disk, history, TypeOK
<1>2. CASE Load
  <2>1. jobs' \in [JobIds -> Job]
    BY <1>2, RecoveryCloses, PruningKeepsOrForgets DEF Load, TypeOK, Image
  <2>2. keys' \in [Keys -> Record]
    BY <1>2, ExpiryKeepsOrForgets DEF Load, TypeOK, Image
  <2>3. file' \in Image /\ survivors' \subseteq Image /\ file' \in survivors'
    BY <1>2, <2>1, <2>2, SnapshotTyped, WritesAreTyped DEF Load, TypeOK
  <2> QED BY <1>2, <2>1, <2>2, <2>3 DEF Load, TypeOK
<1>3. CASE LoadFails
  BY <1>3 DEF LoadFails, memory, disk, history, TypeOK
<1>4. CASE Start
  <2>1. worker' \in [Workers -> Thread]
    BY <1>4 DEF Start, Waiting, Thread
  <2> QED BY <1>4, <2>1 DEF Start, memory, disk, history, TypeOK
<1>5. CASE StartFails
  BY <1>5 DEF StartFails, disk, history, TypeOK
<1>6. ASSUME NEW c \in Clients, Prepare(c) PROVE TypeOK'
  <2>1. client' \in [Clients -> Request]
    BY <1>6 DEF Prepare, TypeOK, Request
  <2> QED BY <1>6, <2>1 DEF Prepare, memory, disk, history, TypeOK
<1>7. ASSUME NEW c \in Clients, SubmitUnavailable(c) PROVE TypeOK'
  <2>1. client' \in [Clients -> Request]
    BY <1>7, SentinelTypes DEF SubmitUnavailable, Answered, TypeOK
  <2> QED BY <1>7, <2>1 DEF SubmitUnavailable, memory, disk, history, TypeOK
<1>8. ASSUME NEW c \in Clients, SubmitPruned(c),
             told' \in [JobIds -> SUBSET Fingerprints]
      PROVE  TypeOK'
  <2>1. client[c].created \in Nat
    BY DEF TypeOK, Request
  <2>2. jobs' \in [JobIds -> Job] /\ keys' \in [Keys -> Record]
    BY <1>8, <2>1, PruningKeepsOrForgets, ExpiryKeepsOrForgets DEF SubmitPruned, TypeOK
  <2>3. client' \in [Clients -> Request]
    BY <1>8, SentinelTypes DEF SubmitPruned, Answered, TypeOK
  <2> QED BY <1>8, <2>2, <2>3 DEF SubmitPruned, disk, TypeOK
<1>9. ASSUME NEW c \in Clients, SubmitRepeated(c) PROVE TypeOK'
  <2>1. told' \in [JobIds -> SUBSET Fingerprints]
    <3>1. client[c].fingerprint \in Fingerprints
      BY DEF TypeOK, Request
    <3> QED BY <1>9, <3>1 DEF SubmitRepeated, TypeOK
  <2> QED BY <1>8, <1>9, <2>1 DEF SubmitRepeated
<1>10. ASSUME NEW c \in Clients, SubmitDeclined(c) PROVE TypeOK'
  BY <1>8, <1>10 DEF SubmitDeclined, TypeOK
<1>11. ASSUME NEW c \in Clients, SubmitAccepted(c) PROVE TypeOK'
  <2> DEFINE r == client[c]
             ks == UnexpiredKeys(keys, r.created)
  <2>1. r \in Request /\ r.created \in Nat /\ r.fingerprint \in Fingerprints
    BY DEF TypeOK, Request
  <2>2. PICK j \in JobIds, js \in Prunings(jobs, r.created) :
              /\ Issue(j, r)
              /\ jobs' = WithJob(js, j)
              /\ keys' = WithKey(ks, j, r)
              /\ queue' = Append(queue, j)
              /\ told' = [told EXCEPT ![j] = {r.fingerprint}]
    BY <1>11 DEF SubmitAccepted
  <2>3. js \in [JobIds -> Job] /\ ks \in [Keys -> Record]
    BY <2>1, PruningKeepsOrForgets, ExpiryKeepsOrForgets DEF TypeOK
  <2>4. jobs' \in [JobIds -> Job] /\ keys' \in [Keys -> Record]
    BY <2>1, <2>2, <2>3, WithTyped
  <2>5. file' \in Image /\ survivors' \subseteq Image /\ file' \in survivors'
    BY <1>11, <2>4, SnapshotTyped, WritesAreTyped DEF SubmitAccepted, TypeOK
  <2>6. ticket' \in [JobIds -> Ticket]
    BY <2>1, <2>2 DEF Issue, TypeOK, Ticket, Request
  <2>7. queue' \in Seq(JobIds) /\ Len(queue') <= MaximumQueuedJobs
    BY <1>11, <2>2, ConstantsAssumption DEF SubmitAccepted, Admissible, NoRoom, TypeOK
  <2>8. client' \in [Clients -> Request]
    BY <1>11, SentinelTypes DEF SubmitAccepted, Answered, TypeOK
  <2>9. told' \in [JobIds -> SUBSET Fingerprints]
    BY <2>1, <2>2 DEF TypeOK
  <2> QED BY <1>11, <2>4, <2>5, <2>6, <2>7, <2>8, <2>9 DEF SubmitAccepted, TypeOK
<1>12. ASSUME NEW c \in Clients, SubmitNotRecorded(c) PROVE TypeOK'
  <2> DEFINE r == client[c]
             ks == UnexpiredKeys(keys, r.created)
  <2>1. r \in Request /\ r.created \in Nat
    BY DEF TypeOK, Request
  <2>2. PICK j \in JobIds, js \in Prunings(jobs, r.created) :
              /\ Issue(j, r)
              /\ PersistFails(Snapshot(WithJob(js, j), WithKey(ks, j, r)))
              /\ jobs' = js
              /\ keys' = ks
              /\ disclaimed' = disclaimed \cup {j}
    BY <1>12 DEF SubmitNotRecorded
  <2>3. js \in [JobIds -> Job] /\ ks \in [Keys -> Record]
    BY <2>1, PruningKeepsOrForgets, ExpiryKeepsOrForgets DEF TypeOK
  <2>4. Snapshot(WithJob(js, j), WithKey(ks, j, r)) \in Image
    BY <2>1, <2>3, WithTyped, SnapshotTyped
  <2>5. file' \in Image /\ survivors' \subseteq Image /\ file' \in survivors'
    BY <2>2, <2>4, WritesAreTyped DEF TypeOK
  <2>6. ticket' \in [JobIds -> Ticket]
    BY <2>1, <2>2 DEF Issue, TypeOK, Ticket, Request
  <2>7. client' \in [Clients -> Request]
    BY <1>12, SentinelTypes DEF SubmitNotRecorded, Answered, TypeOK
  <2> QED BY <1>12, <2>2, <2>3, <2>5, <2>6, <2>7 DEF SubmitNotRecorded, TypeOK
<1>13. ASSUME NEW w \in Workers, CanTake(w), queue' = Tail(queue)
       PROVE  /\ Head(queue) \in JobIds
              /\ queue' \in Seq(JobIds) /\ Len(queue') <= MaximumQueuedJobs
              /\ [jobs EXCEPT ![Head(queue)] = [status |-> "running", completed |-> 0]] \in [JobIds -> Job]
              /\ [jobs EXCEPT ![Head(queue)] = Closed("outcome_unknown", now)] \in [JobIds -> Job]
  <2>1. Head(queue) \in JobIds /\ queue' \in Seq(JobIds) /\ Len(queue') <= MaximumQueuedJobs
    BY <1>13, ConstantsAssumption DEF CanTake, TypeOK
  <2>2. [status |-> "running", completed |-> 0] \in Job
    BY DEF Job, Active
  <2>3. Closed("outcome_unknown", now) \in Job
    BY ClosedTyped DEF Terminal, TypeOK
  <2> QED BY <2>1, <2>2, <2>3 DEF TypeOK
<1>14. ASSUME NEW w \in Workers, Take(w) PROVE TypeOK'
  <2>1. Head(queue) \in JobIds /\ queue' \in Seq(JobIds) /\ Len(queue') <= MaximumQueuedJobs /\ jobs' \in [JobIds -> Job]
    BY <1>13, <1>14 DEF Take
  <2>2. worker' \in [Workers -> Thread]
    BY <1>14, <2>1 DEF Take, TypeOK, Thread
  <2>3. file' \in Image /\ survivors' \subseteq Image /\ file' \in survivors'
    BY <1>14, <2>1, SnapshotTyped, WritesAreTyped DEF Take, TypeOK
  <2> QED BY <1>14, <2>1, <2>2, <2>3 DEF Take, history, TypeOK
<1>15. ASSUME NEW w \in Workers, TakeNotRecorded(w) PROVE TypeOK'
  <2> DEFINE running == Snapshot([jobs EXCEPT ![Head(queue)] = [status |-> "running", completed |-> 0]], keys)
             unknown == Snapshot(jobs', keys)
  <2>1. queue' \in Seq(JobIds) /\ Len(queue') <= MaximumQueuedJobs /\ jobs' \in [JobIds -> Job]
    BY <1>13, <1>15 DEF TakeNotRecorded
  <2>2. running \in Image /\ unknown \in Image
    BY <1>13, <1>15, SnapshotTyped DEF TakeNotRecorded, TypeOK
  <2>3. \/ PersistFails(running)
        \/ PersistFails(unknown)
        \/ /\ file' = unknown
           /\ survivors' \in {survivors \cup {running, unknown}, {unknown}}
    BY <1>15 DEF TakeNotRecorded
  <2>4. file' \in Image /\ survivors' \subseteq Image /\ file' \in survivors'
    BY <2>2, <2>3, WritesAreTyped DEF TypeOK
  <2> QED BY <1>15, <2>1, <2>4 DEF TakeNotRecorded, history, TypeOK
<1>16. ASSUME NEW w \in Workers, Launch(w) PROVE TypeOK'
  <2>1. launches' \in [JobIds -> Nat]
    <3>1. CASE worker[w].job \in JobIds
      BY <1>16, <3>1 DEF Launch, TypeOK
    <3>2. CASE worker[w].job \notin JobIds
      BY <1>16, <3>2 DEF Launch, TypeOK
    <3> QED BY <3>1, <3>2
  <2>2. worker' \in [Workers -> Thread]
    BY <1>16 DEF Launch, TypeOK, Thread
  <2> QED BY <1>16, <2>1, <2>2 DEF Launch, memory, disk, TypeOK
<1>17. ASSUME NEW w \in Workers, Finish(w) PROVE TypeOK'
  <2>1. PICK s \in Outcome(worker[w].pc) :
          jobs' \in Prunings([jobs EXCEPT ![worker[w].job] = Closed(s, now)], now)
    BY <1>17 DEF Finish
  <2>2. [jobs EXCEPT ![worker[w].job] = Closed(s, now)] \in [JobIds -> Job]
    BY ClosedTyped DEF Outcome, Terminal, TypeOK
  <2>3. jobs' \in [JobIds -> Job] /\ keys' \in [Keys -> Record]
    BY <1>17, <2>1, <2>2, PruningKeepsOrForgets, ExpiryKeepsOrForgets DEF Finish, TypeOK
  <2>4. file' \in Image /\ survivors' \subseteq Image /\ file' \in survivors'
    BY <1>17, <2>3, SnapshotTyped, WritesAreTyped DEF Finish, TypeOK
  <2>5. worker' \in [Workers -> Thread]
    BY <1>17 DEF Finish, TypeOK, Thread, Waiting
  <2> QED BY <1>17, <2>3, <2>4, <2>5 DEF Finish, history, TypeOK
<1>18. ASSUME NEW w \in Workers, WorkerExit(w) PROVE TypeOK'
  <2>1. worker' \in [Workers -> Thread]
    BY <1>18 DEF WorkerExit, TypeOK, Thread, Off
  <2> QED BY <1>18, <2>1 DEF WorkerExit, memory, disk, history, TypeOK
<1>19. CASE Stop
  <2> DEFINE js == [j \in JobIds |-> IF j \in InQueue THEN Closed("cancelled", now) ELSE jobs[j]]
  <2>1. js \in [JobIds -> Job]
    BY ClosedTyped DEF Terminal, TypeOK
  <2>2. jobs' \in [JobIds -> Job] /\ keys' \in [Keys -> Record]
    BY <1>19, <2>1, PruningKeepsOrForgets, ExpiryKeepsOrForgets DEF Stop, TypeOK
  <2>3. file' \in Image /\ survivors' \subseteq Image /\ file' \in survivors'
    BY <1>19, <2>2, SnapshotTyped, WritesAreTyped DEF Stop, TypeOK
  <2>4. InQueue \subseteq JobIds
    BY DEF InQueue, TypeOK
  <2>5. queue' \in Seq(JobIds) /\ Len(queue') <= MaximumQueuedJobs
    BY <1>19, ConstantsAssumption DEF Stop
  <2> QED BY <1>19, <2>2, <2>3, <2>4, <2>5 DEF Stop, TypeOK
<1>20. CASE Exit
  BY <1>20, MemoryLostTyped DEF Exit, disk, history, TypeOK
<1>21. CASE Kill
  BY <1>21, MemoryLostTyped DEF Kill, disk, history, TypeOK
<1>22. CASE PowerLoss
  BY <1>22, MemoryLostTyped DEF PowerLoss, history, TypeOK
<1>23. CASE Tick
  BY <1>23 DEF Tick, memory, disk, history, TypeOK
<1> QED
  BY <1>1, <1>2, <1>3, <1>4, <1>5, <1>6, <1>7, <1>9, <1>10, <1>11, <1>12, <1>14, <1>15,
     <1>16, <1>17, <1>18, <1>19, <1>20, <1>21, <1>22, <1>23
  DEF Next, ClientNext, WorkerNext, ProcessNext

\* Every variable keeps its type, and the queue its bound.
THEOREM TypeCorrect == Spec => []TypeOK
BY TypeInit, TypeNext, PTL DEF Spec

-----------------------------------------------------------------------------
(***************************************************************************)
(* The inductive invariant.  What makes the safety properties true is not  *)
(* any one write but an agreement between memory and every image a crash   *)
(* may leave: an image never shows a launched job as queued or cancelled,  *)
(* and its ledger names the job as long as the key is retained.            *)
(***************************************************************************)

\* Before start() nothing runs and nothing waits.
IdleInv ==
    /\ phase = "down" => ~available
    /\ phase \in {"down", "loaded"} =>
          /\ queue = <<>>
          /\ \A w \in Workers : worker[w] = Off
          /\ \A j \in JobIds : jobs[j].status \notin Active

\* The queue lists the queued jobs, each once.
QueueInv ==
    /\ \A i \in 1..Len(queue) : jobs[queue[i]].status = "queued"
    /\ \A i1, i2 \in 1..Len(queue) : queue[i1] = queue[i2] => i1 = i2
    /\ \A j \in JobIds : jobs[j].status = "queued" => \E i \in 1..Len(queue) : queue[i] = j

Busy(w) == worker[w].pc \in {"taken", "launched"}

\* A busy worker holds a running job of its own and knows whether it was
\* launched; a running job is held by a worker.
WorkerInv ==
    /\ \A w \in Workers : Busy(w) =>
          /\ worker[w].job \in JobIds
          /\ jobs[worker[w].job].status = "running"
          /\ launches[worker[w].job] = IF worker[w].pc = "taken" THEN 0 ELSE 1
    /\ \A w \in Workers : ~Busy(w) => worker[w].job = NoJobId
    /\ \A w1, w2 \in Workers :
          worker[w1].job = worker[w2].job /\ worker[w1].job # NoJobId => w1 = w2
    /\ \A j \in JobIds : jobs[j].status = "running" => \E w \in Workers : worker[w].job = j

\* An identifier that was never issued occurs nowhere.
FreshInv ==
    \A j \in JobIds : ticket[j] = NoTicket =>
        /\ launches[j] = 0
        /\ j \notin disclaimed
        /\ jobs[j].status = "absent"
        /\ \A image \in survivors : image.jobs[j].status = "absent"

\* What memory and every surviving image say of a job is true of its launches.
RecordInv ==
    /\ \A j \in JobIds : launches[j] <= 1
    /\ \A j \in JobIds : jobs[j].status \in {"queued", "cancelled"} => launches[j] = 0
    /\ \A j \in JobIds, image \in survivors :
          image.jobs[j].status \in {"queued", "cancelled"} => launches[j] = 0
    /\ \A j \in JobIds, image \in survivors :
          jobs[j].status \in Active => image.jobs[j].status = jobs[j].status
    /\ \A j \in JobIds, image \in survivors :
          file.jobs[j].status = "queued" => image.jobs[j].status \in {"absent", "queued"}

\* A disclaimed job is out of every worker's reach, also after a restart.
DisclaimInv ==
    \A j \in disclaimed :
        /\ launches[j] = 0
        /\ jobs[j].status \in {"absent", "cancelled"}
        /\ \A image \in survivors : image.jobs[j].status \in {"absent", "queued", "cancelled"}

\* A ledger record repeats what the ticket of its job says.
Truthful(ledger) ==
    \A k \in Keys : ledger[k].job \in JobIds =>
        LET t == ticket[ledger[k].job] IN
        /\ t # NoTicket
        /\ t.key = k
        /\ t.fingerprint = ledger[k].fingerprint
        /\ ledger[k].expires = t.created + IdempotencyRetention

LedgerInv ==
    /\ Truthful(keys)
    /\ \A image \in survivors : Truthful(image.keys)

\* The ledger names the job of ticket t, unless that need not be remembered.
Covers(ledger, j) ==
    \/ ticket[j].key = NoKey
    \/ ledger[ticket[j].key].job = j
    \/ ticket[j].created + IdempotencyRetention <= now

Live(j) == jobs[j].status \in Active \/ launches[j] > 0

CoverInv ==
    \A j \in JobIds : Live(j) =>
        /\ \A image \in survivors : Covers(image.keys, j)
        /\ available \/ phase \in {"up", "stopping"} => Covers(keys, j)

\* Two live jobs of one key were admitted a retention period apart.
Separate(i, j) ==
    \/ ticket[i].created + IdempotencyRetention <= ticket[j].admitted
    \/ ticket[j].created + IdempotencyRetention <= ticket[i].admitted

SeparateInv ==
    \A i, j \in JobIds :
        (i # j /\ Live(i) /\ Live(j) /\ ticket[i].key = ticket[j].key /\ ticket[i].key # NoKey)
        => Separate(i, j)

\* A request was stamped in the past.
ClientInv == \A c \in Clients : client[c].created <= now

\* While work is accepted, the disk shows what memory shows.
SyncInv ==
    available => \A j \in JobIds, image \in survivors :
        jobs[j].status # "absent" => image.jobs[j] = jobs[j]

\* Answers agree with the ticket.
ToldInv == \A j \in JobIds : told[j] \subseteq {ticket[j].fingerprint} /\ (ticket[j] = NoTicket => told[j] = {})

Inv ==
    /\ TypeOK
    /\ IdleInv
    /\ QueueInv
    /\ WorkerInv
    /\ FreshInv
    /\ RecordInv
    /\ DisclaimInv
    /\ LedgerInv
    /\ CoverInv
    /\ SeparateInv
    /\ ClientInv
    /\ SyncInv
    /\ ToldInv

-----------------------------------------------------------------------------
(* Lemmas for the steps *)

\* After a write every image is an old one or the new one, and the file is the
\* new image or nothing changed.
LEMMA WriteEffect ==
    ASSUME NEW image, PersistSucceeds(image) \/ PersistFails(image)
    PROVE  /\ \A s \in survivors' : s \in survivors \/ s = image
           /\ file' = image \/ (file' = file /\ survivors' = survivors)
BY DEF PersistSucceeds, PersistFails, disk

LEMMA SentinelFacts ==
    /\ NoJob.status = "absent"
    /\ NoRecord.job = NoJobId
    /\ NoJobId \notin JobIds
    /\ NoTicket.created = 0
    /\ NoRequest.created = 0
    /\ Off.pc = "off" /\ Off.job = NoJobId
    /\ Waiting.pc = "waiting" /\ Waiting.job = NoJobId
BY ConstantsAssumption DEF NoJob, NoRecord, NoTicket, NoRequest, Off, Waiting

LEMMA SnapshotFields ==
    ASSUME NEW js, NEW ks
    PROVE  Snapshot(js, ks).jobs = js /\ Snapshot(js, ks).keys = ks
BY DEF Snapshot

\* Expiry leaves a truthful ledger truthful.
LEMMA ExpiryKeepsTruth ==
    ASSUME NEW ks \in [Keys -> Record], NEW t \in Nat, Truthful(ks)
    PROVE  Truthful(UnexpiredKeys(ks, t))
BY ExpiryKeepsOrForgets, SentinelFacts DEF Truthful

\* Expiry up to a moment in the past leaves every live job covered.
LEMMA ExpiryKeepsCover ==
    ASSUME TypeOK,
           NEW ks \in [Keys -> Record], NEW t \in Nat, t <= now, Truthful(ks),
           NEW j \in JobIds, Covers(ks, j)
    PROVE  Covers(UnexpiredKeys(ks, t), j)
<1>1. CASE ticket[j].key = NoKey
  BY <1>1 DEF Covers
<1>2. CASE ticket[j].created + IdempotencyRetention <= now
  BY <1>2 DEF Covers
<1>3. CASE ticket[j].key # NoKey /\ ks[ticket[j].key].job = j
  <2> DEFINE k == ticket[j].key
  <2>1. k \in Keys
    BY <1>3 DEF TypeOK, Ticket
  <2>2. CASE UnexpiredKeys(ks, t)[k] = ks[k]
    BY <1>3, <2>2 DEF Covers
  <2>3. CASE ks[k].expires <= t
    <3>1. ks[k].expires = ticket[j].created + IdempotencyRetention
      BY <1>3, <2>1 DEF Truthful
    <3>2. ticket[j].created \in Nat /\ now \in Nat
      BY DEF TypeOK, Ticket
    <3> QED BY <2>3, <3>1, <3>2, ConstantsAssumption DEF Covers
  <2> QED BY <2>1, <2>2, <2>3, ExpiryKeepsOrForgets
<1> QED BY <1>1, <1>2, <1>3 DEF Covers

\* Initially nothing has happened.
LEMMA InvInit == Init => Inv
<1> SUFFICES ASSUME Init PROVE Inv
  OBVIOUS
<1>1. TypeOK
  BY TypeInit
<1>2. \A j \in JobIds : jobs[j].status = "absent" /\ file.jobs[j].status = "absent"
  BY SentinelFacts DEF Init, NoJobs, EmptyImage
<1>3. \A k \in Keys : keys[k].job \notin JobIds /\ file.keys[k].job \notin JobIds
  BY SentinelFacts DEF Init, NoRecords, EmptyImage
<1>4. survivors = {file} /\ file = EmptyImage
  BY DEF Init
<1>5. IdleInv
  BY <1>2 DEF Init, IdleInv, Active
<1>6. QueueInv
  BY <1>2 DEF Init, QueueInv
<1>7. WorkerInv
  BY <1>2, SentinelFacts DEF Init, WorkerInv, Busy
<1>8. FreshInv /\ DisclaimInv
  BY <1>2, <1>4 DEF Init, FreshInv, DisclaimInv
<1>9. RecordInv
  BY <1>2, <1>4 DEF Init, RecordInv, Active
<1>10. LedgerInv
  BY <1>3, <1>4 DEF LedgerInv, Truthful
<1>11. \A j \in JobIds : ~Live(j)
  BY <1>2 DEF Init, Live, Active
<1>12. CoverInv /\ SeparateInv
  BY <1>11 DEF CoverInv, SeparateInv
<1>13. ClientInv
  BY SentinelFacts DEF Init, ClientInv
<1>14. SyncInv /\ ToldInv
  BY DEF Init, SyncInv, ToldInv
<1> QED BY <1>1, <1>5, <1>6, <1>7, <1>8, <1>9, <1>10, <1>12, <1>13, <1>14 DEF Inv

\* A restart reads the file back: interrupted jobs are closed, and what is told
\* of a queued one, that it was never launched, is true.
LEMMA LoadStep == Inv /\ Load => Inv'
<1> SUFFICES ASSUME Inv, Load PROVE Inv'
  OBVIOUS
<1> DEFINE image == Snapshot(jobs', keys')
           old == file.jobs
<1>1. TypeOK /\ TypeOK'
  BY TypeNext DEF Inv, Next, ProcessNext
<1>2. /\ file \in survivors
      /\ old \in [JobIds -> Job] /\ file.keys \in [Keys -> Record] /\ now \in Nat
  BY <1>1 DEF TypeOK, Image
<1>3. /\ phase = "down" /\ phase' = "loaded"
      /\ now' = now /\ queue' = queue /\ worker' = worker /\ client' = client
      /\ ticket' = ticket /\ launches' = launches /\ told' = told
      /\ keys' = UnexpiredKeys(file.keys, now)
      /\ disclaimed' = disclaimed \cup {j \in JobIds : old[j].status = "queued"}
      /\ PersistSucceeds(image) \/ (PersistFails(image) /\ available' = FALSE)
  BY DEF Load
<1>4. \A s \in survivors' : s \in survivors \/ s = image
  BY <1>3, WriteEffect
<1>5. file' = image \/ (file' = file /\ survivors' = survivors)
  BY <1>3, WriteEffect
<1>6. image.jobs = jobs' /\ image.keys = keys'
  BY SnapshotFields
\* What the new memory shows of each job.
<1>7. \A j \in JobIds :
         \/ jobs'[j].status = "absent"
         \/ jobs'[j].status = "cancelled" /\ old[j].status = "queued"
         \/ jobs'[j].status = "outcome_unknown" /\ old[j].status = "running"
         \/ jobs'[j] = old[j] /\ old[j].status \notin Active
  <2>1. Recovered(old, now) \in [JobIds -> Job]
    BY <1>2, RecoveryCloses
  <2>2. \A j \in JobIds : jobs'[j] = Recovered(old, now)[j] \/ jobs'[j] = NoJob
    BY <1>2, <2>1, PruningKeepsOrForgets DEF Load
  <2>3. \A j \in JobIds :
           \/ old[j].status = "queued" /\ Recovered(old, now)[j] = Closed("cancelled", now)
           \/ old[j].status = "running" /\ Recovered(old, now)[j] = Closed("outcome_unknown", now)
           \/ old[j].status \notin Active /\ Recovered(old, now)[j] = old[j]
    BY <1>2, RecoveryCloses
  <2>4. /\ Closed("cancelled", now).status = "cancelled"
        /\ Closed("outcome_unknown", now).status = "outcome_unknown"
    BY DEF Closed
  <2> QED BY <2>2, <2>3, <2>4, SentinelFacts
<1>8. \A j \in JobIds : jobs'[j].status \notin Active
  BY <1>7 DEF Active
<1>9. \A j \in JobIds : old[j].status = "absent" => jobs'[j].status = "absent"
  BY <1>7
<1>10. IdleInv'
  BY <1>3, <1>8 DEF Inv, IdleInv
<1>11. queue' = <<>> /\ \A j \in JobIds : jobs'[j].status # "queued" /\ jobs'[j].status # "running"
  BY <1>3, <1>8 DEF Inv, IdleInv, Active
<1>12. QueueInv'
  BY <1>11 DEF QueueInv
<1>13. \A w \in Workers : worker'[w] = Off
  BY <1>3 DEF Inv, IdleInv
<1>14. WorkerInv'
  BY <1>11, <1>13, SentinelFacts DEF WorkerInv, Busy
<1>15. FreshInv'
  BY <1>2, <1>3, <1>4, <1>6, <1>9 DEF Inv, FreshInv
<1>16. \A j \in JobIds : jobs'[j].status = "cancelled" => launches[j] = 0
  BY <1>2, <1>7 DEF Inv, RecordInv
<1>17. RecordInv'
  BY <1>3, <1>4, <1>5, <1>6, <1>8, <1>11, <1>16 DEF Inv, RecordInv
<1>18. DisclaimInv'
  <2>1. ASSUME NEW j \in disclaimed PROVE jobs'[j].status \in {"absent", "cancelled"}
    <3>1. j \in JobIds /\ old[j].status \in {"absent", "queued", "cancelled"}
      BY <1>1, <1>2 DEF Inv, DisclaimInv, TypeOK
    <3> QED BY <1>7, <3>1 DEF Active
  <2>2. ASSUME NEW j \in JobIds, old[j].status = "queued"
        PROVE  /\ launches[j] = 0
               /\ jobs'[j].status \in {"absent", "cancelled"}
               /\ \A s \in survivors : s.jobs[j].status \in {"absent", "queued", "cancelled"}
    BY <1>2, <1>7, <2>2 DEF Inv, RecordInv, Active
  <2> QED BY <1>3, <1>4, <1>6, <2>1, <2>2 DEF Inv, DisclaimInv
<1>19. LedgerInv'
  <2>1. Truthful(keys')
    BY <1>2, <1>3, ExpiryKeepsTruth DEF Inv, LedgerInv
  <2> QED BY <1>3, <1>4, <1>6, <2>1 DEF Inv, LedgerInv, Truthful
<1>20. \A j \in JobIds : Live(j)' => Live(j)
  BY <1>3, <1>8 DEF Live
<1>21. CoverInv'
  <2>1. ASSUME NEW j \in JobIds, Live(j) PROVE Covers(keys', j)
    <3>1. Covers(file.keys, j) /\ Truthful(file.keys)
      BY <1>2, <2>1 DEF Inv, CoverInv, LedgerInv
    <3> QED BY <1>1, <1>2, <1>3, <3>1, ExpiryKeepsCover
  <2> QED BY <1>3, <1>4, <1>6, <1>20, <2>1 DEF Inv, CoverInv, Covers
<1>22. SeparateInv'
  BY <1>3, <1>20 DEF Inv, SeparateInv, Separate
<1>23. ClientInv' /\ ToldInv'
  BY <1>3 DEF Inv, ClientInv, ToldInv
<1>24. SyncInv'
  BY <1>3, <1>6 DEF SyncInv, PersistSucceeds
<1> QED BY <1>1, <1>10, <1>12, <1>14, <1>15, <1>17, <1>18, <1>19, <1>21, <1>22, <1>23, <1>24 DEF Inv
\* A step that touches neither jobs, ledger, disk nor history keeps what the
\* invariant says of them; the clock may have moved, which only forgives.
LEMMA QuietStep ==
    ASSUME Inv, [Next]_vars,
           UNCHANGED <<jobs, queue, keys, file, survivors, ticket, launches, disclaimed, told>>,
           now' \in {now, now + 1},
           available' => available,
           available' \/ phase' \in {"up", "stopping"} => available \/ phase \in {"up", "stopping"}
    PROVE  /\ TypeOK' /\ QueueInv' /\ FreshInv' /\ RecordInv' /\ DisclaimInv' /\ LedgerInv'
           /\ CoverInv' /\ SeparateInv' /\ SyncInv' /\ ToldInv'
<1>1. TypeOK /\ TypeOK'
  BY TypeNext DEF Inv
<1>2. QueueInv' /\ FreshInv' /\ RecordInv' /\ DisclaimInv'
  BY DEF Inv, QueueInv, FreshInv, RecordInv, DisclaimInv
<1>3. LedgerInv' /\ SyncInv' /\ ToldInv'
  BY DEF Inv, LedgerInv, Truthful, SyncInv, ToldInv
<1>4. \A j \in JobIds : Live(j)' <=> Live(j)
  BY DEF Live
<1>5. SeparateInv'
  BY <1>4 DEF Inv, SeparateInv, Separate
<1>6. ASSUME NEW ledger, NEW j \in JobIds, Covers(ledger, j)
      PROVE  \/ ticket[j].key = NoKey
             \/ ledger[ticket[j].key].job = j
             \/ ticket[j].created + IdempotencyRetention <= now'
  <2>1. ticket[j].created + IdempotencyRetention \in Nat /\ now \in Nat
    BY <1>1, ConstantsAssumption DEF TypeOK, Ticket
  <2> QED BY <1>6, <2>1 DEF Covers
<1>7. CoverInv'
  BY <1>4, <1>6 DEF Inv, CoverInv, Covers
<1> QED BY <1>1, <1>2, <1>3, <1>5, <1>7

LEMMA LoadFailsStep == Inv /\ LoadFails => Inv'
<1> SUFFICES ASSUME Inv, LoadFails PROVE Inv'
  OBVIOUS
<1>1. [Next]_vars
  BY DEF Next, ProcessNext
<1>2. IdleInv' /\ WorkerInv' /\ ClientInv'
  BY DEF LoadFails, memory, history, Inv, IdleInv, WorkerInv, Busy, ClientInv
<1> QED BY <1>1, <1>2, QuietStep DEF LoadFails, memory, disk, history, Inv, IdleInv

LEMMA StartStep == Inv /\ Start => Inv'
<1> SUFFICES ASSUME Inv, Start PROVE Inv'
  OBVIOUS
<1>1. [Next]_vars
  BY DEF Next, ProcessNext
<1>2. \A j \in JobIds : jobs'[j].status # "running"
  BY DEF Start, memory, Inv, IdleInv, Active
<1>3. WorkerInv'
  BY <1>2, SentinelFacts DEF Start, WorkerInv, Busy
<1>4. IdleInv' /\ ClientInv'
  BY DEF Start, memory, Inv, IdleInv, ClientInv
<1> QED BY <1>1, <1>3, <1>4, QuietStep DEF Start, memory, disk, history, Inv

LEMMA StartFailsStep == Inv /\ StartFails => Inv'
<1> SUFFICES ASSUME Inv, StartFails PROVE Inv'
  OBVIOUS
<1>1. [Next]_vars
  BY DEF Next, ProcessNext
<1>2. IdleInv' /\ WorkerInv' /\ ClientInv'
  BY DEF StartFails, history, Inv, IdleInv, WorkerInv, Busy, ClientInv
<1> QED BY <1>1, <1>2, QuietStep DEF StartFails, disk, history, Inv

LEMMA PrepareStep == ASSUME NEW c \in Clients PROVE Inv /\ Prepare(c) => Inv'
<1> SUFFICES ASSUME Inv, Prepare(c) PROVE Inv'
  OBVIOUS
<1>1. [Next]_vars
  BY DEF Next, ClientNext
<1>2. IdleInv' /\ WorkerInv'
  BY DEF Prepare, memory, history, Inv, IdleInv, WorkerInv, Busy
<1>3. ClientInv'
  <2>1. now' = now /\ now \in Nat /\ client \in [Clients -> Request]
    BY DEF Prepare, Inv, TypeOK
  <2> QED BY <2>1 DEF Prepare, Inv, ClientInv
<1> QED BY <1>1, <1>2, <1>3, QuietStep DEF Prepare, memory, disk, history, Inv

\* An answered client is idle, which is as if stamped at time 0.
LEMMA AnsweredInPast ==
    ASSUME Inv, NEW c \in Clients, Answered(c), now' = now
    PROVE  ClientInv'
<1>1. now \in Nat /\ client \in [Clients -> Request]
  BY DEF Inv, TypeOK
<1> QED BY <1>1, SentinelFacts DEF Answered, Inv, ClientInv

LEMMA SubmitUnavailableStep == ASSUME NEW c \in Clients PROVE Inv /\ SubmitUnavailable(c) => Inv'
<1> SUFFICES ASSUME Inv, SubmitUnavailable(c) PROVE Inv'
  OBVIOUS
<1>1. [Next]_vars
  BY DEF Next, ClientNext
<1>2. IdleInv' /\ WorkerInv'
  BY DEF SubmitUnavailable, memory, history, Inv, IdleInv, WorkerInv, Busy
<1>3. ClientInv'
  BY AnsweredInPast DEF SubmitUnavailable
<1> QED BY <1>1, <1>2, <1>3, QuietStep DEF SubmitUnavailable, memory, disk, history, Inv

LEMMA WorkerExitStep == ASSUME NEW w \in Workers PROVE Inv /\ WorkerExit(w) => Inv'
<1> SUFFICES ASSUME Inv, WorkerExit(w) PROVE Inv'
  OBVIOUS
<1>1. [Next]_vars
  BY DEF Next, WorkerNext
<1>2. IdleInv' /\ ClientInv'
  BY DEF WorkerExit, memory, history, Inv, IdleInv, ClientInv
<1>3. /\ worker[w].job = NoJobId /\ worker'[w] = Off
      /\ \A v \in Workers : v # w => worker'[v] = worker[v]
  BY DEF WorkerExit, Inv, WorkerInv, Busy, TypeOK
<1>4. WorkerInv'
  BY <1>3, SentinelFacts DEF WorkerExit, memory, history, Inv, WorkerInv, Busy
<1> QED BY <1>1, <1>2, <1>4, QuietStep DEF WorkerExit, memory, disk, history, Inv

LEMMA TickStep == Inv /\ Tick => Inv'
<1> SUFFICES ASSUME Inv, Tick PROVE Inv'
  OBVIOUS
<1>1. [Next]_vars
  BY DEF Next
<1>2. IdleInv' /\ WorkerInv'
  BY DEF Tick, memory, history, Inv, IdleInv, WorkerInv, Busy
<1>3. ClientInv'
  BY DEF Tick, Inv, ClientInv, TypeOK, Request
<1> QED BY <1>1, <1>2, <1>3, QuietStep DEF Tick, memory, disk, history, Inv

LEMMA StutterStep == Inv /\ UNCHANGED vars => Inv'
<1> SUFFICES ASSUME Inv, UNCHANGED vars PROVE Inv'
  OBVIOUS
<1>1. [Next]_vars
  OBVIOUS
<1>2. IdleInv' /\ WorkerInv' /\ ClientInv'
  BY DEF vars, memory, history, Inv, IdleInv, WorkerInv, Busy, ClientInv
<1> QED BY <1>1, <1>2, QuietStep DEF vars, memory, disk, history, Inv

\* The end of the process, with the disk as it was or as a power loss left it.
LEMMA DeathStep == Inv /\ (Exit \/ Kill \/ PowerLoss) => Inv'
<1> SUFFICES ASSUME Inv, Exit \/ Kill \/ PowerLoss PROVE Inv'
  OBVIOUS
<1>1. TypeOK /\ TypeOK'
  BY TypeNext DEF Inv, Next, ProcessNext
<1>2. /\ MemoryLost
      /\ now' = now /\ ticket' = ticket /\ launches' = launches
      /\ disclaimed' = disclaimed /\ told' = told
      /\ survivors' \subseteq survivors
      /\ (file' = file /\ survivors' = survivors) \/ survivors' = {file'}
  BY DEF Exit, Kill, PowerLoss, disk, history
<1>3. /\ phase' = "down" /\ ~available' /\ queue' = <<>>
      /\ \A w \in Workers : worker'[w] = Off
      /\ \A j \in JobIds : jobs'[j].status = "absent"
      /\ \A k \in Keys : keys'[k].job = NoJobId
      /\ \A c \in Clients : client'[c].created = 0
  BY <1>2, SentinelFacts DEF MemoryLost, NoJobs, NoRecords
<1>4. IdleInv'
  BY <1>3 DEF IdleInv, Active
<1>5. QueueInv' /\ WorkerInv'
  BY <1>3, SentinelFacts DEF QueueInv, WorkerInv, Busy
<1>6. FreshInv' /\ DisclaimInv'
  BY <1>1, <1>2, <1>3 DEF Inv, FreshInv, DisclaimInv, TypeOK
<1>7. RecordInv'
  BY <1>2, <1>3 DEF Inv, RecordInv, Active
<1>8. LedgerInv'
  BY <1>2, <1>3, SentinelFacts DEF Inv, LedgerInv, Truthful
<1>9. \A j \in JobIds : Live(j)' => Live(j)
  BY <1>2, <1>3 DEF Live, Active
<1>10. CoverInv' /\ SeparateInv'
  BY <1>2, <1>3, <1>9 DEF Inv, CoverInv, Covers, SeparateInv, Separate
<1>11. ClientInv' /\ SyncInv' /\ ToldInv'
  BY <1>1, <1>2, <1>3 DEF Inv, ClientInv, SyncInv, ToldInv, TypeOK
<1> QED BY <1>1, <1>4, <1>5, <1>6, <1>7, <1>8, <1>10, <1>11 DEF Inv

\* The launch: the job is on record as running in every image, so that no
\* later process can take it for one that never began.
LEMMA LaunchStep == ASSUME NEW w \in Workers PROVE Inv /\ Launch(w) => Inv'
<1> SUFFICES ASSUME Inv, Launch(w) PROVE Inv'
  OBVIOUS
<1> DEFINE j == worker[w].job
<1>1. TypeOK /\ TypeOK'
  BY TypeNext DEF Inv, Next, WorkerNext
<1>2. /\ now' = now /\ phase' = phase /\ available' = available /\ jobs' = jobs
      /\ queue' = queue /\ keys' = keys /\ client' = client /\ file' = file
      /\ survivors' = survivors /\ ticket' = ticket /\ disclaimed' = disclaimed
      /\ told' = told /\ worker[w].pc = "taken"
  BY DEF Launch, memory, disk
<1>3. j \in JobIds /\ jobs[j].status = "running" /\ launches[j] = 0
  BY <1>2 DEF Inv, WorkerInv, Busy
<1>4. /\ launches'[j] = 1
      /\ \A i \in JobIds : i # j => launches'[i] = launches[i]
  BY <1>1, <1>3 DEF Launch, TypeOK
<1>5. /\ worker'[w].pc = "launched" /\ worker'[w].job = j
      /\ \A v \in Workers : v # w => worker'[v] = worker[v]
  BY <1>1 DEF Launch, TypeOK
<1>6. \A s \in survivors : s.jobs[j].status = "running"
  BY <1>3 DEF Inv, RecordInv, Active
<1>7. IdleInv'
  BY <1>2, <1>5, SentinelFacts DEF Inv, IdleInv
<1>8. QueueInv'
  BY <1>2 DEF Inv, QueueInv
<1>9. WorkerInv'
  <2>1. \A v \in Workers : v # w => worker[v].job # j
    BY <1>3, SentinelFacts DEF Inv, WorkerInv
  <2> QED BY <1>2, <1>3, <1>4, <1>5, <2>1 DEF Inv, WorkerInv, Busy
<1>10. FreshInv' /\ DisclaimInv'
  BY <1>1, <1>2, <1>3, <1>4 DEF Inv, FreshInv, DisclaimInv, TypeOK
<1>11. RecordInv'
  BY <1>2, <1>3, <1>4, <1>6 DEF Inv, RecordInv
<1>12. LedgerInv' /\ SyncInv' /\ ToldInv' /\ ClientInv'
  BY <1>2 DEF Inv, LedgerInv, Truthful, SyncInv, ToldInv, ClientInv
<1>13. \A i \in JobIds : Live(i)' => Live(i)
  BY <1>2, <1>3, <1>4 DEF Live, Active
<1>14. CoverInv' /\ SeparateInv'
  BY <1>2, <1>13 DEF Inv, CoverInv, Covers, SeparateInv, Separate
<1> QED BY <1>1, <1>7, <1>8, <1>9, <1>10, <1>11, <1>12, <1>14 DEF Inv
(* The steps of submit *)

\* What pruneLocked may do to memory in a submit or a Finish keeps the
\* invariant: it forgets finished jobs and records whose retention is over.
LEMMA PruneStep ==
    ASSUME Inv, NEW t \in Nat, t <= now,
           NEW js \in Prunings(jobs, t)
    PROVE  /\ js \in [JobIds -> Job]
           /\ \A j \in JobIds : js[j] = jobs[j] \/ (js[j].status = "absent" /\ jobs[j].status \in Terminal)
           /\ UnexpiredKeys(keys, t) \in [Keys -> Record]
           /\ Truthful(UnexpiredKeys(keys, t))
           /\ \A j \in JobIds :
                 Live(j) /\ (available \/ phase \in {"up", "stopping"}) => Covers(UnexpiredKeys(keys, t), j)
<1>1. TypeOK /\ jobs \in [JobIds -> Job] /\ keys \in [Keys -> Record] /\ Truthful(keys)
  BY DEF Inv, TypeOK, LedgerInv
<1>2. /\ js \in [JobIds -> Job]
      /\ \A j \in JobIds : js[j] = jobs[j] \/ (js[j].status = "absent" /\ jobs[j].status \in Terminal)
  BY <1>1, PruningKeepsOrForgets, SentinelFacts
<1>3. UnexpiredKeys(keys, t) \in [Keys -> Record] /\ Truthful(UnexpiredKeys(keys, t))
  BY <1>1, ExpiryKeepsOrForgets, ExpiryKeepsTruth
<1>4. ASSUME NEW j \in JobIds, Live(j), available \/ phase \in {"up", "stopping"}
      PROVE  Covers(UnexpiredKeys(keys, t), j)
  <2>1. Covers(keys, j)
    BY <1>4 DEF Inv, CoverInv
  <2> QED BY <1>1, <2>1, ExpiryKeepsCover
<1> QED BY <1>2, <1>3, <1>4

\* The answers that end after pruneLocked.
LEMMA SubmitPrunedStep ==
    ASSUME NEW c \in Clients, Inv, SubmitPruned(c), TypeOK', ToldInv'
    PROVE  Inv'
<1>1. client[c].created \in Nat /\ client[c].created <= now
  BY DEF Inv, ClientInv, TypeOK, Request
<1>2. /\ available' = available /\ available /\ phase' = phase /\ phase = "up"
      /\ now' = now /\ queue' = queue /\ worker' = worker
      /\ file' = file /\ survivors' = survivors
      /\ ticket' = ticket /\ launches' = launches /\ disclaimed' = disclaimed
      /\ keys' = UnexpiredKeys(keys, client[c].created)
      /\ jobs' \in Prunings(jobs, client[c].created)
  BY DEF SubmitPruned, disk
<1>3. /\ \A j \in JobIds : jobs'[j] = jobs[j] \/ (jobs'[j].status = "absent" /\ jobs[j].status \in Terminal)
      /\ Truthful(keys')
      /\ \A j \in JobIds : Live(j) => Covers(keys', j)
  BY <1>1, <1>2, PruneStep
<1>4. \A j \in JobIds : /\ jobs'[j].status \in Active <=> jobs[j].status \in Active
                        /\ jobs[j].status \in Active => jobs'[j] = jobs[j]
                        /\ jobs'[j].status \in Terminal => jobs'[j] = jobs[j]
  BY <1>3 DEF Active, Terminal
<1>5. IdleInv'
  BY <1>2 DEF IdleInv
<1>6. queue \in Seq(JobIds)
  BY DEF Inv, TypeOK
<1>7. QueueInv'
  BY <1>2, <1>4, <1>6 DEF Inv, QueueInv, Active
<1>8. WorkerInv'
  BY <1>2, <1>4 DEF Inv, WorkerInv, Busy, Active
<1>9. FreshInv' /\ DisclaimInv'
  BY <1>2, <1>3 DEF Inv, FreshInv, DisclaimInv, TypeOK
<1>10. RecordInv'
  BY <1>2, <1>3, <1>4 DEF Inv, RecordInv, Terminal, Active
<1>11. LedgerInv'
  BY <1>2, <1>3 DEF Inv, LedgerInv, Truthful
<1>12. \A j \in JobIds : Live(j)' <=> Live(j)
  BY <1>2, <1>4 DEF Live
<1>13. CoverInv' /\ SeparateInv'
  BY <1>2, <1>3, <1>12 DEF Inv, CoverInv, Covers, SeparateInv, Separate
<1>14. ClientInv'
  BY <1>2, AnsweredInPast DEF SubmitPruned
<1>15. SyncInv'
  BY <1>2, <1>3 DEF Inv, SyncInv
<1> QED BY <1>5, <1>7, <1>8, <1>9, <1>10, <1>11, <1>13, <1>14, <1>15 DEF Inv

LEMMA SubmitRepeatedStep == ASSUME NEW c \in Clients PROVE Inv /\ SubmitRepeated(c) => Inv'
<1> SUFFICES ASSUME Inv, SubmitRepeated(c) PROVE Inv'
  OBVIOUS
<1> DEFINE r == client[c]
           j == keys'[r.key].job
<1>1. TypeOK /\ TypeOK'
  BY TypeNext DEF Inv, Next, ClientNext
<1>2. r \in Request /\ r.created \in Nat /\ r.created <= now
  BY <1>1 DEF Inv, ClientInv, TypeOK, Request
<1>3. r.key \in Keys /\ j \in JobIds /\ keys'[r.key].fingerprint = r.fingerprint
  BY <1>1, <1>2 DEF SubmitRepeated, Matches, Repeated, Request, TypeOK, Record
<1>4. Truthful(keys')
  BY <1>2, PruneStep DEF SubmitRepeated, SubmitPruned
<1>5. ticket[j] # NoTicket /\ ticket[j].fingerprint = r.fingerprint
  BY <1>3, <1>4 DEF Truthful
<1>6. ToldInv'
  BY <1>1, <1>3, <1>5 DEF SubmitRepeated, SubmitPruned, Inv, ToldInv, TypeOK
<1> QED BY <1>1, <1>6, SubmitPrunedStep DEF SubmitRepeated

LEMMA SubmitDeclinedStep == ASSUME NEW c \in Clients PROVE Inv /\ SubmitDeclined(c) => Inv'
<1> SUFFICES ASSUME Inv, SubmitDeclined(c) PROVE Inv'
  OBVIOUS
<1>1. TypeOK'
  BY TypeNext DEF Inv, Next, ClientNext
<1>2. ToldInv'
  BY DEF SubmitDeclined, SubmitPruned, Inv, ToldInv
<1> QED BY <1>1, <1>2, SubmitPrunedStep DEF SubmitDeclined

\* What both ways of inserting a job have in common: the identifier is fresh,
\* the key is on no ledger record, and the image to be written agrees with the
\* invariant for the new ticket.
LEMMA InsertFacts ==
    ASSUME Inv, NEW c \in Clients, NEW j \in JobIds,
           NEW js \in Prunings(jobs, client[c].created),
           Admissible(c, UnexpiredKeys(keys, client[c].created)),
           Issue(j, client[c]), now' = now
    PROVE  LET r == client[c]
               ks == UnexpiredKeys(keys, r.created)
           IN  /\ r \in Request /\ r.created \in Nat /\ r.created > 0 /\ r.created <= now
               /\ phase = "up" /\ available
               /\ ticket[j] = NoTicket
               /\ ticket'[j] # NoTicket
               /\ ticket'[j].key = r.key /\ ticket'[j].fingerprint = r.fingerprint
               /\ ticket'[j].created = r.created /\ ticket'[j].admitted = now
               /\ \A i \in JobIds : i # j => ticket'[i] = ticket[i]
               /\ launches[j] = 0 /\ jobs[j].status = "absent" /\ js[j].status = "absent"
               /\ \A s \in survivors : s.jobs[j].status = "absent"
               /\ \A k \in Keys : ks[k].job # j /\ keys[k].job # j
               /\ \A s \in survivors, k \in Keys : s.keys[k].job # j
               /\ \A i \in JobIds :
                     (Live(i) /\ ticket[i].key = r.key /\ r.key # NoKey)
                     => ticket[i].created + IdempotencyRetention <= now
<1> DEFINE r == client[c]
           ks == UnexpiredKeys(keys, r.created)
<1>1. TypeOK
  BY DEF Inv
<1>2. r \in Request /\ r.created \in Nat /\ r.created > 0 /\ r.created <= now
  BY <1>1 DEF Inv, ClientInv, TypeOK, Request, Admissible, Pending
<1>3. phase = "up" /\ available /\ ~Repeated(r, ks)
  BY DEF Admissible
<1>4. /\ ticket[j] = NoTicket
      /\ ticket'[j].key = r.key /\ ticket'[j].fingerprint = r.fingerprint
      /\ ticket'[j].created = r.created /\ ticket'[j].admitted = now
      /\ \A i \in JobIds : i # j => ticket'[i] = ticket[i]
  BY <1>1 DEF Issue, TypeOK
<1>5. ticket'[j] # NoTicket
  BY <1>2, <1>4, SentinelFacts
<1>6. launches[j] = 0 /\ jobs[j].status = "absent" /\ \A s \in survivors : s.jobs[j].status = "absent"
  BY <1>4 DEF Inv, FreshInv
<1>7. js[j].status = "absent"
  BY <1>2, <1>6, PruneStep
<1>8. Truthful(ks) /\ Truthful(keys) /\ \A s \in survivors : Truthful(s.keys)
  BY <1>2, PruneStep DEF Inv, LedgerInv
<1>9. /\ \A k \in Keys : ks[k].job # j /\ keys[k].job # j
      /\ \A s \in survivors, k \in Keys : s.keys[k].job # j
  BY <1>4, <1>8 DEF Truthful
<1>10. ASSUME NEW i \in JobIds, Live(i), ticket[i].key = r.key, r.key # NoKey
       PROVE  ticket[i].created + IdempotencyRetention <= now
  <2>1. Covers(ks, i)
    BY <1>2, <1>3, <1>10, PruneStep
  <2>2. ks[r.key].job = NoJobId
    BY <1>3, <1>10 DEF Repeated
  <2> QED BY <1>10, <2>1, <2>2, SentinelFacts DEF Covers
<1> QED BY <1>2, <1>3, <1>4, <1>5, <1>6, <1>7, <1>9, <1>10
\* The ledger with the new record is truthful for the new ticket, and covers
\* the new job and every other live job.
LEMMA WithKeyFacts ==
    ASSUME NEW r \in Request, NEW ks \in [Keys -> Record], NEW j \in JobIds
    PROVE  \A k \in Keys :
              \/ WithKey(ks, j, r)[k] = ks[k] /\ k # r.key
              \/ /\ k = r.key
                 /\ WithKey(ks, j, r)[k].job = j
                 /\ WithKey(ks, j, r)[k].fingerprint = r.fingerprint
                 /\ WithKey(ks, j, r)[k].expires = r.created + IdempotencyRetention
BY ConstantsAssumption DEF WithKey, Request

LEMMA WithJobFacts ==
    ASSUME NEW js \in [JobIds -> Job], NEW j \in JobIds
    PROVE  /\ WithJob(js, j)[j].status = "queued"
           /\ \A i \in JobIds : i # j => WithJob(js, j)[i] = js[i]
BY DEF WithJob

\* Truthful(ledger), for a history of tickets that need not be the present one.
TrueFor(ledger, tickets) ==
    \A k \in Keys : ledger[k].job \in JobIds =>
        /\ tickets[ledger[k].job] # NoTicket
        /\ tickets[ledger[k].job].key = k
        /\ tickets[ledger[k].job].fingerprint = ledger[k].fingerprint
        /\ ledger[k].expires = tickets[ledger[k].job].created + IdempotencyRetention

\* Ledgers keep their truth when a fresh ticket is issued, the new one included.
LEMMA InsertKeepsTruth ==
    ASSUME Inv, NEW c \in Clients, NEW j \in JobIds,
           NEW js \in Prunings(jobs, client[c].created),
           Admissible(c, UnexpiredKeys(keys, client[c].created)),
           Issue(j, client[c]), now' = now
    PROVE  LET r == client[c]
               ks == UnexpiredKeys(keys, r.created)
               new == WithKey(ks, j, r)
           IN  /\ TrueFor(ks, ticket') /\ TrueFor(new, ticket')
               /\ \A s \in survivors : TrueFor(s.keys, ticket')
               /\ \A i \in JobIds : Live(i) => Covers(new, i)
               /\ r.key = NoKey \/ new[r.key].job = j
<1> DEFINE r == client[c]
           ks == UnexpiredKeys(keys, r.created)
           new == WithKey(ks, j, r)
<1>1. /\ r \in Request /\ r.created \in Nat /\ r.created <= now
      /\ phase = "up"
      /\ ticket'[j] # NoTicket
      /\ ticket'[j].key = r.key /\ ticket'[j].fingerprint = r.fingerprint
      /\ ticket'[j].created = r.created
      /\ \A i \in JobIds : i # j => ticket'[i] = ticket[i]
      /\ \A k \in Keys : ks[k].job # j
      /\ \A s \in survivors, k \in Keys : s.keys[k].job # j
      /\ \A i \in JobIds : (Live(i) /\ ticket[i].key = r.key /\ r.key # NoKey)
                            => ticket[i].created + IdempotencyRetention <= now
  BY InsertFacts
<1>2. ks \in [Keys -> Record] /\ Truthful(ks) /\ \A i \in JobIds : Live(i) => Covers(ks, i)
  BY <1>1, PruneStep
<1>3. \A k \in Keys :
              \/ new[k] = ks[k] /\ k # r.key
              \/ /\ k = r.key
                 /\ new[k].job = j
                 /\ new[k].fingerprint = r.fingerprint
                 /\ new[k].expires = r.created + IdempotencyRetention
  BY <1>1, <1>2, WithKeyFacts
<1>4. ASSUME NEW ledger, Truthful(ledger), \A k \in Keys : ledger[k].job # j
      PROVE  TrueFor(ledger, ticket')
  BY <1>1, <1>4 DEF Truthful, TrueFor
<1>5. TrueFor(ks, ticket') /\ \A s \in survivors : TrueFor(s.keys, ticket')
  BY <1>1, <1>2, <1>4 DEF Inv, LedgerInv
<1>6. TrueFor(new, ticket')
  BY <1>1, <1>3, <1>5 DEF TrueFor
<1>7. \A i \in JobIds : ticket[i].key \in Keys \cup {NoKey}
  BY DEF Inv, TypeOK, Ticket
<1>8. \A i \in JobIds : Live(i) => Covers(new, i)
  BY <1>1, <1>2, <1>3, <1>7, ConstantsAssumption DEF Covers
<1>9. r.key = NoKey \/ new[r.key].job = j
  BY <1>1, <1>3 DEF Request
<1> QED BY <1>5, <1>6, <1>8, <1>9

LEMMA SubmitAcceptedStep == ASSUME NEW c \in Clients PROVE Inv /\ SubmitAccepted(c) => Inv'
<1> SUFFICES ASSUME Inv, SubmitAccepted(c) PROVE Inv'
  OBVIOUS
<1> DEFINE r == client[c]
           ks == UnexpiredKeys(keys, r.created)
<1>1. TypeOK /\ TypeOK'
  BY TypeNext DEF Inv, Next, ClientNext
<1>2. PICK j \in JobIds, js \in Prunings(jobs, r.created) :
              /\ Issue(j, r)
              /\ jobs' = WithJob(js, j)
              /\ keys' = WithKey(ks, j, r)
              /\ queue' = Append(queue, j)
              /\ told' = [told EXCEPT ![j] = {r.fingerprint}]
  BY DEF SubmitAccepted
<1>3. /\ Admissible(c, ks)
      /\ now' = now /\ phase' = phase /\ available' = available /\ worker' = worker
      /\ launches' = launches /\ disclaimed' = disclaimed
      /\ file' = Snapshot(jobs', keys') /\ survivors' = {file'}
      /\ Answered(c)
  BY DEF SubmitAccepted, PersistSucceeds
<1>4. /\ r \in Request /\ r.created \in Nat /\ r.created <= now
      /\ phase = "up" /\ available
      /\ ticket[j] = NoTicket /\ ticket'[j] # NoTicket
      /\ ticket'[j].key = r.key /\ ticket'[j].fingerprint = r.fingerprint
      /\ ticket'[j].created = r.created /\ ticket'[j].admitted = now
      /\ \A i \in JobIds : i # j => ticket'[i] = ticket[i]
      /\ launches[j] = 0 /\ jobs[j].status = "absent"
      /\ \A i \in JobIds : (Live(i) /\ ticket[i].key = r.key /\ r.key # NoKey)
                            => ticket[i].created + IdempotencyRetention <= now
  BY <1>2, <1>3, InsertFacts
<1>5. /\ js \in [JobIds -> Job]
      /\ \A i \in JobIds : js[i] = jobs[i] \/ (js[i].status = "absent" /\ jobs[i].status \in Terminal)
  BY <1>2, <1>4, PruneStep
<1>6. jobs'[j].status = "queued" /\ \A i \in JobIds : i # j => jobs'[i] = js[i]
  BY <1>2, <1>5, WithJobFacts
<1>7. \A i \in JobIds : i # j =>
         /\ jobs'[i].status \in Active <=> jobs[i].status \in Active
         /\ jobs'[i] = jobs[i] \/ (jobs'[i].status = "absent" /\ jobs[i].status \notin Active)
  BY <1>5, <1>6 DEF Active, Terminal
<1>8. file'.jobs = jobs' /\ file'.keys = keys'
  BY <1>3, SnapshotFields
<1>9. IdleInv'
  BY <1>3, <1>4 DEF IdleInv
<1>10. QueueInv'
  <2>1. /\ queue \in Seq(JobIds) /\ Len(queue') = Len(queue) + 1
        /\ queue'[Len(queue) + 1] = j
        /\ \A i \in 1..Len(queue) : queue'[i] = queue[i] /\ queue[i] \in JobIds
    BY <1>1, <1>2 DEF TypeOK
  <2>2. \A i \in 1..Len(queue) : queue[i] # j /\ jobs[queue[i]].status = "queued"
    BY <1>4 DEF Inv, QueueInv
  <2>3. \A i \in 1..Len(queue) : jobs'[queue[i]].status = "queued"
    BY <1>7, <2>1, <2>2 DEF Active
  <2>4. \A i \in 1..Len(queue') : i \in 1..Len(queue) \/ i = Len(queue) + 1
    BY <2>1
  <2>5. \A i \in 1..Len(queue') : jobs'[queue'[i]].status = "queued"
    BY <1>6, <2>1, <2>3, <2>4
  <2>6. \A i1, i2 \in 1..Len(queue') : queue'[i1] = queue'[i2] => i1 = i2
    BY <2>1, <2>2, <2>4 DEF Inv, QueueInv
  <2>7. ASSUME NEW i \in JobIds, jobs'[i].status = "queued"
        PROVE  \E n \in 1..Len(queue') : queue'[n] = i
    <3>1. CASE i = j
      BY <2>1, <3>1
    <3>2. CASE i # j
      <4>1. jobs[i].status = "queued"
        BY <1>7, <2>7, <3>2
      <4>2. PICK n \in 1..Len(queue) : queue[n] = i
        BY <4>1 DEF Inv, QueueInv
      <4> QED BY <2>1, <4>2
    <3> QED BY <3>1, <3>2
  <2> QED BY <2>5, <2>6, <2>7 DEF QueueInv
<1>11. WorkerInv'
  BY <1>3, <1>4, <1>6, <1>7 DEF Inv, WorkerInv, Busy, Active
<1>12. FreshInv' /\ DisclaimInv'
  BY <1>1, <1>3, <1>4, <1>7, <1>8 DEF Inv, FreshInv, DisclaimInv, TypeOK
<1>13. RecordInv'
  BY <1>3, <1>4, <1>6, <1>7, <1>8 DEF Inv, RecordInv
<1>14. LedgerInv'
  <2>1. TrueFor(keys', ticket')
    BY <1>2, <1>3, InsertKeepsTruth
  <2>2. Truthful(keys)'
    BY <2>1 DEF Truthful, TrueFor
  <2> QED BY <1>3, <1>8, <2>2 DEF LedgerInv, Truthful
<1>15. \A i \in JobIds : i # j => (Live(i)' <=> Live(i))
  BY <1>3, <1>7 DEF Live
<1>16. CoverInv'
  <2>1. ASSUME NEW i \in JobIds, Live(i)' PROVE Covers(keys, i)'
    <3>1. CASE i = j
      BY <1>2, <1>3, <1>4, <3>1, InsertKeepsTruth DEF Covers
    <3>2. CASE i # j
      BY <1>2, <1>3, <1>4, <1>15, <2>1, <3>2, InsertKeepsTruth DEF Covers
    <3> QED BY <3>1, <3>2
  <2> QED BY <1>3, <1>8, <2>1 DEF CoverInv, Covers
<1>17. SeparateInv'
  <2>1. ASSUME NEW i \in JobIds, NEW h \in JobIds, i # h, Live(i)', Live(h)',
               ticket'[i].key = ticket'[h].key, ticket'[i].key # NoKey
        PROVE  Separate(i, h)'
    <3>1. CASE i # j /\ h # j
      BY <1>4, <1>15, <2>1, <3>1 DEF Inv, SeparateInv, Separate
    <3>2. CASE i = j
      BY <1>4, <1>15, <2>1, <3>2 DEF Separate
    <3>3. CASE h = j
      BY <1>4, <1>15, <2>1, <3>3 DEF Separate
    <3> QED BY <3>1, <3>2, <3>3
  <2> QED BY <2>1 DEF SeparateInv
<1>18. ClientInv'
  BY <1>3, AnsweredInPast
<1>19. SyncInv'
  BY <1>3, <1>8 DEF SyncInv
<1>20. ToldInv'
  BY <1>1, <1>2, <1>4 DEF Inv, ToldInv, TypeOK
<1> QED BY <1>1, <1>9, <1>10, <1>11, <1>12, <1>13, <1>14, <1>16, <1>17, <1>18, <1>19, <1>20 DEF Inv

\* The submission that could not be recorded leaves no trace in memory, and a
\* trace on disk that a restart reports, truly, as never launched.
LEMMA SubmitNotRecordedStep == ASSUME NEW c \in Clients PROVE Inv /\ SubmitNotRecorded(c) => Inv'
<1> SUFFICES ASSUME Inv, SubmitNotRecorded(c) PROVE Inv'
  OBVIOUS
<1> DEFINE r == client[c]
           ks == UnexpiredKeys(keys, r.created)
<1>1. TypeOK /\ TypeOK'
  BY TypeNext DEF Inv, Next, ClientNext
<1>2. PICK j \in JobIds, js \in Prunings(jobs, r.created) :
              /\ Issue(j, r)
              /\ PersistFails(Snapshot(WithJob(js, j), WithKey(ks, j, r)))
              /\ jobs' = js
              /\ keys' = ks
              /\ disclaimed' = disclaimed \cup {j}
  BY DEF SubmitNotRecorded
<1> DEFINE image == Snapshot(WithJob(js, j), WithKey(ks, j, r))
<1>3. /\ Admissible(c, ks)
      /\ now' = now /\ phase' = phase /\ available' = FALSE /\ worker' = worker /\ queue' = queue
      /\ launches' = launches /\ told' = told
      /\ Answered(c)
      /\ \A s \in survivors' : s \in survivors \/ s = image
      /\ file' = image \/ (file' = file /\ survivors' = survivors)
  BY <1>2, WriteEffect DEF SubmitNotRecorded
<1>4. /\ r \in Request /\ r.created \in Nat /\ r.created <= now
      /\ phase = "up" /\ available
      /\ ticket[j] = NoTicket /\ ticket'[j] # NoTicket
      /\ \A i \in JobIds : i # j => ticket'[i] = ticket[i]
      /\ launches[j] = 0 /\ jobs[j].status = "absent" /\ js[j].status = "absent"
      /\ \A s \in survivors : s.jobs[j].status = "absent"
  BY <1>2, <1>3, InsertFacts
<1>5. /\ js \in [JobIds -> Job]
      /\ \A i \in JobIds : js[i] = jobs[i] \/ (js[i].status = "absent" /\ jobs[i].status \in Terminal)
  BY <1>2, <1>4, PruneStep
<1>6. image.jobs[j].status = "queued" /\ \A i \in JobIds : i # j => image.jobs[i] = js[i]
  BY <1>2, <1>5, WithJobFacts, SnapshotFields
<1>7. \A i \in JobIds :
         /\ jobs'[i].status \in Active <=> jobs[i].status \in Active
         /\ jobs'[i] = jobs[i] \/ (jobs'[i].status = "absent" /\ jobs[i].status \notin Active)
  BY <1>2, <1>5 DEF Active, Terminal
<1>8. image.keys = WithKey(ks, j, r)
  BY SnapshotFields
<1>9. IdleInv'
  BY <1>3, <1>4 DEF IdleInv
<1>10. QueueInv'
  <2>1. \A i \in 1..Len(queue) : queue[i] \in JobIds
    BY <1>1 DEF TypeOK
  <2> QED BY <1>3, <1>7, <2>1 DEF Inv, QueueInv, Active
<1>11. WorkerInv'
  BY <1>3, <1>7 DEF Inv, WorkerInv, Busy, Active
<1>12. FreshInv'
  BY <1>1, <1>2, <1>3, <1>4, <1>6, <1>7 DEF Inv, FreshInv, TypeOK
<1>13. DisclaimInv'
  <2>1. ASSUME NEW i \in disclaimed PROVE i \in JobIds /\ i # j
    BY <1>1, <1>4 DEF Inv, FreshInv, TypeOK
  <2>2. \A i \in disclaimed : /\ launches[i] = 0
                              /\ jobs[i].status \in {"absent", "cancelled"}
                              /\ \A s \in survivors : s.jobs[i].status \in {"absent", "queued", "cancelled"}
    BY DEF Inv, DisclaimInv
  <2>3. \A i \in disclaimed' : \A s \in survivors' : s.jobs[i].status \in {"absent", "queued", "cancelled"}
    BY <1>2, <1>3, <1>4, <1>6, <1>7, <2>1, <2>2
  <2> QED BY <1>2, <1>3, <1>4, <1>7, <2>1, <2>2, <2>3 DEF DisclaimInv
<1>14. RecordInv'
  <2>1. \A i \in JobIds : jobs'[i].status \in {"queued", "cancelled"} => launches'[i] = 0
    BY <1>3, <1>7 DEF Inv, RecordInv
  <2>2. \A i \in JobIds, s \in survivors' :
          s.jobs[i].status \in {"queued", "cancelled"} => launches'[i] = 0
    BY <1>2, <1>3, <1>4, <1>6, <2>1 DEF Inv, RecordInv
  <2>3. \A i \in JobIds, s \in survivors' :
          jobs'[i].status \in Active => s.jobs[i].status = jobs'[i].status
    BY <1>2, <1>3, <1>4, <1>6, <1>7 DEF Inv, RecordInv, Active
  <2>4. ASSUME NEW i \in JobIds, NEW s \in survivors', file'.jobs[i].status = "queued"
        PROVE  s.jobs[i].status \in {"absent", "queued"}
    <3>1. CASE file' = file /\ survivors' = survivors
      BY <2>4, <3>1 DEF Inv, RecordInv
    <3>2. CASE file' = image /\ i = j
      BY <1>3, <1>4, <1>6, <3>2
    <3>3. CASE file' = image /\ i # j
      <4>1. jobs'[i].status = "queued"
        BY <1>2, <1>6, <2>4, <3>3
      <4> QED BY <2>3, <4>1 DEF Active
    <3> QED BY <1>3, <3>1, <3>2, <3>3
  <2> QED BY <1>3, <2>1, <2>2, <2>3, <2>4 DEF Inv, RecordInv
<1>15. LedgerInv'
  <2>1. TrueFor(keys', ticket') /\ TrueFor(image.keys, ticket')
    BY <1>2, <1>3, <1>8, InsertKeepsTruth
  <2>2. \A s \in survivors : TrueFor(s.keys, ticket')
    BY <1>2, <1>3, InsertKeepsTruth
  <2>3. \A s \in survivors' : TrueFor(s.keys, ticket')
    BY <1>3, <2>1, <2>2
  <2> QED BY <2>1, <2>3 DEF LedgerInv, Truthful, TrueFor
<1>16. \A i \in JobIds : Live(i)' => Live(i) /\ i # j
  BY <1>2, <1>3, <1>4, <1>7 DEF Live, Active
<1>17. CoverInv'
  <2>1. ASSUME NEW i \in JobIds, Live(i), i # j
        PROVE  /\ Covers(keys, i)'
               /\ \A s \in survivors' : Covers(s.keys, i)'
    <3>1. Covers(ks, i)
      BY <1>2, <1>4, <2>1, PruneStep
    <3>2. Covers(image.keys, i)
      BY <1>2, <1>3, <1>8, <2>1, InsertKeepsTruth DEF Covers
    <3>3. \A s \in survivors : Covers(s.keys, i)
      BY <2>1 DEF Inv, CoverInv
    <3> QED BY <1>2, <1>3, <1>4, <2>1, <3>1, <3>2, <3>3 DEF Covers
  <2> QED BY <1>16, <2>1 DEF CoverInv
<1>18. SeparateInv'
  BY <1>3, <1>4, <1>16 DEF Inv, SeparateInv, Separate
<1>19. ClientInv'
  BY <1>3, AnsweredInPast
<1>20. SyncInv'
  BY <1>3 DEF SyncInv
<1>21. ToldInv'
  BY <1>1, <1>3, <1>4 DEF Inv, ToldInv, TypeOK
<1> QED BY <1>1, <1>9, <1>10, <1>11, <1>12, <1>13, <1>14, <1>15, <1>17, <1>18, <1>19, <1>20, <1>21 DEF Inv
-----------------------------------------------------------------------------
(* The steps of the workers, and stop *)

\* Taking the head of the queue leaves a queue of the other queued jobs.
LEMMA TakeQueue ==
    ASSUME Inv, NEW w \in Workers, CanTake(w), queue' = Tail(queue), worker' \in [Workers -> Thread],
           NEW s \in {"running", "outcome_unknown"},
           jobs'[Head(queue)].status = s,
           \A j \in JobIds : j # Head(queue) => jobs'[j] = jobs[j]
    PROVE  /\ Head(queue) \in JobIds
           /\ jobs[Head(queue)].status = "queued" /\ launches[Head(queue)] = 0
           /\ Head(queue) \notin disclaimed
           /\ QueueInv'
           /\ phase \in {"up", "stopping"}
           /\ \A v \in Workers : worker[v].job # Head(queue)
<1> DEFINE h == Head(queue)
<1>1. /\ queue \in Seq(JobIds) /\ Len(queue) \in Nat /\ Len(queue) >= 1
      /\ h = queue[1] /\ h \in JobIds
      /\ Len(queue') = Len(queue) - 1
      /\ \A i \in 1..Len(queue') : queue'[i] = queue[i + 1] /\ i + 1 \in 1..Len(queue)
      /\ \A i \in 1..Len(queue) : queue[i] \in JobIds
  BY DEF Inv, TypeOK, CanTake
<1>2. jobs[h].status = "queued"
  BY <1>1 DEF Inv, QueueInv
<1>3. launches[h] = 0 /\ h \notin disclaimed
  BY <1>1, <1>2 DEF Inv, RecordInv, DisclaimInv
<1>4. \A i \in 2..Len(queue) : queue[i] # h /\ jobs[queue[i]].status = "queued"
  BY <1>1 DEF Inv, QueueInv
<1>5. QueueInv'
  <2>1. \A i \in 1..Len(queue') : jobs'[queue'[i]].status = "queued"
    BY <1>1, <1>4
  <2>2. \A i1, i2 \in 1..Len(queue') : queue'[i1] = queue'[i2] => i1 = i2
    <3>1. \A i1, i2 \in 1..Len(queue) : queue[i1] = queue[i2] => i1 = i2
      BY DEF Inv, QueueInv
    <3> QED BY <1>1, <3>1
  <2>3. ASSUME NEW j \in JobIds, jobs'[j].status = "queued"
        PROVE  \E i \in 1..Len(queue') : queue'[i] = j
    <3>1. j # h /\ jobs[j].status = "queued"
      BY <2>3
    <3>2. PICK i \in 1..Len(queue) : queue[i] = j
      BY <3>1 DEF Inv, QueueInv
    <3>3. i # 1 /\ i - 1 \in 1..Len(queue')
      BY <1>1, <3>1, <3>2
    <3> QED BY <1>1, <3>2, <3>3
  <2> QED BY <2>1, <2>2, <2>3 DEF QueueInv
<1>6. phase \in {"up", "stopping"}
  BY SentinelFacts DEF CanTake, Inv, TypeOK, IdleInv
<1>7. \A v \in Workers : worker[v].job # h
  <2>1. ASSUME NEW v \in Workers, worker[v].job = h PROVE FALSE
    <3>1. CASE Busy(v)
      BY <1>2, <2>1, <3>1 DEF Inv, WorkerInv
    <3>2. CASE ~Busy(v)
      BY <1>1, <2>1, <3>2, SentinelFacts DEF Inv, WorkerInv
    <3> QED BY <3>1, <3>2
  <2> QED BY <2>1
<1> QED BY <1>1, <1>2, <1>3, <1>5, <1>6, <1>7

LEMMA TakeStep == ASSUME NEW w \in Workers PROVE Inv /\ Take(w) => Inv'
<1> SUFFICES ASSUME Inv, Take(w) PROVE Inv'
  OBVIOUS
<1> DEFINE h == Head(queue)
<1>1. TypeOK /\ TypeOK'
  BY TypeNext DEF Inv, Next, WorkerNext
<1>2. /\ CanTake(w) /\ queue' = Tail(queue) /\ worker[w].pc = "waiting"
      /\ now' = now /\ phase' = phase /\ available' = available /\ keys' = keys
      /\ client' = client /\ ticket' = ticket /\ launches' = launches
      /\ disclaimed' = disclaimed /\ told' = told
      /\ file' = Snapshot(jobs', keys) /\ survivors' = {file'}
  BY DEF Take, CanTake, PersistSucceeds, history
<1>3. h \in JobIds
  BY <1>1, <1>2 DEF CanTake, TypeOK
<1>4. jobs'[h].status = "running" /\ \A j \in JobIds : j # h => jobs'[j] = jobs[j]
  BY <1>1, <1>3 DEF Take, TypeOK
<1>5. /\ jobs[h].status = "queued" /\ launches[h] = 0 /\ h \notin disclaimed
      /\ QueueInv' /\ phase \in {"up", "stopping"}
      /\ \A v \in Workers : worker[v].job # h
  BY <1>1, <1>2, <1>4, TakeQueue DEF TypeOK
<1>6. /\ worker'[w].pc = "taken" /\ worker'[w].job = h
      /\ \A v \in Workers : v # w => worker'[v] = worker[v]
  BY <1>1, <1>2 DEF Take, TypeOK
<1>7. file'.jobs = jobs' /\ file'.keys = keys
  BY <1>2, SnapshotFields
<1>8. \A j \in JobIds : jobs'[j].status \in Active <=> jobs[j].status \in Active
  BY <1>4, <1>5 DEF Active
<1>9. IdleInv'
  BY <1>2, <1>5 DEF IdleInv
<1>10. WorkerInv'
  <2>1. ASSUME NEW v \in Workers, Busy(v)'
        PROVE  /\ worker'[v].job \in JobIds
               /\ jobs'[worker'[v].job].status = "running"
               /\ launches'[worker'[v].job] = IF worker'[v].pc = "taken" THEN 0 ELSE 1
    <3>1. CASE v = w
      BY <1>2, <1>3, <1>4, <1>5, <1>6, <3>1
    <3>2. CASE v # w
      BY <1>2, <1>4, <1>5, <1>6, <2>1, <3>2 DEF Inv, WorkerInv, Busy
    <3> QED BY <3>1, <3>2
  <2>2. \A v \in Workers : ~Busy(v)' => worker'[v].job = NoJobId
    BY <1>6 DEF Inv, WorkerInv, Busy
  <2>3. \A v1, v2 \in Workers :
          worker'[v1].job = worker'[v2].job /\ worker'[v1].job # NoJobId => v1 = v2
    BY <1>5, <1>6 DEF Inv, WorkerInv
  <2>4. ASSUME NEW j \in JobIds, jobs'[j].status = "running"
        PROVE  \E v \in Workers : worker'[v].job = j
    <3>1. CASE j = h
      BY <1>6, <3>1
    <3>2. CASE j # h
      <4>1. PICK v \in Workers : worker[v].job = j
        BY <1>4, <2>4, <3>2 DEF Inv, WorkerInv
      <4>2. v # w
        BY <1>2, <1>3, <2>4, <4>1, SentinelFacts DEF Inv, WorkerInv, Busy
      <4> QED BY <1>6, <4>1, <4>2
    <3> QED BY <3>1, <3>2
  <2> QED BY <2>1, <2>2, <2>3, <2>4 DEF WorkerInv
<1>11. FreshInv' /\ DisclaimInv'
  <2>1. ticket[h] # NoTicket
    BY <1>3, <1>5 DEF Inv, FreshInv
  <2>2. FreshInv'
    BY <1>2, <1>4, <1>7, <2>1 DEF Inv, FreshInv
  <2>3. \A j \in disclaimed : j \in JobIds /\ j # h
    BY <1>1, <1>5 DEF TypeOK
  <2>4. DisclaimInv'
    BY <1>2, <1>4, <1>7, <2>3 DEF Inv, DisclaimInv
  <2> QED BY <2>2, <2>4
<1>12. RecordInv'
  BY <1>2, <1>4, <1>7 DEF Inv, RecordInv
<1>13. LedgerInv' /\ ClientInv' /\ ToldInv'
  BY <1>2, <1>7 DEF Inv, LedgerInv, Truthful, ClientInv, ToldInv
<1>14. \A j \in JobIds : Live(j)' <=> Live(j)
  BY <1>2, <1>8 DEF Live
<1>15. CoverInv' /\ SeparateInv'
  BY <1>2, <1>5, <1>7, <1>14 DEF Inv, CoverInv, Covers, SeparateInv, Separate
<1>16. SyncInv'
  BY <1>2, <1>7 DEF SyncInv
<1> QED BY <1>1, <1>5, <1>9, <1>10, <1>11, <1>12, <1>13, <1>15, <1>16 DEF Inv

\* The job that could not be put on record as running is closed unlaunched.
LEMMA TakeNotRecordedStep == ASSUME NEW w \in Workers PROVE Inv /\ TakeNotRecorded(w) => Inv'
<1> SUFFICES ASSUME Inv, TakeNotRecorded(w) PROVE Inv'
  OBVIOUS
<1> DEFINE h == Head(queue)
           midway == [jobs EXCEPT ![h] = [status |-> "running", completed |-> 0]]
           running == Snapshot(midway, keys)
           unknown == Snapshot(jobs', keys)
<1>1. TypeOK /\ TypeOK'
  BY TypeNext DEF Inv, Next, WorkerNext
<1>2. /\ CanTake(w) /\ queue' = Tail(queue)
      /\ now' = now /\ phase' = phase /\ available' = FALSE /\ keys' = keys
      /\ worker' = worker /\ client' = client /\ ticket' = ticket /\ launches' = launches
      /\ disclaimed' = disclaimed /\ told' = told
  BY DEF TakeNotRecorded, history
<1>3. h \in JobIds
  BY <1>1, <1>2 DEF CanTake, TypeOK
<1>4. jobs'[h].status = "outcome_unknown" /\ \A j \in JobIds : j # h => jobs'[j] = jobs[j]
  BY <1>1, <1>3 DEF TakeNotRecorded, Closed, TypeOK
<1>5. midway[h].status = "running" /\ \A j \in JobIds : j # h => midway[j] = jobs[j]
  BY <1>1, <1>3 DEF TypeOK
<1>6. /\ jobs[h].status = "queued" /\ launches[h] = 0 /\ h \notin disclaimed
      /\ QueueInv' /\ phase \in {"up", "stopping"}
      /\ \A v \in Workers : worker[v].job # h
  BY <1>1, <1>2, <1>4, TakeQueue DEF TypeOK
<1>7. \A s \in survivors' :
         \/ s \in survivors
         \/ /\ s.keys = keys
            /\ s.jobs[h].status \in {"running", "outcome_unknown"}
            /\ \A j \in JobIds : j # h => s.jobs[j] = jobs[j]
  <2>1. \A s \in survivors' : s \in survivors \/ s = running \/ s = unknown
    <3>1. CASE PersistFails(running)
      BY <3>1, WriteEffect
    <3>2. CASE PersistFails(unknown)
      BY <3>2, WriteEffect
    <3>3. CASE survivors' \in {survivors \cup {running, unknown}, {unknown}}
      BY <3>3
    <3> QED BY <3>1, <3>2, <3>3 DEF TakeNotRecorded
  <2>2. \A s \in survivors' : s \in survivors \/ (s.keys = keys /\ (s.jobs = midway \/ s.jobs = jobs'))
    <3>1. running.jobs = midway /\ running.keys = keys
      BY SnapshotFields
    <3>2. unknown.jobs = jobs' /\ unknown.keys = keys
      BY SnapshotFields
    <3> HIDE DEF midway, running, unknown
    <3> QED BY <2>1, <3>1, <3>2
  <2> HIDE DEF midway
  <2> QED BY <1>4, <1>5, <2>2
<1>8. \/ file' = file /\ survivors' = survivors
      \/ file'.jobs[h].status # "queued" /\ \A j \in JobIds : j # h => file'.jobs[j] = jobs[j]
  <2>1. (file' = file /\ survivors' = survivors) \/ file' = running \/ file' = unknown
    <3>1. CASE PersistFails(running)
      BY <3>1, WriteEffect
    <3>2. CASE PersistFails(unknown)
      BY <3>2, WriteEffect
    <3>3. CASE file' = unknown
      BY <3>3
    <3> QED BY <3>1, <3>2, <3>3 DEF TakeNotRecorded
  <2>2. (file' = file /\ survivors' = survivors) \/ file'.jobs = midway \/ file'.jobs = jobs'
    BY <2>1, SnapshotFields
  <2> HIDE DEF midway
  <2> QED BY <1>4, <1>5, <2>2
<1>9. IdleInv'
  BY <1>2, <1>6 DEF IdleInv
<1>10. WorkerInv'
  BY <1>2, <1>4, <1>6 DEF Inv, WorkerInv, Busy
<1>11. FreshInv' /\ DisclaimInv'
  <2>1. ticket[h] # NoTicket
    BY <1>3, <1>6 DEF Inv, FreshInv
  <2>2. FreshInv'
    BY <1>2, <1>4, <1>7, <2>1 DEF Inv, FreshInv
  <2>3. \A j \in disclaimed : j \in JobIds /\ j # h
    BY <1>1, <1>6 DEF TypeOK
  <2>4. DisclaimInv'
    BY <1>2, <1>4, <1>7, <2>3 DEF Inv, DisclaimInv
  <2> QED BY <2>2, <2>4
<1>12. RecordInv'
  <2>1. \A j \in JobIds : jobs'[j].status \in {"queued", "cancelled"} => launches'[j] = 0
    BY <1>2, <1>4 DEF Inv, RecordInv
  <2>2. \A j \in JobIds, s \in survivors' :
          s.jobs[j].status \in {"queued", "cancelled"} => launches'[j] = 0
    BY <1>2, <1>6, <1>7 DEF Inv, RecordInv
  <2>3. \A j \in JobIds, s \in survivors' :
          jobs'[j].status \in Active => s.jobs[j].status = jobs'[j].status
    BY <1>4, <1>7 DEF Inv, RecordInv, Active
  <2>4. ASSUME NEW j \in JobIds, NEW s \in survivors', file'.jobs[j].status = "queued"
        PROVE  s.jobs[j].status \in {"absent", "queued"}
    <3>1. CASE file' = file /\ survivors' = survivors
      BY <2>4, <3>1 DEF Inv, RecordInv
    <3>2. CASE file'.jobs[h].status # "queued" /\ \A i \in JobIds : i # h => file'.jobs[i] = jobs[i]
      <4>1. jobs'[j].status = "queued"
        BY <1>4, <2>4, <3>2
      <4> QED BY <2>3, <4>1 DEF Active
    <3> QED BY <1>8, <3>1, <3>2
  <2> QED BY <1>2, <2>1, <2>2, <2>3, <2>4 DEF Inv, RecordInv
<1>13. LedgerInv' /\ ClientInv' /\ ToldInv'
  BY <1>2, <1>7 DEF Inv, LedgerInv, Truthful, ClientInv, ToldInv
<1>14. \A j \in JobIds : Live(j)' => Live(j)
  BY <1>2, <1>4 DEF Live, Active
<1>15. CoverInv' /\ SeparateInv'
  BY <1>2, <1>6, <1>7, <1>14 DEF Inv, CoverInv, Covers, SeparateInv, Separate
<1>16. SyncInv'
  BY <1>2 DEF SyncInv
<1> QED BY <1>1, <1>6, <1>9, <1>10, <1>11, <1>12, <1>13, <1>15, <1>16 DEF Inv
-----------------------------------------------------------------------------
(* Finish and stop: jobs are closed, memory is pruned and written *)

\* What closing the active jobs C does; the jobs D were queued and are reported
\* cancelled.
LEMMA CloseStep ==
    ASSUME Inv, TypeOK',
           NEW C \in SUBSET JobIds, NEW D \in SUBSET C, NEW closed \in [JobIds -> Job],
           \A j \in JobIds : j \notin C => closed[j] = jobs[j],
           \A j \in C : /\ jobs[j].status \in Active /\ closed[j].status \in Terminal
                        /\ closed[j].status = "cancelled" => jobs[j].status = "queued",
           \A j \in D : jobs[j].status = "queued" /\ closed[j].status = "cancelled",
           jobs' \in Prunings(closed, now),
           keys' = UnexpiredKeys(keys, now),
           \/ PersistSucceeds(Snapshot(jobs', keys'))
           \/ PersistFails(Snapshot(jobs', keys')) /\ available' = FALSE,
           now' = now, client' = client, ticket' = ticket, launches' = launches, told' = told,
           disclaimed' = disclaimed \cup D,
           phase \in {"up", "stopping"}, phase' \in {"up", "stopping"}
    PROVE  /\ \A j \in C : jobs'[j].status \notin Active
           /\ \A j \in JobIds : j \notin C => /\ jobs'[j].status \in Active <=> jobs[j].status \in Active
                                              /\ jobs[j].status \in Active => jobs'[j] = jobs[j]
           /\ IdleInv' /\ FreshInv' /\ RecordInv' /\ DisclaimInv' /\ LedgerInv'
           /\ CoverInv' /\ SeparateInv' /\ ClientInv' /\ SyncInv' /\ ToldInv'
<1> DEFINE image == Snapshot(jobs', keys')
<1>1. TypeOK /\ now \in Nat /\ keys \in [Keys -> Record]
  BY DEF Inv, TypeOK
<1>2. \A j \in JobIds : jobs'[j] = closed[j] \/ (jobs'[j].status = "absent" /\ closed[j].status \in Terminal)
  BY <1>1, PruningKeepsOrForgets, SentinelFacts
<1>3. \A s \in survivors' : s \in survivors \/ s = image
  BY WriteEffect
<1>4. file' = image \/ (file' = file /\ survivors' = survivors)
  BY WriteEffect
<1>5. image.jobs = jobs' /\ image.keys = keys'
  BY SnapshotFields
<1> HIDE DEF image
<1>6. \A j \in C : jobs'[j].status \notin Active
  BY <1>2 DEF Active, Terminal
<1>7. \A j \in JobIds : j \notin C => /\ jobs'[j].status \in Active <=> jobs[j].status \in Active
                                      /\ jobs[j].status \in Active => jobs'[j] = jobs[j]
                                      /\ jobs'[j] = jobs[j] \/ jobs'[j].status = "absent"
  BY <1>2 DEF Active, Terminal
<1>8. \A j \in JobIds : jobs'[j].status \in Active => jobs'[j] = jobs[j]
  BY <1>6, <1>7
<1>9. IdleInv'
  BY DEF IdleInv
<1>10. FreshInv'
  <2>1. ASSUME NEW j \in JobIds, ticket[j] = NoTicket
        PROVE  j \notin C /\ jobs'[j].status = "absent" /\ j \notin disclaimed'
    <3>1. jobs[j].status = "absent" /\ j \notin disclaimed
      BY <2>1 DEF Inv, FreshInv
    <3>2. j \notin C
      BY <3>1 DEF Active
    <3> QED BY <1>7, <3>1, <3>2
  <2> QED BY <1>3, <1>5, <2>1 DEF Inv, FreshInv
<1>11. \A j \in JobIds : jobs'[j].status \in {"queued", "cancelled"} => launches[j] = 0
  <2>1. ASSUME NEW j \in JobIds, jobs'[j].status \in {"queued", "cancelled"} PROVE launches[j] = 0
    <3>1. CASE j \in C
      <4>1. jobs[j].status = "queued"
        BY <1>2, <1>6, <2>1, <3>1 DEF Active
      <4> QED BY <4>1 DEF Inv, RecordInv
    <3>2. CASE j \notin C
      BY <1>7, <2>1, <3>2 DEF Inv, RecordInv
    <3> QED BY <3>1, <3>2
  <2> QED BY <2>1
<1>12. RecordInv'
  <2>1. \A j \in JobIds, s \in survivors' : s.jobs[j].status \in {"queued", "cancelled"} => launches'[j] = 0
    BY <1>3, <1>5, <1>11 DEF Inv, RecordInv
  <2>2. \A j \in JobIds, s \in survivors' : jobs'[j].status \in Active => s.jobs[j].status = jobs'[j].status
    BY <1>3, <1>5, <1>8 DEF Inv, RecordInv
  <2>3. ASSUME NEW j \in JobIds, NEW s \in survivors', file'.jobs[j].status = "queued"
        PROVE  s.jobs[j].status \in {"absent", "queued"}
    <3>1. CASE file' = image
      BY <1>5, <2>2, <2>3, <3>1 DEF Active
    <3>2. CASE file' = file /\ survivors' = survivors
      BY <2>3, <3>2 DEF Inv, RecordInv
    <3> QED BY <1>4, <3>1, <3>2
  <2> QED BY <1>11, <2>1, <2>2, <2>3 DEF Inv, RecordInv
<1>13. DisclaimInv'
  <2>1. ASSUME NEW j \in disclaimed
        PROVE  /\ jobs'[j].status \in {"absent", "cancelled"} /\ launches[j] = 0
               /\ \A s \in survivors : s.jobs[j].status \in {"absent", "queued", "cancelled"}
    <3>1. /\ j \in JobIds /\ jobs[j].status \in {"absent", "cancelled"} /\ launches[j] = 0
          /\ \A s \in survivors : s.jobs[j].status \in {"absent", "queued", "cancelled"}
      BY <1>1 DEF Inv, DisclaimInv, TypeOK
    <3>2. j \notin C
      BY <3>1 DEF Active
    <3> QED BY <1>7, <3>1, <3>2
  <2>2. ASSUME NEW j \in D
        PROVE  /\ jobs'[j].status \in {"absent", "cancelled"} /\ launches[j] = 0
               /\ \A s \in survivors : s.jobs[j].status \in {"absent", "queued", "cancelled"}
    <3>1. j \in JobIds /\ jobs[j].status = "queued"
      OBVIOUS
    <3>2. launches[j] = 0 /\ \A s \in survivors : s.jobs[j].status = "queued"
      BY <3>1 DEF Inv, RecordInv, Active
    <3>3. jobs'[j].status \in {"absent", "cancelled"}
      BY <1>2, <3>1
    <3> QED BY <3>2, <3>3
  <2> QED BY <1>3, <1>5, <2>1, <2>2 DEF DisclaimInv
<1>14. Truthful(keys')
  BY <1>1, ExpiryKeepsTruth DEF Inv, LedgerInv
<1>15. LedgerInv'
  BY <1>3, <1>5, <1>14 DEF Inv, LedgerInv, Truthful
<1>16. \A j \in JobIds : Live(j)' => Live(j)
  BY <1>8 DEF Live
<1>17. CoverInv'
  <2>1. ASSUME NEW j \in JobIds, Live(j) PROVE Covers(keys', j)
    <3>1. Covers(keys, j) /\ Truthful(keys)
      BY <2>1 DEF Inv, CoverInv, LedgerInv
    <3> QED BY <1>1, <3>1, ExpiryKeepsCover
  <2> QED BY <1>3, <1>5, <1>16, <2>1 DEF Inv, CoverInv, Covers
<1>18. SeparateInv'
  BY <1>16 DEF Inv, SeparateInv, Separate
<1>19. ClientInv' /\ ToldInv'
  BY DEF Inv, ClientInv, ToldInv
<1>20. SyncInv'
  BY <1>5 DEF SyncInv, PersistSucceeds, image
<1> QED BY <1>6, <1>7, <1>9, <1>10, <1>12, <1>13, <1>15, <1>17, <1>18, <1>19, <1>20

LEMMA FinishStep == ASSUME NEW w \in Workers PROVE Inv /\ Finish(w) => Inv'
<1> SUFFICES ASSUME Inv, Finish(w) PROVE Inv'
  OBVIOUS
<1> DEFINE h == worker[w].job
<1>1. TypeOK /\ TypeOK' /\ jobs \in [JobIds -> Job] /\ now \in Nat
  BY TypeNext DEF Inv, Next, WorkerNext, TypeOK
<1>2. /\ Busy(w) /\ h \in JobIds /\ jobs[h].status = "running"
      /\ \A v \in Workers : v # w => worker[v].job # h
  BY SentinelFacts DEF Finish, Busy, Inv, WorkerInv
<1>3. PICK s \in Outcome(worker[w].pc) : jobs' \in Prunings([jobs EXCEPT ![h] = Closed(s, now)], now)
  BY DEF Finish
<1> DEFINE closed == [jobs EXCEPT ![h] = Closed(s, now)]
<1>4. s \in {"succeeded", "failed"} /\ Closed(s, now) \in Job /\ Closed(s, now).status = s
  BY <1>1, ClosedTyped DEF Outcome, Terminal, Closed
<1>5. /\ closed \in [JobIds -> Job] /\ closed[h].status = s
      /\ \A j \in JobIds : j # h => closed[j] = jobs[j]
  BY <1>1, <1>2, <1>4
<1>6. phase \in {"up", "stopping"}
  BY <1>1, <1>2, SentinelFacts DEF Inv, TypeOK, IdleInv, Busy
<1>7. /\ now' = now /\ phase' = phase /\ queue' = queue /\ client' = client
      /\ ticket' = ticket /\ launches' = launches /\ told' = told /\ disclaimed' = disclaimed \cup {}
      /\ keys' = UnexpiredKeys(keys, now)
      /\ \/ PersistSucceeds(Snapshot(jobs', keys'))
         \/ PersistFails(Snapshot(jobs', keys')) /\ available' = FALSE
      /\ worker'[w] = Waiting /\ \A v \in Workers : v # w => worker'[v] = worker[v]
  BY <1>1 DEF Finish, history, TypeOK
<1>8. /\ \A j \in {h} : jobs'[j].status \notin Active
      /\ \A j \in JobIds : j \notin {h} => /\ jobs'[j].status \in Active <=> jobs[j].status \in Active
                                           /\ jobs[j].status \in Active => jobs'[j] = jobs[j]
      /\ IdleInv' /\ FreshInv' /\ RecordInv' /\ DisclaimInv' /\ LedgerInv'
      /\ CoverInv' /\ SeparateInv' /\ ClientInv' /\ SyncInv' /\ ToldInv'
  <2>1. {h} \in SUBSET JobIds /\ {} \in SUBSET {h}
    BY <1>2
  <2>2. \A j \in JobIds : j \notin {h} => closed[j] = jobs[j]
    BY <1>5
  <2>3. \A j \in {h} : /\ jobs[j].status \in Active /\ closed[j].status \in Terminal
                       /\ closed[j].status = "cancelled" => jobs[j].status = "queued"
    BY <1>2, <1>4, <1>5 DEF Active, Terminal
  <2>4. phase' \in {"up", "stopping"}
    BY <1>6, <1>7
  <2>5. closed \in [JobIds -> Job] /\ jobs' \in Prunings(closed, now)
    BY <1>3, <1>5
  <2> HIDE DEF closed, h
  <2> QED BY <1>1, <1>6, <1>7, <2>1, <2>2, <2>3, <2>4, <2>5, CloseStep
<1>9. \A j \in JobIds : j # h => /\ jobs'[j].status = "queued" <=> jobs[j].status = "queued"
                                 /\ jobs'[j].status = "running" <=> jobs[j].status = "running"
  BY <1>8 DEF Active
<1>10. jobs'[h].status \notin {"queued", "running"}
  BY <1>8 DEF Active
<1>11. QueueInv'
  <2>1. queue \in Seq(JobIds) /\ \A i \in 1..Len(queue) : queue[i] \in JobIds
    BY <1>1 DEF TypeOK
  <2> QED BY <1>2, <1>7, <1>9, <1>10, <2>1 DEF Inv, QueueInv
<1>12. WorkerInv'
  <2>1. ASSUME NEW v \in Workers, Busy(v)'
        PROVE  /\ worker'[v].job \in JobIds
               /\ jobs'[worker'[v].job].status = "running"
               /\ launches'[worker'[v].job] = IF worker'[v].pc = "taken" THEN 0 ELSE 1
    <3>1. v # w
      BY <1>7, <2>1, SentinelFacts DEF Busy
    <3> QED BY <1>2, <1>7, <1>9, <2>1, <3>1 DEF Inv, WorkerInv, Busy
  <2>2. \A v \in Workers : ~Busy(v)' => worker'[v].job = NoJobId
    BY <1>7, SentinelFacts DEF Inv, WorkerInv, Busy
  <2>3. \A v1, v2 \in Workers :
          worker'[v1].job = worker'[v2].job /\ worker'[v1].job # NoJobId => v1 = v2
    BY <1>7, SentinelFacts DEF Inv, WorkerInv
  <2>4. ASSUME NEW j \in JobIds, jobs'[j].status = "running"
        PROVE  \E v \in Workers : worker'[v].job = j
    <3>1. j # h /\ jobs[j].status = "running"
      BY <1>9, <1>10, <2>4
    <3>2. PICK v \in Workers : worker[v].job = j
      BY <3>1 DEF Inv, WorkerInv
    <3> QED BY <1>7, <3>1, <3>2
  <2> QED BY <2>1, <2>2, <2>3, <2>4 DEF WorkerInv
<1> QED BY <1>1, <1>8, <1>11, <1>12 DEF Inv

LEMMA StopStep == Inv /\ Stop => Inv'
<1> SUFFICES ASSUME Inv, Stop PROVE Inv'
  OBVIOUS
<1> DEFINE closed == [j \in JobIds |-> IF j \in InQueue THEN Closed("cancelled", now) ELSE jobs[j]]
<1>1. TypeOK /\ TypeOK' /\ jobs \in [JobIds -> Job] /\ now \in Nat
  BY TypeNext DEF Inv, Next, ProcessNext, TypeOK
<1>2. /\ phase = "up" /\ phase' = "stopping" /\ now' = now /\ queue' = <<>> /\ worker' = worker
      /\ client' = client /\ ticket' = ticket /\ launches' = launches /\ told' = told
      /\ disclaimed' = disclaimed \cup InQueue
      /\ keys' = UnexpiredKeys(keys, now)
      /\ \/ PersistSucceeds(Snapshot(jobs', keys'))
         \/ PersistFails(Snapshot(jobs', keys')) /\ available' = FALSE
      /\ jobs' \in Prunings(closed, now)
  BY DEF Stop
<1>3. InQueue \in SUBSET JobIds
  BY <1>1 DEF InQueue, TypeOK
<1>4. \A j \in JobIds : j \in InQueue <=> jobs[j].status = "queued"
  BY DEF Inv, QueueInv, InQueue
<1>5. Closed("cancelled", now) \in Job /\ Closed("cancelled", now).status = "cancelled"
  BY <1>1, ClosedTyped DEF Terminal, Closed
<1>6. closed \in [JobIds -> Job]
  BY <1>1, <1>5
<1>7. \A j \in JobIds : closed[j] = IF j \in InQueue THEN Closed("cancelled", now) ELSE jobs[j]
  OBVIOUS
<1> HIDE DEF closed
<1>8. /\ \A j \in InQueue : jobs'[j].status \notin Active
      /\ \A j \in JobIds : j \notin InQueue => /\ jobs'[j].status \in Active <=> jobs[j].status \in Active
                                               /\ jobs[j].status \in Active => jobs'[j] = jobs[j]
      /\ IdleInv' /\ FreshInv' /\ RecordInv' /\ DisclaimInv' /\ LedgerInv'
      /\ CoverInv' /\ SeparateInv' /\ ClientInv' /\ SyncInv' /\ ToldInv'
  <2>1. \A j \in JobIds : j \notin InQueue => closed[j] = jobs[j]
    BY <1>7
  <2>2. \A j \in InQueue : /\ jobs[j].status \in Active /\ closed[j].status \in Terminal
                           /\ closed[j].status = "cancelled" => jobs[j].status = "queued"
    BY <1>3, <1>4, <1>5, <1>7 DEF Active, Terminal
  <2>3. \A j \in InQueue : jobs[j].status = "queued" /\ closed[j].status = "cancelled"
    BY <1>3, <1>4, <1>5, <1>7
  <2>4. InQueue \in SUBSET InQueue /\ phase \in {"up", "stopping"} /\ phase' \in {"up", "stopping"}
    BY <1>2
  <2> QED BY <1>1, <1>2, <1>3, <1>6, <2>1, <2>2, <2>3, <2>4, CloseStep
<1>9. \A j \in JobIds : /\ jobs'[j].status # "queued"
                        /\ jobs'[j].status = "running" <=> jobs[j].status = "running"
  BY <1>4, <1>8 DEF Active
<1>10. QueueInv'
  BY <1>2, <1>9 DEF QueueInv
<1>11. WorkerInv'
  BY <1>2, <1>9 DEF Inv, WorkerInv, Busy
<1> QED BY <1>1, <1>8, <1>10, <1>11 DEF Inv
-----------------------------------------------------------------------------
(* The invariance theorem and what follows from it *)

LEMMA InvNext == Inv /\ [Next]_vars => Inv'
<1> SUFFICES ASSUME Inv, [Next]_vars PROVE Inv'
  OBVIOUS
<1>1. ASSUME NEW c \in Clients, ClientNext(c) PROVE Inv'
  BY <1>1, PrepareStep, SubmitUnavailableStep, SubmitRepeatedStep, SubmitDeclinedStep,
     SubmitAcceptedStep, SubmitNotRecordedStep DEF ClientNext
<1>2. ASSUME NEW w \in Workers, WorkerNext(w) PROVE Inv'
  BY <1>2, TakeStep, TakeNotRecordedStep, LaunchStep, FinishStep, WorkerExitStep DEF WorkerNext
<1>3. CASE ProcessNext
  BY <1>3, LoadStep, LoadFailsStep, StartStep, StartFailsStep, StopStep, DeathStep DEF ProcessNext
<1>4. CASE Tick
  BY <1>4, TickStep
<1>5. CASE UNCHANGED vars
  BY <1>5, StutterStep
<1> QED BY <1>1, <1>2, <1>3, <1>4, <1>5 DEF Next

\* The agreement of memory, disk and history holds in every reachable state of
\* the job manager, over any number of crashes and failed writes.
THEOREM Invariance == Spec => []Inv
<1>1. Init => Inv
  BY InvInit
<1>2. Inv /\ [Next]_vars => Inv'
  BY InvNext
<1> QED BY <1>1, <1>2, PTL DEF Spec

\* workerLoop starts the command of a job at most once, over all restarts; a
\* job that was disclaimed by submit, stop or loadState is never started.
THEOREM AtMostOnce == Spec => [](LaunchedAtMostOnce /\ DisclaimedNeverLaunched)
<1>1. Inv => LaunchedAtMostOnce
  BY DEF Inv, RecordInv, LaunchedAtMostOnce
<1>2. Inv => DisclaimedNeverLaunched
  BY DEF Inv, DisclaimInv, DisclaimedNeverLaunched
<1> QED BY <1>1, <1>2, Invariance, PTL

\* Two launched jobs of one idempotency key were admitted a retention period
\* apart: pruneLocked and persistLocked together never forget a key too early.
THEOREM KeyLaunchedOnce == Spec => []OneLaunchPerKey
<1>1. Inv => OneLaunchPerKey
  BY DEF Inv, SeparateInv, Separate, Live, OneLaunchPerKey
<1> QED BY <1>1, Invariance, PTL

\* Whatever image loadState finds after a crash, a launched job is not queued
\* or cancelled in it.
THEOREM LaunchRecorded == Spec => []LaunchIsOnRecord
<1>1. Inv => LaunchIsOnRecord
  <2> SUFFICES ASSUME Inv, NEW j \in JobIds, NEW image \in survivors, launches[j] > 0
               PROVE  image.jobs[j].status \notin {"queued", "cancelled"}
    BY DEF LaunchIsOnRecord
  <2>1. launches[j] # 0
    BY DEF Inv, TypeOK
  <2> QED BY <2>1 DEF Inv, RecordInv
<1> QED BY <1>1, Invariance, PTL

\* Whatever image loadState finds after a crash, the ledger still names a
\* launched job while its key is retained.
THEOREM LaunchOutlivesCrash == Spec => []LedgerCoversLaunches
<1>1. Inv => LedgerCoversLaunches
  <2> SUFFICES ASSUME Inv, NEW j \in JobIds, NEW image \in survivors,
                      launches[j] > 0, ticket[j].key # NoKey,
                      now < ticket[j].created + IdempotencyRetention
               PROVE  image.keys[ticket[j].key].job = j
    BY DEF LedgerCoversLaunches
  <2>1. Covers(image.keys, j)
    BY DEF Inv, CoverInv, Live
  <2>2. now \in Nat /\ ticket[j].created + IdempotencyRetention \in Nat
    BY ConstantsAssumption DEF Inv, TypeOK, Ticket
  <2> QED BY <2>1, <2>2 DEF Covers
<1> QED BY <1>1, Invariance, PTL

\* The queue holds exactly the queued jobs and every running job belongs to one
\* worker, whichever of submit, workerLoop and stop ran last.
THEOREM NoneStranded == Spec => []NoStrandedJob
<1>1. Inv => NoStrandedJob
  <2> SUFFICES ASSUME Inv PROVE NoStrandedJob
    OBVIOUS
  <2>1. \A j \in JobIds : jobs[j].status = "queued" <=> j \in InQueue
    BY DEF Inv, QueueInv, InQueue
  <2>2. ASSUME NEW j \in JobIds, NEW w \in Workers, worker[w].job = j
        PROVE  jobs[j].status = "running"
    BY <2>2, SentinelFacts DEF Inv, WorkerInv
  <2> QED BY <2>1, <2>2 DEF Inv, QueueInv, WorkerInv, NoStrandedJob
<1> QED BY <1>1, Invariance, PTL

\* submit answers with a job only for the request that job was made for, also
\* from a ledger read back after a restart.
THEOREM AnswersAgree == Spec => []AnswersMatchRequest
<1>1. Inv => AnswersMatchRequest
  BY DEF Inv, ToldInv, AnswersMatchRequest
<1> QED BY <1>1, Invariance, PTL

\* While available_ is set and the manager runs, every image a crash may leave
\* shows the jobs that memory shows.
THEOREM AvailableMeansDurable == Spec => []AvailableIsDurable
<1>1. Inv => AvailableIsDurable
  BY DEF Inv, SyncInv, AvailableIsDurable
<1> QED BY <1>1, Invariance, PTL
-----------------------------------------------------------------------------
(* The action property *)

\* One step of one live process: what a thread, stop or the clock does to the
\* jobs that are finished or gone.
LEMMA OutcomeStep ==
    ASSUME Inv, Next, phase # "down", phase' # "down", NEW j \in JobIds
    PROVE  /\ jobs[j].status \in Terminal => jobs'[j] \in {jobs[j], NoJob}
           /\ ticket[j] # NoTicket /\ jobs[j].status = "absent" => jobs'[j].status = "absent"
<1> DEFINE Goal == /\ jobs[j].status \in Terminal => jobs'[j] \in {jobs[j], NoJob}
                   /\ ticket[j] # NoTicket /\ jobs[j].status = "absent" => jobs'[j].status = "absent"
<1>1. TypeOK /\ jobs \in [JobIds -> Job] /\ now \in Nat
  BY DEF Inv, TypeOK
<1>2. ASSUME NEW js \in [JobIds -> Job], NEW t \in Nat, jobs' \in Prunings(js, t), js[j] = jobs[j]
      PROVE  Goal
  BY <1>2, PruningKeepsOrForgets, SentinelFacts DEF Terminal
<1>3. ASSUME NEW js \in [JobIds -> Job], NEW t \in Nat, jobs' \in Prunings(js, t),
             jobs[j].status \in Active
      PROVE  Goal
  BY <1>3 DEF Active, Terminal
<1>4. ASSUME jobs' = jobs PROVE Goal
  BY <1>4
<1>5. ASSUME NEW c \in Clients, ClientNext(c) PROVE Goal
  <2>1. client[c].created \in Nat
    BY <1>1 DEF TypeOK, Request
  <2>2. CASE Prepare(c) \/ SubmitUnavailable(c)
    BY <1>4, <2>2 DEF Prepare, SubmitUnavailable, memory
  <2>3. CASE SubmitRepeated(c) \/ SubmitDeclined(c)
    BY <1>1, <1>2, <2>1, <2>3 DEF SubmitRepeated, SubmitDeclined, SubmitPruned
  <2>4. CASE SubmitNotRecorded(c)
    BY <1>1, <1>2, <2>1, <2>4 DEF SubmitNotRecorded
  <2>5. CASE SubmitAccepted(c)
    <3>1. PICK i \in JobIds, js \in Prunings(jobs, client[c].created) :
            ticket[i] = NoTicket /\ jobs' = WithJob(js, i)
      BY <2>5 DEF SubmitAccepted, Issue
    <3>2. /\ js \in [JobIds -> Job]
          /\ js[j] = jobs[j] \/ (js[j] = NoJob /\ jobs[j].status \in Terminal)
      BY <1>1, <2>1, <3>1, PruningKeepsOrForgets
    <3>3. CASE i = j
      BY <3>1, <3>3 DEF Inv, FreshInv, Terminal
    <3>4. CASE i # j
      <4>1. jobs'[j] = js[j]
        BY <3>1, <3>2, <3>4 DEF WithJob
      <4> QED BY <3>2, <4>1, SentinelFacts DEF Terminal
    <3> QED BY <3>3, <3>4
  <2> QED BY <1>5, <2>2, <2>3, <2>4, <2>5 DEF ClientNext
<1>6. ASSUME NEW w \in Workers, WorkerNext(w) PROVE Goal
  <2>1. CASE Take(w) \/ TakeNotRecorded(w)
    <3>1. /\ queue \in Seq(JobIds) /\ queue # <<>>
          /\ Head(queue) \in JobIds /\ Head(queue) = queue[1] /\ 1 \in 1..Len(queue)
      BY <1>1, <2>1 DEF Take, TakeNotRecorded, CanTake, TypeOK
    <3>2. jobs[Head(queue)].status = "queued"
      BY <3>1 DEF Inv, QueueInv
    <3>3. j # Head(queue) => jobs'[j] = jobs[j]
      BY <1>1, <2>1, <3>1 DEF Take, TakeNotRecorded
    <3> QED BY <3>2, <3>3 DEF Terminal
  <2>2. CASE Launch(w) \/ WorkerExit(w)
    BY <1>4, <2>2 DEF Launch, WorkerExit, memory
  <2>3. CASE Finish(w)
    <3> DEFINE h == worker[w].job
    <3>1. h \in JobIds /\ jobs[h].status = "running"
      BY <2>3 DEF Finish, Inv, WorkerInv, Busy
    <3>2. PICK s \in Outcome(worker[w].pc) : jobs' \in Prunings([jobs EXCEPT ![h] = Closed(s, now)], now)
      BY <2>3 DEF Finish
    <3>3. Closed(s, now) \in Job
      BY <1>1, <3>2, ClosedTyped DEF Outcome, Terminal
    <3>4. [jobs EXCEPT ![h] = Closed(s, now)] \in [JobIds -> Job]
      BY <1>1, <3>1, <3>3
    <3>5. CASE j = h
      BY <1>1, <1>3, <3>1, <3>2, <3>4, <3>5 DEF Active
    <3>6. CASE j # h
      BY <1>1, <1>2, <3>1, <3>2, <3>4, <3>6
    <3> QED BY <3>5, <3>6
  <2> QED BY <1>6, <2>1, <2>2, <2>3 DEF WorkerNext
<1>7. ASSUME ProcessNext PROVE Goal
  <2>1. CASE LoadFails \/ Start \/ StartFails
    BY <1>4, <2>1 DEF LoadFails, Start, StartFails, memory
  <2>2. CASE Load \/ Exit \/ Kill \/ PowerLoss
    BY <2>2 DEF Load, Exit, Kill, PowerLoss, MemoryLost
  <2>3. CASE Stop
    <3> DEFINE closed == [i \in JobIds |-> IF i \in InQueue THEN Closed("cancelled", now) ELSE jobs[i]]
    <3>1. closed \in [JobIds -> Job]
      BY <1>1, ClosedTyped DEF Terminal
    <3>2. jobs' \in Prunings(closed, now)
      BY <2>3 DEF Stop
    <3>3. CASE j \in InQueue
      <4>1. jobs[j].status = "queued"
        BY <3>3 DEF Inv, QueueInv, InQueue
      <4> QED BY <1>1, <1>3, <3>1, <3>2, <4>1 DEF Active
    <3>4. CASE j \notin InQueue
      BY <1>1, <1>2, <3>1, <3>2, <3>4
    <3> QED BY <3>3, <3>4
  <2> QED BY <1>7, <2>1, <2>2, <2>3 DEF ProcessNext
<1>8. CASE Tick
  BY <1>4, <1>8 DEF Tick, memory
<1> QED BY <1>5, <1>6, <1>7, <1>8 DEF Next

\* A job that workerLoop, stop or loadState closed keeps its outcome until
\* pruneLocked forgets it, and a forgotten job never comes back.
THEOREM OutcomesAreFinal == Spec => OutcomeIsFinal
<1>1. Inv /\ [Next]_vars =>
        [phase # "down" /\ phase' # "down" =>
            \A j \in JobIds :
                /\ jobs[j].status \in Terminal => jobs'[j] \in {jobs[j], NoJob}
                /\ ticket[j] # NoTicket /\ jobs[j].status = "absent" => jobs'[j].status = "absent"]_vars
  BY OutcomeStep
<1> QED BY <1>1, Invariance, PTL DEF Spec, OutcomeIsFinal

-----------------------------------------------------------------------------
(* Refinement *)

\* Every step maps to a step of the abstract specification or to a stutter.
LEMMA PromiseStep == Inv /\ [Next]_vars => [Promise!Next]_(Promise!vars)
<1> SUFFICES ASSUME Inv, Next PROVE Promise!Next \/ UNCHANGED Promise!vars
  BY DEF vars, history, Promise!vars
<1> USE DEF Promise!vars
<1>1. TypeOK /\ TypeOK'
  BY TypeNext DEF Inv
<1>2. ASSUME NEW c \in Clients, ClientNext(c) PROVE Promise!Next \/ UNCHANGED Promise!vars
  <2>1. ASSUME NEW j \in JobIds, Issue(j, client[c]), launches' = launches,
               disclaimed' \in {disclaimed, disclaimed \cup {j}}
        PROVE  Promise!Next
    <3>1. ticket[j] = NoTicket
      BY <2>1 DEF Issue
    <3>2. ticket'[j] \in Promise!Ticket
      BY <1>1 DEF TypeOK, Ticket, Promise!Ticket
    <3>3. ticket' = [ticket EXCEPT ![j] = ticket'[j]]
      BY <1>1, <2>1 DEF Issue, TypeOK
    <3> QED BY <2>1, <3>1, <3>2, <3>3 DEF Promise!Next, Promise!Issue
  <2>2. CASE Prepare(c) \/ SubmitUnavailable(c)
    BY <2>2 DEF Prepare, SubmitUnavailable, history
  <2>3. CASE SubmitRepeated(c) \/ SubmitDeclined(c)
    BY <2>3 DEF SubmitRepeated, SubmitDeclined, SubmitPruned
  <2>4. CASE SubmitAccepted(c)
    BY <2>1, <2>4 DEF SubmitAccepted
  <2>5. CASE SubmitNotRecorded(c)
    BY <2>1, <2>5 DEF SubmitNotRecorded
  <2> QED BY <1>2, <2>2, <2>3, <2>4, <2>5 DEF ClientNext
<1>3. ASSUME NEW w \in Workers, WorkerNext(w) PROVE Promise!Next \/ UNCHANGED Promise!vars
  <2>1. CASE Take(w) \/ TakeNotRecorded(w) \/ Finish(w) \/ WorkerExit(w)
    BY <2>1 DEF Take, TakeNotRecorded, Finish, WorkerExit, history
  <2>2. CASE Launch(w)
    <3> DEFINE j == worker[w].job
    <3>1. j \in JobIds /\ jobs[j].status = "running" /\ launches[j] = 0
      BY <2>2 DEF Launch, Inv, WorkerInv, Busy
    <3>2. ticket[j] # NoTicket /\ j \notin disclaimed
      BY <3>1 DEF Inv, FreshInv, DisclaimInv
    <3>3. ASSUME NEW i \in JobIds, i # j, launches[i] > 0,
                 ticket[i].key = ticket[j].key, ticket[j].key # NoKey
          PROVE  Promise!Apart(ticket[i], ticket[j])
      <4>1. Live(i) /\ Live(j)
        BY <3>1, <3>3 DEF Live, Active
      <4> QED BY <3>1, <3>3, <4>1 DEF Inv, SeparateInv, Separate, Promise!Apart
    <3>4. launches' = [launches EXCEPT ![j] = 1]
      BY <1>1, <2>2, <3>1 DEF Launch, TypeOK
    <3>5. UNCHANGED <<ticket, disclaimed>>
      BY <2>2 DEF Launch
    <3> QED BY <3>1, <3>2, <3>3, <3>4, <3>5 DEF Promise!Next, Promise!Launch
  <2> QED BY <1>3, <2>1, <2>2 DEF WorkerNext
<1>4. ASSUME ProcessNext PROVE Promise!Next \/ UNCHANGED Promise!vars
  <2>1. CASE LoadFails \/ Start \/ StartFails \/ Exit \/ Kill \/ PowerLoss
    BY <2>1 DEF LoadFails, Start, StartFails, Exit, Kill, PowerLoss, history
  <2>2. CASE Load
    <3> DEFINE J == {i \in JobIds : file.jobs[i].status = "queued"}
    <3>1. file \in survivors
      BY <1>1 DEF TypeOK
    <3>2. \A i \in J : launches[i] = 0
      BY <3>1 DEF Inv, RecordInv
    <3>3. J \in SUBSET JobIds /\ disclaimed' = disclaimed \cup J /\ UNCHANGED <<ticket, launches>>
      BY <2>2 DEF Load
    <3> HIDE DEF J
    <3> QED BY <3>2, <3>3 DEF Promise!Next, Promise!Disclaim
  <2>3. CASE Stop
    <3>1. InQueue \in SUBSET JobIds
      BY <1>1 DEF InQueue, TypeOK
    <3>2. \A i \in InQueue : launches[i] = 0
      BY <3>1 DEF InQueue, Inv, QueueInv, RecordInv
    <3>3. disclaimed' = disclaimed \cup InQueue /\ UNCHANGED <<ticket, launches>>
      BY <2>3 DEF Stop
    <3> QED BY <3>1, <3>2, <3>3 DEF Promise!Next, Promise!Disclaim
  <2> QED BY <1>4, <2>1, <2>2, <2>3 DEF ProcessNext
<1>5. CASE Tick
  BY <1>5 DEF Tick, history
<1> QED BY <1>2, <1>3, <1>4, <1>5 DEF Next

\* The job manager implements AtMostOnceLaunch: over crashes, failed writes and
\* pruning, it launches no command the abstract promise does not allow.
THEOREM ManagerKeepsPromise == Spec => KeepsPromise
<1>1. Init => Promise!Init
  BY DEF Init, Promise!Init
<1>2. Inv /\ [Next]_vars => [Promise!Next]_(Promise!vars)
  BY PromiseStep
<1> QED BY <1>1, <1>2, Invariance, PTL DEF Spec, KeepsPromise, Promise!Spec
=============================================================================
