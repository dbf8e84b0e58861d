---------------------- MODULE ControllerActionsProofs ----------------------
(***************************************************************************)
(* Proofs about ControllerActions, for every set of requests, devices,     *)
(* outages and servers and every bound.                                    *)
(***************************************************************************)
EXTENDS ControllerActions, FiniteSetTheorems, TLAPS

(* The audit file *)

\* What is synced stays, whatever happens to an append or to the power.
SyncedStays ==
    /\ synced <= synced' /\ synced' <= Len(audit')
    /\ \A i \in 1..synced : audit'[i] = audit[i]

\* Every record is an old one, at its place, or r.
OldOr(r) ==
    \A i \in 1..Len(audit') :
        \/ i \in 1..Len(audit) /\ audit'[i] = audit[i]
        \/ audit'[i] = r

FileTyped ==
    /\ audit \in Seq(Record) /\ Len(audit) <= AuditLimit
    /\ synced \in 0..Len(audit)
    /\ torn \in BOOLEAN

\* An append adds its record and makes the whole file durable.
LEMMA AppendRecords ==
    ASSUME FileTyped, NEW r \in Record, AppendAuditRecord(r)
    PROVE  /\ FileTyped' /\ SyncedStays /\ OldOr(r)
           /\ synced' = Len(audit') /\ synced' > 0 /\ audit'[synced'] = r
BY ActionsAssumption DEF FileTyped, AppendAuditRecord, SyncedStays, OldOr

\* A failed append may add its record and makes nothing durable.
LEMMA AppendLeaves ==
    ASSUME FileTyped, NEW r \in Record, AppendFails(r)
    PROVE  FileTyped' /\ SyncedStays /\ OldOr(r) /\ synced' = synced
<1>1. CASE UNCHANGED audit /\ UNCHANGED synced
  <2>1. torn' \in BOOLEAN
    BY DEF FileTyped, AppendFails, file
  <2> QED BY <1>1, <2>1 DEF FileTyped, SyncedStays, OldOr
<1>2. CASE Len(audit) < AuditLimit /\ audit' = Append(audit, r) /\ UNCHANGED <<synced, torn>>
  <2>1. Len(audit') = Len(audit) + 1 /\ audit' \in Seq(Record)
    BY <1>2 DEF FileTyped
  <2>2. /\ \A i \in 1..Len(audit) : audit'[i] = audit[i]
        /\ audit'[Len(audit) + 1] = r
    BY <1>2 DEF FileTyped
  <2> QED BY <1>2, <2>1, <2>2, ActionsAssumption DEF FileTyped, SyncedStays, OldOr
<1> QED BY <1>1, <1>2 DEF AppendFails, file

LEMMA FileUnchanged ==
    ASSUME FileTyped, UNCHANGED file, NEW r
    PROVE  FileTyped' /\ SyncedStays /\ OldOr(r)
BY DEF FileTyped, SyncedStays, OldOr, file

\* A power loss cuts the file behind what is synced.
LEMMA PowerLossCuts ==
    ASSUME FileTyped, PowerLoss, NEW r
    PROVE  FileTyped' /\ SyncedStays /\ OldOr(r)
<1>1. PICK n \in synced..Len(audit) :
         /\ audit' = SubSeq(audit, 1, n)
         /\ synced' = n
         /\ torn' \in {FALSE, torn, n < Len(audit)}
  BY DEF PowerLoss
<1>2. n \in 0..Len(audit) /\ n \in Nat
  BY DEF FileTyped
<1>3. /\ audit' \in Seq(Record) /\ Len(audit') = n
      /\ \A i \in 1..n : audit'[i] = audit[i]
  BY <1>1, <1>2 DEF FileTyped
<1>4. torn' \in BOOLEAN
  <2>1. (n < Len(audit)) \in BOOLEAN
    OBVIOUS
  <2> QED BY <1>1, <2>1, Zenon DEF FileTyped
<1> QED BY <1>1, <1>2, <1>3, <1>4, ActionsAssumption DEF FileTyped, SyncedStays, OldOr

-----------------------------------------------------------------------------
(* Types *)

\* The types, with what a task and a completion must have filled in.
TypeInv ==
    /\ TypeOK
    /\ \A s \in Servers :
          /\ task[s].pc # "idle" => task[s].id \in RequestIds
          /\ task[s].pc = "executed" => task[s].outcome \in Outcomes
    /\ \A i \in 1..Len(audit) : audit[i].phase = "complete" => audit[i].outcome \in Outcomes

LEMMA DataTyped ==
    /\ NoIntent \in Intent
    /\ Idle \in Task
    /\ Requested \subseteq Intent
    /\ \A id \in RequestIds, x \in Intent, t \in Nat : IntentRecord(id, x, t) \in Record
    /\ \A r \in Record, o \in Outcomes : Completion(r, o) \in Record
<1>1. NoIntent \in Intent
  BY DEF NoIntent, Intent
<1>2. Idle \in Task
  BY <1>1 DEF Idle, Task
<1>3. Requested \subseteq Intent
  BY DEF Requested
<1>4. ASSUME NEW id \in RequestIds, NEW x \in Intent, NEW t \in Nat
      PROVE  IntentRecord(id, x, t) \in Record
  BY DEF IntentRecord, Record
<1>5. ASSUME NEW r \in Record, NEW o \in Outcomes
      PROVE  Completion(r, o) \in Record
  BY DEF Completion, Record
<1> QED BY <1>1, <1>2, <1>3, <1>4, <1>5

\* The part of the types that is about the servers.
TaskTyped ==
    /\ task \in [Servers -> Task]
    /\ \A s \in Servers :
          /\ task[s].pc # "idle" => task[s].id \in RequestIds
          /\ task[s].pc = "executed" => task[s].outcome \in Outcomes

\* A server that moves on leaves the others where they are.
LEMMA TaskStepTyped ==
    ASSUME TaskTyped, NEW s \in Servers, NEW t \in Task,
           t.pc # "idle" => t.id \in RequestIds,
           t.pc = "executed" => t.outcome \in Outcomes,
           task' = [task EXCEPT ![s] = t]
    PROVE  TaskTyped'
BY DEF TaskTyped

LEMMA TypeInit == Init => TypeInv
<1> SUFFICES ASSUME Init PROVE TypeInv
  OBVIOUS
<1>1. audit \in Seq(Record) /\ Len(audit) = 0 /\ commands \in Seq(Command)
  BY DEF Init
<1>2. task \in [Servers -> Task] /\ \A s \in Servers : task[s].pc = "idle"
  BY DataTyped DEF Init, Idle
<1>3. told \in [RequestIds -> SUBSET [intent : Intent, outcome : Outcomes]]
  BY DEF Init
<1>4. synced \in 0..Len(audit) /\ Len(audit) <= AuditLimit
  BY <1>1, ActionsAssumption DEF Init
<1>5. \A i \in 1..Len(audit) : audit[i].phase = "complete" => audit[i].outcome \in Outcomes
  BY <1>1
<1>6. /\ now \in Nat /\ torn \in BOOLEAN /\ holder \in Servers \cup {NoServer}
      /\ subscribed \in BOOLEAN
  BY DEF Init
<1>7. \A s \in Servers : task[s].pc # "executed"
  BY <1>2
<1> QED BY <1>1, <1>2, <1>3, <1>4, <1>5, <1>6, <1>7 DEF TypeInv, TypeOK

\* The task of every server is well formed after every step.
LEMMA TaskStep ==
    ASSUME TypeInv, [Next]_vars
    PROVE  TaskTyped'
<1>0. /\ TaskTyped /\ now \in Nat /\ subscribed \in BOOLEAN
      /\ Idle \in Task /\ Idle.pc = "idle" /\ Requested \subseteq Intent
  BY DataTyped DEF TypeInv, TypeOK, TaskTyped, Idle
<1>1. CASE UNCHANGED task
  BY <1>0, <1>1 DEF TaskTyped
<1>2. CASE PowerLoss
  BY <1>0, <1>2 DEF PowerLoss, TaskTyped
<1>3. ASSUME NEW s \in Servers, NEW id \in RequestIds, NEW x \in Requested,
             Admit(s, id, x) \/ Inspect(s, id, x)
      PROVE  TaskTyped'
  <2>1. CASE Admit(s, id, x)
    <3> DEFINE t == [Idle EXCEPT !.pc = "intended", !.id = id, !.intent = x, !.started = now]
    <3>1. t \in Task /\ t.pc = "intended" /\ t.id = id
      BY <1>0 DEF Idle, Task
    <3>2. task' = [task EXCEPT ![s] = t]
      BY <2>1 DEF Admit
    <3> HIDE DEF t
    <3> QED BY <1>0, <3>1, <3>2, TaskStepTyped
  <2>2. CASE Inspect(s, id, x)
    <3> DEFINE t == [Idle EXCEPT !.pc = "inspected", !.id = id, !.intent = x, !.existing = subscribed]
    <3>1. t \in Task /\ t.pc = "inspected" /\ t.id = id
      BY <1>0 DEF Idle, Task
    <3>2. task' = [task EXCEPT ![s] = t]
      BY <2>2 DEF Inspect
    <3> HIDE DEF t
    <3> QED BY <1>0, <3>1, <3>2, TaskStepTyped
  <2> QED BY <1>3, <2>1, <2>2
<1>4. ASSUME NEW s \in Servers, task' = [task EXCEPT ![s] = Idle]
      PROVE  TaskTyped'
  BY <1>0, <1>4, TaskStepTyped
<1>5. ASSUME NEW s \in Servers, task[s].pc # "idle",
             \/ task' = [task EXCEPT ![s].pc = "intended"]
             \/ \E outcome \in Outcomes :
                   task' = [task EXCEPT ![s].pc = "executed", ![s].outcome = outcome]
      PROVE  TaskTyped'
  <2>1. task[s] \in Task /\ task[s].id \in RequestIds
    BY <1>0, <1>5 DEF TaskTyped
  <2>2. CASE task' = [task EXCEPT ![s].pc = "intended"]
    <3> DEFINE t == [task[s] EXCEPT !.pc = "intended"]
    <3>1. t \in Task /\ t.pc = "intended" /\ t.id = task[s].id
      BY <2>1 DEF Task
    <3>2. task' = [task EXCEPT ![s] = t]
      BY <2>2
    <3> HIDE DEF t
    <3> QED BY <1>0, <2>1, <3>1, <3>2, TaskStepTyped
  <2>3. ASSUME NEW outcome \in Outcomes,
               task' = [task EXCEPT ![s].pc = "executed", ![s].outcome = outcome]
        PROVE  TaskTyped'
    <3> DEFINE t == [task[s] EXCEPT !.pc = "executed", !.outcome = outcome]
    <3>1. t \in Task /\ t.outcome = outcome /\ t.id = task[s].id
      BY <2>1 DEF Task
    <3>2. task' = [task EXCEPT ![s] = t]
      BY <2>3
    <3> HIDE DEF t
    <3> QED BY <1>0, <2>1, <3>1, <3>2, TaskStepTyped
  <2> QED BY <1>5, <2>2, <2>3
<1>6. ASSUME NEW s \in Servers, ServerNext(s)
      PROVE  TaskTyped'
  <2>1. CASE Execute(s) \/ NotSent(s)
    <3>1. /\ task[s].pc # "idle"
          /\ \E outcome \in Outcomes :
                task' = [task EXCEPT ![s].pc = "executed", ![s].outcome = outcome]
      BY <2>1 DEF Execute, NotSent, Outcomes
    <3> QED BY <3>1, <1>5
  <2>2. CASE PushAdmit(s) \/ PushAgain(s)
    <3>1. /\ task[s].pc # "idle"
          /\ \/ task' = [task EXCEPT ![s].pc = "intended"]
             \/ \E outcome \in Outcomes :
                   task' = [task EXCEPT ![s].pc = "executed", ![s].outcome = outcome]
      BY <2>2 DEF PushAdmit, PushAgain, Reconciling, Outcomes
    <3> QED BY <3>1, <1>5
  <2>3. CASE Post(s)
    <3>1. \/ task' = [task EXCEPT ![s] = Idle]
          \/ /\ task[s].pc # "idle"
             /\ \E outcome \in Outcomes :
                   task' = [task EXCEPT ![s].pc = "executed", ![s].outcome = outcome]
      BY <2>3 DEF Post, Released, Outcomes
    <3> QED BY <3>1, <1>4, <1>5
  <2>4. CASE PushNotRecorded(s) \/ PushRefused(s) \/ Complete(s)
             \/ CompletionNotRecorded(s) \/ Abandon(s)
    BY <2>4, <1>4 DEF PushNotRecorded, PushRefused, Complete, CompletionNotRecorded,
                      Abandon, Released
  <2> QED BY <1>6, <2>1, <2>2, <2>3, <2>4 DEF ServerNext
<1>7. ASSUME NEW s \in Servers, NEW id \in RequestIds, NEW x \in Requested,
             RequestNext(s, id, x)
      PROVE  TaskTyped'
  BY <1>7, <1>1, <1>3 DEF RequestNext, IntentNotRecorded, Replay
<1> QED BY <1>1, <1>2, <1>6, <1>7 DEF Next, Tick, Reset, vars

-----------------------------------------------------------------------------
(* What a step may append *)

OldRecord(i) == i \in 1..Len(audit) /\ audit'[i] = audit[i]

\* The intent of a request nothing is recorded of.
NewIntent(r) == r \in Record /\ r.phase = "intent" /\ NewRequest(r.id)

\* The completion of the request server s has executed.
CompletionOf(s) ==
    Completion(IntentRecord(task[s].id, task[s].intent, task[s].started), task[s].outcome)
NewCompletion(r) == \E s \in Servers : task[s].pc = "executed" /\ r = CompletionOf(s)

\* A step keeps what is synced and adds one record at most, a new request's intent
\* or a completion.
LEMMA AuditStep ==
    ASSUME TypeInv, [Next]_vars
    PROVE  /\ FileTyped' /\ SyncedStays /\ \E r : OldOr(r)
           /\ \A i \in 1..Len(audit') :
                 OldRecord(i) \/ NewIntent(audit'[i]) \/ NewCompletion(audit'[i])
<1> DEFINE Goal ==
      /\ FileTyped' /\ SyncedStays /\ \E r : OldOr(r)
      /\ \A i \in 1..Len(audit') :
            OldRecord(i) \/ NewIntent(audit'[i]) \/ NewCompletion(audit'[i])
<1>0. FileTyped /\ now \in Nat /\ Requested \subseteq Intent
  BY DataTyped DEF TypeInv, TypeOK, FileTyped
<1>1. ASSUME NEW r, NewIntent(r) \/ NewCompletion(r), FileTyped', SyncedStays, OldOr(r)
      PROVE  Goal
  BY <1>1 DEF OldOr, OldRecord
<1>2. CASE UNCHANGED file
  <2>1. SyncedStays /\ FileTyped' /\ \A r : OldOr(r)
    BY <1>0, <1>2, FileUnchanged
  <2>2. \A i \in 1..Len(audit') : OldRecord(i)
    BY <1>2 DEF OldRecord, file
  <2> QED BY <2>1, <2>2
<1>3. CASE PowerLoss
  <2>1. /\ SyncedStays /\ FileTyped'
        /\ \A r : OldOr(r)
    BY <1>0, <1>3, PowerLossCuts
  <2>2. \A i \in 1..Len(audit') : OldRecord(i)
    BY <1>3, <1>0 DEF PowerLoss, OldRecord, FileTyped
  <2> QED BY <2>1, <2>2
<1>4. ASSUME NEW id \in RequestIds, NEW x \in Intent, NewRequest(id),
             \/ AppendAuditRecord(IntentRecord(id, x, now))
             \/ AppendFails(IntentRecord(id, x, now))
      PROVE  Goal
  <2>1. IntentRecord(id, x, now) \in Record
    BY <1>0, DataTyped
  <2>2. NewIntent(IntentRecord(id, x, now))
    BY <1>4, <2>1 DEF NewIntent, IntentRecord
  <2>3. FileTyped' /\ SyncedStays /\ OldOr(IntentRecord(id, x, now))
    BY <1>0, <1>4, <2>1, AppendRecords, AppendLeaves
  <2> QED BY <1>1, <2>2, <2>3
<1>5. ASSUME NEW s \in Servers, task[s].pc = "executed",
             AppendAuditRecord(CompletionOf(s)) \/ AppendFails(CompletionOf(s))
      PROVE  Goal
  <2>1. /\ task[s].id \in RequestIds /\ task[s].intent \in Intent /\ task[s].started \in Nat
        /\ task[s].outcome \in Outcomes
    BY <1>5 DEF TypeInv, TypeOK, Task
  <2>2. CompletionOf(s) \in Record
    BY <2>1, DataTyped DEF CompletionOf
  <2>3. NewCompletion(CompletionOf(s))
    BY <1>5 DEF NewCompletion
  <2>4. FileTyped' /\ SyncedStays /\ OldOr(CompletionOf(s))
    BY <1>0, <1>5, <2>2, AppendRecords, AppendLeaves
  <2> QED BY <1>1, <2>3, <2>4
<1>6. ASSUME NEW s \in Servers, NEW id \in RequestIds, NEW x \in Requested, RequestNext(s, id, x)
      PROVE  Goal
  <2>1. CASE Admit(s, id, x) \/ IntentNotRecorded(s, id, x)
    BY <1>0, <2>1, <1>4 DEF Admit, IntentNotRecorded, Admissible
  <2>2. CASE Replay(s, id, x) \/ Inspect(s, id, x)
    BY <2>2, <1>2 DEF Replay, Inspect
  <2> QED BY <1>6, <2>1, <2>2 DEF RequestNext
<1>7. ASSUME NEW s \in Servers, ServerNext(s)
      PROVE  Goal
  <2>1. CASE PushAdmit(s) \/ PushNotRecorded(s)
    <3>1. /\ task[s].id \in RequestIds /\ task[s].intent \in Intent
          /\ NewRequest(task[s].id)
          /\ \/ AppendAuditRecord(IntentRecord(task[s].id, task[s].intent, now))
             \/ AppendFails(IntentRecord(task[s].id, task[s].intent, now))
      BY <2>1 DEF PushAdmit, PushNotRecorded, TypeInv, TypeOK, Task
    <3> QED BY <3>1, <1>4
  <2>2. CASE Complete(s) \/ CompletionNotRecorded(s)
    BY <2>2, <1>5 DEF Complete, CompletionNotRecorded, CompletionOf
  <2>3. CASE Execute(s) \/ NotSent(s) \/ PushAgain(s) \/ PushRefused(s) \/ Post(s) \/ Abandon(s)
    BY <2>3, <1>2 DEF Execute, NotSent, PushAgain, PushRefused, Post, Abandon
  <2> QED BY <1>7, <2>1, <2>2, <2>3 DEF ServerNext
<1> QED BY <1>2, <1>3, <1>6, <1>7 DEF Next, Tick, Reset, vars, file

\* The types hold in every reachable state.
LEMMA TypeStep ==
    ASSUME TypeInv, [Next]_vars
    PROVE  TypeInv'
<1>1. TaskTyped' /\ FileTyped'
  BY TaskStep, AuditStep
<1>2. now' \in Nat /\ subscribed' \in BOOLEAN /\ holder' \in Servers \cup {NoServer}
  <2>0. now \in Nat /\ subscribed \in BOOLEAN /\ holder \in Servers \cup {NoServer}
    BY DEF TypeInv, TypeOK
  <2>1. now' = now \/ now' = now + 1
    BY DEF Next, RequestNext, ServerNext, Admit, IntentNotRecorded, Replay, Inspect, Execute, NotSent,
           PushAdmit, PushAgain, PushNotRecorded, PushRefused, Post, Complete,
           CompletionNotRecorded, Abandon, Released, Reconciling, PowerLoss, Tick, Reset, vars
  <2>2. subscribed' \in {subscribed, TRUE, FALSE}
    BY DEF Next, RequestNext, ServerNext, Admit, IntentNotRecorded, Replay, Inspect, Execute, NotSent,
           PushAdmit, PushAgain, PushNotRecorded, PushRefused, Post, Complete,
           CompletionNotRecorded, Abandon, Released, Reconciling, PowerLoss, Tick, Reset, vars
  <2>3. holder' \in {holder, NoServer} \cup Servers
    BY DEF Next, RequestNext, ServerNext, Admit, IntentNotRecorded, Replay, Inspect, Execute, NotSent,
           PushAdmit, PushAgain, PushNotRecorded, PushRefused, Post, Complete,
           CompletionNotRecorded, Abandon, Released, Reconciling, PowerLoss, Tick, Reset, vars
  <2>4. subscribed' \in BOOLEAN
    BY <2>0, <2>2, Zenon
  <2>5. now' \in Nat
    BY <2>0, <2>1
  <2>6. holder' \in Servers \cup {NoServer}
    BY <2>0, <2>3
  <2> QED BY <2>4, <2>5, <2>6
<1>3. \A i \in 1..Len(audit') : audit'[i].phase = "complete" => audit'[i].outcome \in Outcomes
  <2> SUFFICES ASSUME NEW i \in 1..Len(audit'), audit'[i].phase = "complete"
               PROVE  audit'[i].outcome \in Outcomes
    OBVIOUS
  <2>1. CASE OldRecord(i)
    BY <2>1 DEF OldRecord, TypeInv
  <2>2. CASE NewIntent(audit'[i])
    BY <2>2 DEF NewIntent
  <2>3. ASSUME NEW s \in Servers, task[s].pc = "executed", audit'[i] = CompletionOf(s)
        PROVE  audit'[i].outcome \in Outcomes
    BY <2>3 DEF CompletionOf, Completion, IntentRecord, TypeInv
  <2> QED BY <2>1, <2>2, <2>3, AuditStep DEF NewCompletion
<1>4. commands' \in Seq(Command)
  <2>1. CASE UNCHANGED commands
    BY <2>1 DEF TypeInv, TypeOK
  <2>2. ASSUME NEW s \in Servers, Execute(s) \/ Post(s)
        PROVE  commands' \in Seq(Command)
    <3>1. task[s].id \in RequestIds /\ task[s].intent \in Intent /\ task[s].started \in Nat
      BY <2>2 DEF Execute, Post, TypeInv, TypeOK, Task
    <3>2. \E c \in Command : commands' = Append(commands, c)
      BY <2>2, <3>1 DEF Execute, Post, Command
    <3> QED BY <3>2 DEF TypeInv, TypeOK
  <2> QED BY <2>1, <2>2
          DEF Next, RequestNext, ServerNext, Admit, IntentNotRecorded, Replay, Inspect, NotSent,
              PushAdmit, PushAgain, PushNotRecorded, PushRefused, Complete, Reconciling,
              CompletionNotRecorded, Abandon, PowerLoss, Tick, Reset, vars
<1>5. told' \in [RequestIds -> SUBSET [intent : Intent, outcome : Outcomes]]
  <2>1. CASE UNCHANGED told
    BY <2>1 DEF TypeInv, TypeOK
  <2>2. ASSUME NEW id \in RequestIds, NEW x \in Intent, NEW o \in Outcomes,
               told' = [told EXCEPT ![id] = @ \cup {[intent |-> x, outcome |-> o]}]
        PROVE  told' \in [RequestIds -> SUBSET [intent : Intent, outcome : Outcomes]]
    BY <2>2 DEF TypeInv, TypeOK
  <2>3. ASSUME NEW s \in Servers, Complete(s)
        PROVE  told' \in [RequestIds -> SUBSET [intent : Intent, outcome : Outcomes]]
    <3>1. task[s].id \in RequestIds /\ task[s].intent \in Intent /\ task[s].outcome \in Outcomes
      BY <2>3 DEF Complete, TypeInv, TypeOK, Task
    <3> QED BY <2>2, <2>3, <3>1 DEF Complete
  <2>4. ASSUME NEW s \in Servers, NEW id \in RequestIds, NEW x \in Requested, Replay(s, id, x)
        PROVE  told' \in [RequestIds -> SUBSET [intent : Intent, outcome : Outcomes]]
    <3>1. x \in Intent
      BY DataTyped
    <3>2. PICK i \in 1..Len(audit) :
             /\ audit[i].phase = "complete"
             /\ told' = [told EXCEPT ![id] = @ \cup {[intent |-> x, outcome |-> audit[i].outcome]}]
      BY <2>4 DEF Replay
    <3> QED BY <2>2, <3>1, <3>2 DEF TypeInv
  <2> QED BY <2>1, <2>3, <2>4
          DEF Next, RequestNext, ServerNext, Admit, IntentNotRecorded, Inspect, Execute, NotSent,
              PushAdmit, PushAgain, PushNotRecorded, PushRefused, Post, Reconciling,
              CompletionNotRecorded, Abandon, PowerLoss, Tick, Reset, vars
<1> QED BY <1>1, <1>2, <1>3, <1>4, <1>5 DEF TypeInv, TypeOK, TaskTyped, FileTyped

\* The state has its types and the file keeps within its limit.
THEOREM TypeCorrect == Spec => []TypeOK
<1>1. TypeInv /\ [Next]_vars => TypeInv'
  BY TypeStep
<1>2. TypeInv => TypeOK
  BY DEF TypeInv
<1> QED BY TypeInit, <1>1, <1>2, PTL DEF Spec

-----------------------------------------------------------------------------
(* One command of a request, behind a durable intent *)

\* The lock is held by the server that works on a request.
Locked == \A s \in Servers : task[s].pc \in {"intended", "executed"} <=> holder = s

\* The file's durable part holds an intent x of request id.
OnRecord(id, x) ==
    \E i \in 1..synced : audit[i].phase = "intent" /\ audit[i].id = id /\ audit[i].intent = x

\* A server that is about to send a command has its intent on record, and
\* nothing was sent for the request.
Intended ==
    \A s \in Servers : task[s].pc = "intended" =>
        /\ OnRecord(task[s].id, task[s].intent)
        /\ \A c \in 1..Len(commands) : commands[c].id # task[s].id

LEMMA LockStep ==
    ASSUME TypeInv, Locked, [Next]_vars
    PROVE  Locked'
<1>0. task \in [Servers -> Task] /\ Idle.pc = "idle" /\ NoServer \notin Servers
  BY ActionsAssumption DEF TypeInv, TypeOK, Idle
<1>1. ASSUME NEW s \in Servers, holder # s, UNCHANGED holder,
             \A u \in Servers \ {s} : task'[u] = task[u],
             task'[s].pc \notin {"intended", "executed"}
      PROVE  Locked'
  BY <1>1 DEF Locked
<1>2. ASSUME NEW s \in Servers, holder = NoServer, holder' = s,
             \A u \in Servers \ {s} : task'[u] = task[u],
             task'[s].pc \in {"intended", "executed"}
      PROVE  Locked'
  BY <1>2, <1>0 DEF Locked
<1>3. ASSUME NEW s \in Servers, holder = s, Released(s)
      PROVE  Locked'
  BY <1>3, <1>0 DEF Locked, Released
<1>4. ASSUME NEW s \in Servers, holder = s, UNCHANGED holder,
             \A u \in Servers \ {s} : task'[u] = task[u],
             task'[s].pc \in {"intended", "executed"}
      PROVE  Locked'
  BY <1>4 DEF Locked
<1>5. CASE UNCHANGED <<task, holder>>
  BY <1>5 DEF Locked
<1>6. CASE PowerLoss
  BY <1>0, <1>6 DEF PowerLoss, Locked
<1>7. ASSUME NEW s \in Servers, NEW id \in RequestIds, NEW x \in Requested, RequestNext(s, id, x)
      PROVE  Locked'
  <2>1. CASE Admit(s, id, x)
    <3>1. /\ holder = NoServer /\ holder' = s
          /\ task'[s].pc = "intended"
          /\ \A u \in Servers \ {s} : task'[u] = task[u]
      BY <1>0, <2>1 DEF Admit, Admissible, AuditReadable, Idle
    <3> QED BY <3>1, <1>2
  <2>2. CASE Inspect(s, id, x)
    <3>1. /\ task[s].pc = "idle" /\ task'[s].pc = "inspected"
          /\ \A u \in Servers \ {s} : task'[u] = task[u]
          /\ UNCHANGED holder
      BY <1>0, <2>2 DEF Inspect, Idle
    <3> QED BY <3>1, <1>1 DEF Locked
  <2> QED BY <1>5, <1>7, <2>1, <2>2 DEF RequestNext, IntentNotRecorded, Replay
<1>8. ASSUME NEW s \in Servers, ServerNext(s)
      PROVE  Locked'
  <2>1. CASE PushAdmit(s) \/ PushAgain(s)
    <3>1. /\ holder = NoServer /\ holder' = s
          /\ task'[s].pc \in {"intended", "executed"}
          /\ \A u \in Servers \ {s} : task'[u] = task[u]
      BY <1>0, <2>1 DEF PushAdmit, PushAgain, Reconciling, AuditReadable, Task
    <3> QED BY <3>1, <1>2
  <2>2. CASE PushNotRecorded(s) \/ PushRefused(s)
    <3>1. /\ task[s].pc = "inspected" /\ task'[s].pc = "idle"
          /\ \A u \in Servers \ {s} : task'[u] = task[u]
          /\ UNCHANGED holder
      BY <1>0, <2>2 DEF PushNotRecorded, PushRefused
    <3> QED BY <3>1, <1>1 DEF Locked
  <2>3. CASE Execute(s) \/ NotSent(s)
    <3>1. /\ task[s].pc = "intended" /\ task'[s].pc = "executed"
          /\ \A u \in Servers \ {s} : task'[u] = task[u]
          /\ UNCHANGED holder
      BY <1>0, <2>3 DEF Execute, NotSent, Task
    <3> QED BY <3>1, <1>4 DEF Locked
  <2>4. CASE Post(s)
    <3>1. holder = s
      BY <2>4 DEF Post, Locked
    <3>2. \/ Released(s)
          \/ /\ task'[s].pc = "executed" /\ UNCHANGED holder
             /\ \A u \in Servers \ {s} : task'[u] = task[u]
      BY <1>0, <2>4 DEF Post, Task
    <3> QED BY <3>1, <3>2, <1>3, <1>4
  <2>5. CASE Complete(s) \/ CompletionNotRecorded(s) \/ Abandon(s)
    BY <2>5, <1>3 DEF Complete, CompletionNotRecorded, Abandon, Locked
  <2> QED BY <1>8, <2>1, <2>2, <2>3, <2>4, <2>5 DEF ServerNext
<1> QED BY <1>5, <1>6, <1>7, <1>8 DEF Next, Tick, Reset, vars

\* Subscriptions alone are inspected before the lock is taken.
Inspecting == \A s \in Servers : task[s].pc = "inspected" => task[s].intent.op = "event_push"

LEMMA InspectingStep ==
    ASSUME TypeInv, Inspecting, [Next]_vars
    PROVE  Inspecting'
<1>0. task \in [Servers -> Task] /\ Idle.pc = "idle"
  BY DEF TypeInv, TypeOK, Idle
<1>1. ASSUME NEW s \in Servers, NEW id \in RequestIds, NEW x \in Requested, RequestNext(s, id, x)
      PROVE  Inspecting'
  BY <1>0, <1>1 DEF RequestNext, Admit, IntentNotRecorded, Replay, Inspect, Inspecting, Idle
<1>2. ASSUME NEW s \in Servers, ServerNext(s)
      PROVE  Inspecting'
  <2>1. \/ UNCHANGED task
        \/ task' = [task EXCEPT ![s] = Idle]
        \/ task' = [task EXCEPT ![s].pc = "intended"]
        \/ \E o : task' = [task EXCEPT ![s].pc = "executed", ![s].outcome = o]
    BY <1>2 DEF ServerNext, Execute, NotSent, PushAdmit, PushAgain, PushNotRecorded, PushRefused,
                Post, Complete, CompletionNotRecorded, Abandon, Released, Reconciling
  <2>2. \A u \in Servers : task'[u] = task[u] \/ task'[u].pc # "inspected"
    BY <1>0, <2>1 DEF Task
  <2> QED BY <2>2 DEF Inspecting
<1>3. CASE PowerLoss
  BY <1>0, <1>3 DEF PowerLoss, Inspecting
<1> QED BY <1>1, <1>2, <1>3 DEF Next, Tick, Reset, vars, Inspecting

\* A command is the one a server intended, and no server intends another then.
LEMMA CommandStep ==
    ASSUME TypeInv, Locked, [Next]_vars
    PROVE  \/ UNCHANGED commands
           \/ \E s \in Servers :
                 /\ task[s].pc = "intended"
                 /\ \E t \in Nat :
                       /\ task[s].intent.op # "event_push" => t = task[s].started
                       /\ commands' = Append(commands, [id |-> task[s].id, intent |-> task[s].intent,
                                                        started |-> t])
                 /\ \A u \in Servers : task'[u].pc # "intended"
<1>1. ASSUME NEW s \in Servers, Execute(s) \/ Post(s)
      PROVE  /\ task[s].pc = "intended"
             /\ \E t \in Nat :
                   /\ task[s].intent.op # "event_push" => t = task[s].started
                   /\ commands' = Append(commands, [id |-> task[s].id, intent |-> task[s].intent,
                                                    started |-> t])
             /\ \A u \in Servers : task'[u].pc # "intended"
  <2>1. task[s].pc = "intended" /\ task[s] \in Task /\ task \in [Servers -> Task]
    BY <1>1 DEF Execute, Post, TypeInv, TypeOK
  <2>2. \A u \in Servers \ {s} : task'[u] = task[u]
    BY <1>1, <2>1 DEF Execute, Post, Released
  <2>3. task'[s].pc # "intended"
    <3>1. \/ task' = [task EXCEPT ![s] = Idle]
          \/ \E o : task' = [task EXCEPT ![s].pc = "executed", ![s].outcome = o]
      BY <1>1 DEF Execute, Post, Released
    <3>2. task'[s] = Idle \/ task'[s].pc = "executed"
      BY <2>1, <3>1 DEF Task
    <3> QED BY <3>2 DEF Idle
  <2>4. \A u \in Servers \ {s} : task[u].pc # "intended"
    BY <2>1 DEF Locked
  <2>5. \E t \in Nat :
           /\ task[s].intent.op # "event_push" => t = task[s].started
           /\ commands' = Append(commands, [id |-> task[s].id, intent |-> task[s].intent,
                                            started |-> t])
    BY <1>1, <2>1 DEF Execute, Post, Task
  <2> QED BY <2>1, <2>2, <2>3, <2>4, <2>5
<1> QED BY <1>1
        DEF Next, RequestNext, ServerNext, Admit, IntentNotRecorded, Replay, Inspect, NotSent,
            PushAdmit, PushAgain, PushNotRecorded, PushRefused, Complete, Reconciling,
            CompletionNotRecorded, Abandon, PowerLoss, Tick, Reset, vars

\* The same after a step.
OnRecordNext(id, x) ==
    \E i \in 1..synced' : /\ audit'[i].phase = "intent" /\ audit'[i].id = id
                         /\ audit'[i].intent = x

\* What is on record stays on record.
LEMMA OnRecordStays ==
    ASSUME TypeInv, TypeInv', SyncedStays, NEW id, NEW x, OnRecord(id, x)
    PROVE  OnRecordNext(id, x)
<1>1. PICK i \in 1..synced : audit[i].phase = "intent" /\ audit[i].id = id /\ audit[i].intent = x
  BY DEF OnRecord
<1>2. /\ synced \in Nat /\ synced' \in Nat /\ synced <= synced'
      /\ audit'[i] = audit[i]
  BY DEF TypeInv, TypeOK, SyncedStays
<1>3. i \in 1..synced'
  BY <1>2
<1> QED BY <1>1, <1>2, <1>3 DEF OnRecordNext

\* A server begins to intend a command for a new request, with its intent on
\* record.
LEMMA IntendedStep ==
    ASSUME TypeInv, [Next]_vars, NEW s \in Servers, task'[s].pc = "intended"
    PROVE  \/ task[s].pc = "intended" /\ task'[s] = task[s]
           \/ NewRequest(task'[s].id) /\ OnRecordNext(task'[s].id, task'[s].intent)
<1>0. task \in [Servers -> Task] /\ FileTyped /\ now \in Nat /\ Idle.pc = "idle"
  BY DEF TypeInv, TypeOK, FileTyped, Idle
<1>1. ASSUME NEW id \in RequestIds, NEW x \in Intent, AppendAuditRecord(IntentRecord(id, x, now))
      PROVE  OnRecordNext(id, x)
  <2>1. IntentRecord(id, x, now) \in Record
    BY <1>0, DataTyped
  <2>2. synced' > 0 /\ audit'[synced'] = IntentRecord(id, x, now) /\ synced' \in Nat
    BY <1>0, <1>1, <2>1, AppendRecords DEF FileTyped
  <2> QED BY <2>2 DEF OnRecordNext, IntentRecord
<1>2. CASE task'[s] = task[s]
  BY <1>2
<1>3. ASSUME NEW u \in Servers, NEW id \in RequestIds, NEW x \in Requested,
             RequestNext(u, id, x), task'[s] # task[s]
      PROVE  NewRequest(task'[s].id) /\ OnRecordNext(task'[s].id, task'[s].intent)
  <2>1. CASE Inspect(u, id, x)
    BY <1>0, <1>3, <2>1 DEF Inspect, Idle
  <2>2. CASE Admit(u, id, x)
    <3>1. u = s /\ task'[s].id = id /\ task'[s].intent = x
      BY <1>0, <1>3, <2>2 DEF Admit, Idle
    <3>2. NewRequest(id) /\ AppendAuditRecord(IntentRecord(id, x, now)) /\ x \in Intent
      BY <2>2, DataTyped DEF Admit, Admissible
    <3> QED BY <3>1, <3>2, <1>1
  <2> QED BY <1>3, <2>1, <2>2 DEF RequestNext, IntentNotRecorded, Replay
<1>4. ASSUME NEW u \in Servers, ServerNext(u), task'[s] # task[s]
      PROVE  NewRequest(task'[s].id) /\ OnRecordNext(task'[s].id, task'[s].intent)
  <2>1. CASE PushAdmit(u)
    <3>1. u = s /\ task[s] \in Task
      BY <1>0, <1>4, <2>1 DEF PushAdmit, Reconciling
    <3>2. task'[s].id = task[s].id /\ task'[s].intent = task[s].intent
      BY <1>0, <2>1, <3>1 DEF PushAdmit, Reconciling, Task
    <3>3. /\ NewRequest(task[s].id)
          /\ AppendAuditRecord(IntentRecord(task[s].id, task[s].intent, now))
          /\ task[s].id \in RequestIds /\ task[s].intent \in Intent
      BY <2>1, <3>1 DEF PushAdmit, TypeInv, Task
    <3>4. OnRecordNext(task[s].id, task[s].intent)
      BY <3>3, <1>1
    <3> QED BY <3>2, <3>3, <3>4
  <2>2. CASE PushAgain(u)
    <3>1. task' = [task EXCEPT ![u].pc = "executed", ![u].outcome = "done"]
      BY <2>2 DEF PushAgain, Reconciling
    <3> QED BY <1>0, <1>4, <3>1 DEF Task
  <2>3. CASE Execute(u) \/ NotSent(u) \/ Post(u)
    <3>1. \/ task' = [task EXCEPT ![u] = Idle]
          \/ \E o : task' = [task EXCEPT ![u].pc = "executed", ![u].outcome = o]
      BY <2>3 DEF Execute, NotSent, Post, Released
    <3> QED BY <1>0, <1>4, <3>1 DEF Task
  <2>4. CASE PushNotRecorded(u) \/ PushRefused(u) \/ Complete(u) \/ CompletionNotRecorded(u)
             \/ Abandon(u)
    <3>1. task' = [task EXCEPT ![u] = Idle]
      BY <2>4 DEF PushNotRecorded, PushRefused, Complete, CompletionNotRecorded, Abandon, Released
    <3> QED BY <1>0, <1>4, <3>1
  <2> QED BY <1>4, <2>1, <2>2, <2>3, <2>4 DEF ServerNext
<1>5. CASE PowerLoss
  BY <1>0, <1>5 DEF PowerLoss
<1> QED BY <1>2, <1>3, <1>4, <1>5 DEF Next, Tick, Reset, vars

\* What makes the command of a request unique: it follows its durable intent,
\* and a request with a record is not new.
Safe ==
    /\ TypeInv
    /\ Locked
    /\ Inspecting
    /\ Intended
    /\ IntentIsDurable
    /\ RequestCommandedOnce

LEMMA SafeInit == Init => Safe
<1>1. ASSUME Init PROVE Locked /\ Inspecting /\ Intended /\ IntentIsDurable /\ RequestCommandedOnce
  <2>1. \A s \in Servers : task[s].pc = "idle"
    BY <1>1 DEF Init, Idle
  <2>2. holder = NoServer /\ NoServer \notin Servers /\ Len(commands) = 0
    BY <1>1, ActionsAssumption DEF Init
  <2> QED BY <2>1, <2>2 DEF Locked, Inspecting, Intended, IntentIsDurable, RequestCommandedOnce
<1> QED BY <1>1, TypeInit DEF Safe

LEMMA SafeStep ==
    ASSUME Safe, [Next]_vars
    PROVE  Safe'
<1>0. TypeInv /\ Locked /\ Inspecting /\ Intended /\ IntentIsDurable /\ RequestCommandedOnce
  BY DEF Safe
<1>1. TypeInv' /\ Locked' /\ Inspecting' /\ SyncedStays
  BY <1>0, TypeStep, LockStep, InspectingStep, AuditStep
<1>2. \A id, x : OnRecord(id, x) => OnRecordNext(id, x)
  BY <1>0, <1>1, OnRecordStays
<1>3. \A c \in 1..Len(commands) : OnRecord(commands[c].id, commands[c].intent)
  BY <1>0 DEF IntentIsDurable, OnRecord
<1>4. \A id : NewRequest(id) => \A c \in 1..Len(commands) : commands[c].id # id
  <2> SUFFICES ASSUME NEW id, NewRequest(id), NEW c \in 1..Len(commands), commands[c].id = id
               PROVE  FALSE
    OBVIOUS
  <2>1. PICK i \in 1..synced : audit[i].id = id
    BY <1>3 DEF OnRecord
  <2>2. i \in 1..Len(audit)
    BY <1>0 DEF TypeInv, TypeOK
  <2> QED BY <2>1, <2>2 DEF NewRequest
<1>5. CASE UNCHANGED commands
  <2>1. RequestCommandedOnce'
    BY <1>0, <1>5 DEF RequestCommandedOnce
  <2>2. IntentIsDurable'
    BY <1>2, <1>3, <1>5 DEF IntentIsDurable, OnRecordNext
  <2>3. Intended'
    <3> SUFFICES ASSUME NEW s \in Servers, task'[s].pc = "intended"
                 PROVE  /\ OnRecordNext(task'[s].id, task'[s].intent)
                        /\ \A c \in 1..Len(commands) : commands[c].id # task'[s].id
      BY <1>5 DEF Intended, OnRecord, OnRecordNext
    <3>1. CASE task[s].pc = "intended" /\ task'[s] = task[s]
      BY <1>0, <1>2, <3>1 DEF Intended
    <3>2. CASE NewRequest(task'[s].id) /\ OnRecordNext(task'[s].id, task'[s].intent)
      BY <1>4, <3>2
    <3> QED BY <1>0, <3>1, <3>2, IntendedStep
  <2> QED BY <1>1, <2>1, <2>2, <2>3 DEF Safe
<1>6. ASSUME NEW s \in Servers, NEW t \in Nat, task[s].pc = "intended",
             commands' = Append(commands, [id |-> task[s].id, intent |-> task[s].intent,
                                           started |-> t]),
             \A u \in Servers : task'[u].pc # "intended"
      PROVE  Safe'
  <2> DEFINE n == Len(commands)
  <2>1. /\ n \in Nat /\ Len(commands') = n + 1
        /\ \A c \in 1..n : commands'[c] = commands[c]
        /\ commands'[n + 1].id = task[s].id /\ commands'[n + 1].intent = task[s].intent
    BY <1>0, <1>6 DEF TypeInv, TypeOK
  <2>2. /\ OnRecord(task[s].id, task[s].intent)
        /\ \A c \in 1..n : commands[c].id # task[s].id
    BY <1>0, <1>6 DEF Intended
  <2>3. RequestCommandedOnce'
    <3> SUFFICES ASSUME NEW i \in 1..(n + 1), NEW j \in 1..(n + 1), commands'[i].id = commands'[j].id
                 PROVE  i = j
      BY <2>1 DEF RequestCommandedOnce
    <3>1. CASE i \in 1..n /\ j \in 1..n
      BY <1>0, <2>1, <3>1 DEF RequestCommandedOnce
    <3>2. CASE i = n + 1 \/ j = n + 1
      BY <2>1, <2>2, <3>2
    <3> QED BY <2>1, <3>1, <3>2
  <2>4. IntentIsDurable'
    <3> SUFFICES ASSUME NEW c \in 1..(n + 1)
                 PROVE  OnRecordNext(commands'[c].id, commands'[c].intent)
      BY <2>1 DEF IntentIsDurable, OnRecordNext
    <3>1. OnRecord(commands'[c].id, commands'[c].intent)
      BY <1>3, <2>1, <2>2
    <3> QED BY <1>2, <3>1
  <2>5. Intended'
    BY <1>6 DEF Intended
  <2> QED BY <1>1, <2>3, <2>4, <2>5 DEF Safe
<1> QED BY <1>0, <1>5, <1>6, CommandStep

THEOREM SafeInvariant == Spec => []Safe
BY SafeInit, SafeStep, PTL DEF Spec

\* A request identifier sends at most one command to a controller, however many
\* servers, retries, lost records and ends of processes there are.
THEOREM CommandedOnce == Spec => []RequestCommandedOnce
<1>1. Safe => RequestCommandedOnce
  BY DEF Safe
<1> QED BY <1>1, SafeInvariant, PTL

\* Every command ever sent has its intent where no power loss can take it.
THEOREM IntentDurable == Spec => []IntentIsDurable
<1>1. Safe => IntentIsDurable
  BY DEF Safe
<1> QED BY <1>1, SafeInvariant, PTL

-----------------------------------------------------------------------------
(* One answer for a request *)

Holding(s) == task[s].pc \in {"intended", "executed"}
Push(x) == x.op = "event_push"

Kept(id, x) == \E i \in 1..synced : audit[i].id = id /\ audit[i].intent = x
KeptNext(id, x) == \E i \in 1..synced' : audit'[i].id = id /\ audit'[i].intent = x

Sent(id, x) == \E c \in 1..Len(commands) : commands[c].id = id /\ commands[c].intent = x
SentNext(id, x) == \E c \in 1..Len(commands') : commands'[c].id = id /\ commands'[c].intent = x

\* The records of one request have one intent and at most one outcome, and that
\* outcome rests on a durable intent and, when it is success, on a command.
AuditAgrees ==
    /\ \A i, j \in 1..Len(audit) : audit[i].id = audit[j].id => audit[i].intent = audit[j].intent
    /\ \A i \in 1..Len(audit) : audit[i].phase = "complete" =>
          /\ Push(audit[i].intent) => audit[i].outcome = "done"
          /\ ~Push(audit[i].intent) => OnRecord(audit[i].id, audit[i].intent)
          /\ ~Push(audit[i].intent) /\ audit[i].outcome = "done" =>
                Sent(audit[i].id, audit[i].intent)
    /\ \A i, j \in 1..Len(audit) :
          audit[i].phase = "complete" /\ audit[j].phase = "complete" /\ audit[i].id = audit[j].id =>
              audit[i].outcome = audit[j].outcome

\* A server works on what is recorded, and on a power action only as long as nobody
\* heard of its outcome.
TasksAgree ==
    \A s \in Servers : Holding(s) =>
        /\ \E i \in 1..Len(audit) : audit[i].id = task[s].id /\ audit[i].intent = task[s].intent
        /\ ~Push(task[s].intent) =>
              /\ OnRecord(task[s].id, task[s].intent)
              /\ told[task[s].id] = {}
              /\ \A i \in 1..Len(audit) : audit[i].id = task[s].id => audit[i].phase = "intent"
        /\ task[s].pc = "executed" =>
              /\ Push(task[s].intent) => task[s].outcome = "done"
              /\ ~Push(task[s].intent) /\ task[s].outcome = "done" =>
                    Sent(task[s].id, task[s].intent)

\* What clients were told rests on a durable record and does not contradict the file.
ToldAgrees ==
    \A id \in RequestIds : \A t \in told[id] :
        /\ Kept(id, t.intent)
        /\ Push(t.intent) => t.outcome = "done"
        /\ ~Push(t.intent) /\ t.outcome = "done" => Sent(id, t.intent)
        /\ \A i \in 1..Len(audit) :
              audit[i].id = id /\ audit[i].phase = "complete" => audit[i].outcome = t.outcome
        /\ \A t2 \in told[id] : t = t2

Answered == Safe /\ AuditAgrees /\ TasksAgree /\ ToldAgrees

\* The outcome a server holds agrees with all that is recorded and told of its
\* request.
LEMMA HeldFits ==
    ASSUME Answered, NEW s \in Servers, Holding(s)
    PROVE  /\ \A i \in 1..Len(audit) : audit[i].id = task[s].id =>
                 /\ audit[i].intent = task[s].intent
                 /\ audit[i].phase = "complete" /\ task[s].pc = "executed" =>
                       audit[i].outcome = task[s].outcome
           /\ \A t \in told[task[s].id] :
                 /\ t.intent = task[s].intent
                 /\ task[s].pc = "executed" => t.outcome = task[s].outcome
<1>0. AuditAgrees /\ TasksAgree /\ ToldAgrees /\ TypeInv /\ task[s].id \in RequestIds
  BY DEF Answered, Safe, TypeInv, Holding
<1>1. PICK k \in 1..Len(audit) : audit[k].id = task[s].id /\ audit[k].intent = task[s].intent
  BY <1>0 DEF TasksAgree
<1>2. \A i \in 1..Len(audit) : audit[i].id = task[s].id => audit[i].intent = task[s].intent
  BY <1>0, <1>1 DEF AuditAgrees
<1>3. ASSUME NEW i \in 1..Len(audit), audit[i].id = task[s].id, audit[i].phase = "complete",
             task[s].pc = "executed"
      PROVE  audit[i].outcome = task[s].outcome
  <2>1. Push(task[s].intent)
    BY <1>0, <1>3 DEF TasksAgree
  <2> QED BY <1>0, <1>2, <1>3, <2>1 DEF TasksAgree, AuditAgrees
<1>4. ASSUME NEW t \in told[task[s].id]
      PROVE  /\ t.intent = task[s].intent
             /\ task[s].pc = "executed" => t.outcome = task[s].outcome
  <2>1. PICK i \in 1..synced : audit[i].id = task[s].id /\ audit[i].intent = t.intent
    BY <1>0, <1>4 DEF ToldAgrees, Kept
  <2>2. t.intent = task[s].intent
    BY <1>0, <1>2, <2>1 DEF TypeInv, TypeOK
  <2>3. Push(task[s].intent)
    BY <1>0, <1>4 DEF TasksAgree
  <2> QED BY <1>0, <2>2, <2>3 DEF TasksAgree, ToldAgrees
<1> QED BY <1>2, <1>3, <1>4

\* What is kept and sent stays so.
LEMMA EvidenceStays ==
    ASSUME Safe, [Next]_vars
    PROVE  \A id, x : /\ OnRecord(id, x) => OnRecordNext(id, x)
                      /\ Kept(id, x) => KeptNext(id, x)
                      /\ Sent(id, x) => SentNext(id, x)
                      /\ OnRecordNext(id, x) => KeptNext(id, x)
                      /\ OnRecord(id, x) => Kept(id, x)
<1>0. TypeInv /\ Locked /\ TypeInv' /\ SyncedStays
  BY TypeStep, AuditStep DEF Safe
<1>1. \A id, x : OnRecord(id, x) => OnRecordNext(id, x)
  BY <1>0, OnRecordStays
<1>2. ASSUME NEW id, NEW x, Kept(id, x)
      PROVE  KeptNext(id, x)
  <2>1. PICK i \in 1..synced : audit[i].id = id /\ audit[i].intent = x
    BY <1>2 DEF Kept
  <2>2. i \in 1..synced' /\ audit'[i] = audit[i]
    BY <1>0 DEF SyncedStays, TypeInv, TypeOK
  <2> QED BY <2>1, <2>2 DEF KeptNext
<1>3. ASSUME NEW id, NEW x, Sent(id, x)
      PROVE  SentNext(id, x)
  <2>1. PICK c \in 1..Len(commands) : commands[c].id = id /\ commands[c].intent = x
    BY <1>3 DEF Sent
  <2>2. CASE UNCHANGED commands
    BY <2>1, <2>2 DEF SentNext
  <2>3. ASSUME NEW y \in Command, commands' = Append(commands, y)
        PROVE  SentNext(id, x)
    <3>1. c \in 1..Len(commands') /\ commands'[c] = commands[c]
      BY <1>0, <2>3 DEF TypeInv, TypeOK
    <3> QED BY <2>1, <3>1 DEF SentNext
  <2>4. UNCHANGED commands \/ \E y \in Command : commands' = Append(commands, y)
    <3>1. \A s \in Servers : task[s].pc = "intended" =>
             task[s].id \in RequestIds /\ task[s].intent \in Intent
      BY <1>0 DEF TypeInv, TypeOK, Task
    <3> QED BY <1>0, <3>1, CommandStep DEF Command
  <2> QED BY <2>2, <2>3, <2>4
<1>4. \A id, x : /\ OnRecordNext(id, x) => KeptNext(id, x)
                 /\ OnRecord(id, x) => Kept(id, x)
  BY DEF OnRecordNext, KeptNext, OnRecord, Kept
<1> QED BY <1>1, <1>2, <1>3, <1>4

\* A step is at most one new record: what it is, and that it fits.
LEMMA RecordsStep ==
    ASSUME Answered, [Next]_vars
    PROVE  \E r :
              /\ \A i \in 1..Len(audit') :
                    OldRecord(i) \/ (audit'[i] = r /\ (NewIntent(r) \/ NewCompletion(r)))
              /\ \A i \in 1..Len(audit) :
                    audit[i].id = r.id /\ (NewIntent(r) \/ NewCompletion(r)) =>
                        /\ audit[i].intent = r.intent
                        /\ audit[i].phase = "complete" /\ r.phase = "complete" =>
                              audit[i].outcome = r.outcome
<1>1. PICK r : OldOr(r)
  BY AuditStep DEF Answered, Safe
<1>2. \A i \in 1..Len(audit') :
         OldRecord(i) \/ (audit'[i] = r /\ (NewIntent(r) \/ NewCompletion(r)))
  <2>1. \A i \in 1..Len(audit') : OldRecord(i) \/ NewIntent(audit'[i]) \/ NewCompletion(audit'[i])
    BY AuditStep DEF Answered, Safe
  <2>2. \A i \in 1..Len(audit') : OldRecord(i) \/ audit'[i] = r
    BY <1>1 DEF OldOr, OldRecord
  <2> QED BY <2>1, <2>2
<1>3. ASSUME NEW i \in 1..Len(audit), audit[i].id = r.id, NewIntent(r) \/ NewCompletion(r)
      PROVE  /\ audit[i].intent = r.intent
             /\ audit[i].phase = "complete" /\ r.phase = "complete" => audit[i].outcome = r.outcome
  <2>1. PICK s \in Servers : task[s].pc = "executed" /\ r = CompletionOf(s)
    BY <1>3 DEF NewIntent, NewRequest, NewCompletion
  <2>2. r.id = task[s].id /\ r.intent = task[s].intent /\ r.outcome = task[s].outcome
    BY <2>1 DEF CompletionOf, Completion, IntentRecord
  <2> QED BY <1>3, <2>1, <2>2, HeldFits DEF Holding
<1> QED BY <1>2, <1>3

LEMMA AuditAgreesStep ==
    ASSUME Answered, [Next]_vars
    PROVE  AuditAgrees'
<1>0. Safe /\ AuditAgrees /\ TasksAgree
  BY DEF Answered
<1>1. PICK r :
         /\ \A i \in 1..Len(audit') :
               OldRecord(i) \/ (audit'[i] = r /\ (NewIntent(r) \/ NewCompletion(r)))
         /\ \A i \in 1..Len(audit) :
               audit[i].id = r.id /\ (NewIntent(r) \/ NewCompletion(r)) =>
                   /\ audit[i].intent = r.intent
                   /\ audit[i].phase = "complete" /\ r.phase = "complete" =>
                         audit[i].outcome = r.outcome
  BY RecordsStep
<1>2. \A i, j \in 1..Len(audit') : audit'[i].id = audit'[j].id => audit'[i].intent = audit'[j].intent
  BY <1>0, <1>1 DEF OldRecord, AuditAgrees
<1>3. \A i, j \in 1..Len(audit') :
         audit'[i].phase = "complete" /\ audit'[j].phase = "complete" /\ audit'[i].id = audit'[j].id =>
             audit'[i].outcome = audit'[j].outcome
  BY <1>0, <1>1 DEF OldRecord, AuditAgrees
<1>4. ASSUME NEW i \in 1..Len(audit'), audit'[i].phase = "complete"
      PROVE  /\ Push(audit'[i].intent) => audit'[i].outcome = "done"
             /\ ~Push(audit'[i].intent) => OnRecordNext(audit'[i].id, audit'[i].intent)
             /\ ~Push(audit'[i].intent) /\ audit'[i].outcome = "done" =>
                   SentNext(audit'[i].id, audit'[i].intent)
  <2>1. CASE OldRecord(i)
    BY <1>0, <1>4, <2>1, EvidenceStays DEF OldRecord, AuditAgrees
  <2>2. CASE audit'[i] = r /\ NewCompletion(r)
    <3>1. PICK s \in Servers : task[s].pc = "executed" /\ r = CompletionOf(s)
      BY <2>2 DEF NewCompletion
    <3>2. r.id = task[s].id /\ r.intent = task[s].intent /\ r.outcome = task[s].outcome
      BY <3>1 DEF CompletionOf, Completion, IntentRecord
    <3> QED BY <1>0, <2>2, <3>1, <3>2, EvidenceStays DEF TasksAgree, Holding
  <2>3. CASE audit'[i] = r /\ NewIntent(r)
    BY <1>4, <2>3 DEF NewIntent
  <2> QED BY <1>1, <2>1, <2>2, <2>3
<1> QED BY <1>2, <1>3, <1>4 DEF AuditAgrees, Push, OnRecord, OnRecordNext, Sent, SentNext

\* How a server comes to hold the lock and goes on holding it.
LEMMA HeldStep ==
    ASSUME Safe, [Next]_vars, NEW s \in Servers, Holding(s)'
    PROVE  \/ Holding(s) /\ task'[s] = task[s] /\ UNCHANGED <<file, told>>
           \/ /\ task[s].pc = "intended" /\ UNCHANGED <<file, told>>
              /\ task'[s].id = task[s].id /\ task'[s].intent = task[s].intent
              /\ Push(task[s].intent) => task'[s].outcome = "done"
              /\ ~Push(task[s].intent) /\ task'[s].outcome = "done" =>
                    SentNext(task[s].id, task[s].intent)
           \/ /\ NewRequest(task'[s].id) /\ OnRecordNext(task'[s].id, task'[s].intent)
              /\ UNCHANGED told
              /\ task'[s].pc = "executed" => Push(task'[s].intent) /\ task'[s].outcome = "done"
           \/ /\ SameIntent(task'[s].id, task'[s].intent) /\ Push(task'[s].intent)
              /\ task'[s].outcome = "done" /\ UNCHANGED <<file, told>>
<1> DEFINE Goal ==
      \/ Holding(s) /\ task'[s] = task[s] /\ UNCHANGED <<file, told>>
      \/ /\ task[s].pc = "intended" /\ UNCHANGED <<file, told>>
         /\ task'[s].id = task[s].id /\ task'[s].intent = task[s].intent
         /\ Push(task[s].intent) => task'[s].outcome = "done"
         /\ ~Push(task[s].intent) /\ task'[s].outcome = "done" =>
               SentNext(task[s].id, task[s].intent)
      \/ /\ NewRequest(task'[s].id) /\ OnRecordNext(task'[s].id, task'[s].intent)
         /\ UNCHANGED told
         /\ task'[s].pc = "executed" => Push(task'[s].intent) /\ task'[s].outcome = "done"
      \/ /\ SameIntent(task'[s].id, task'[s].intent) /\ Push(task'[s].intent)
         /\ task'[s].outcome = "done" /\ UNCHANGED <<file, told>>
<1>0. /\ TypeInv /\ Locked /\ Inspecting /\ FileTyped /\ now \in Nat
      /\ task \in [Servers -> Task] /\ task[s] \in Task
      /\ Idle.pc = "idle" /\ task'[s].pc \in {"intended", "executed"}
      /\ \A u \in Servers : Holding(u) => \A v \in Servers \ {u} : ~Holding(v)
      /\ NoServer \notin Servers
  BY ActionsAssumption DEF Safe, TypeInv, TypeOK, FileTyped, Idle, Holding, Locked
<1>1. ASSUME task'[s] = task[s], UNCHANGED <<file, told>>
      PROVE  Goal
  BY <1>0, <1>1 DEF Holding
<1>2. ASSUME NEW id \in RequestIds, NEW x \in Intent, AppendAuditRecord(IntentRecord(id, x, now))
      PROVE  OnRecordNext(id, x)
  <2>1. IntentRecord(id, x, now) \in Record
    BY <1>0, DataTyped
  <2>2. synced' > 0 /\ audit'[synced'] = IntentRecord(id, x, now) /\ synced' \in Nat
    BY <1>0, <1>2, <2>1, AppendRecords DEF FileTyped
  <2> QED BY <2>2 DEF OnRecordNext, IntentRecord
<1>3. ASSUME NEW u \in Servers, NEW id \in RequestIds, NEW x \in Requested, RequestNext(u, id, x)
      PROVE  Goal
  <2>1. CASE Admit(u, id, x)
    <3>1. \A v \in Servers : ~Holding(v)
      BY <1>0, <2>1 DEF Admit, Admissible, AuditReadable, Locked, Holding
    <3>2. u = s /\ task'[s].id = id /\ task'[s].intent = x /\ task'[s].pc = "intended"
      BY <1>0, <2>1, <3>1 DEF Admit, Idle, Holding
    <3>3. NewRequest(id) /\ OnRecordNext(id, x)
      BY <1>2, <2>1, DataTyped DEF Admit, Admissible
    <3> QED BY <2>1, <3>2, <3>3 DEF Admit
  <2>2. CASE Inspect(u, id, x)
    <3>1. UNCHANGED <<file, told>> /\ task'[s] = task[s]
      BY <1>0, <2>2 DEF Inspect, Idle
    <3> QED BY <3>1, <1>1
  <2>3. CASE IntentNotRecorded(u, id, x) \/ Replay(u, id, x)
    <3>1. UNCHANGED task /\ holder = NoServer
      BY <2>3 DEF IntentNotRecorded, Replay, Admissible, AuditReadable
    <3> QED BY <1>0, <3>1 DEF Locked
  <2> QED BY <1>3, <2>1, <2>2, <2>3 DEF RequestNext
<1>4. ASSUME NEW u \in Servers, ServerNext(u)
      PROVE  Goal
  <2>1. CASE PushAdmit(u)
    <3>1. holder = NoServer /\ task[u].pc = "inspected"
      BY <2>1 DEF PushAdmit, AuditReadable
    <3>2. u = s /\ task'[s].id = task[s].id /\ task'[s].intent = task[s].intent
      BY <1>0, <2>1, <3>1 DEF PushAdmit, Reconciling, Locked, Task
    <3>3. task'[s].pc = "executed" => task'[s].outcome = "done"
      BY <1>0, <2>1, <3>1, <3>2 DEF PushAdmit, Reconciling, Task
    <3>4. NewRequest(task[s].id) /\ OnRecordNext(task[s].id, task[s].intent)
      <4>1. task[s].id \in RequestIds /\ task[s].intent \in Intent
        BY <1>0, <3>1, <3>2 DEF TypeInv, Task
      <4> QED BY <1>2, <2>1, <3>2, <4>1 DEF PushAdmit
    <3>5. Push(task[s].intent)
      BY <1>0, <3>1, <3>2 DEF Inspecting, Push
    <3> QED BY <2>1, <3>2, <3>3, <3>4, <3>5 DEF PushAdmit, Reconciling
  <2>2. CASE PushAgain(u)
    <3>1. holder = NoServer /\ task[u].pc = "inspected"
      BY <2>2 DEF PushAgain, AuditReadable
    <3>2. task' = [task EXCEPT ![u].pc = "executed", ![u].outcome = "done"]
      BY <2>2 DEF PushAgain, Reconciling
    <3>3. u = s /\ task'[s].id = task[s].id /\ task'[s].intent = task[s].intent
          /\ task'[s].outcome = "done"
      BY <1>0, <3>1, <3>2 DEF Locked, Task
    <3>4. Push(task[s].intent)
      BY <1>0, <3>1, <3>3 DEF Inspecting, Push
    <3> QED BY <2>2, <3>3, <3>4 DEF PushAgain, Reconciling
  <2>3. CASE Execute(u) \/ NotSent(u) \/ Post(u)
    <3>1. task[u].pc = "intended" /\ UNCHANGED <<file, told>>
      BY <2>3 DEF Execute, NotSent, Post
    <3>2. u = s
      BY <1>0, <2>3, <3>1 DEF Holding, Execute, NotSent, Post, Released
    <3>3. CASE Execute(s)
      <4>1. PICK o \in Outcomes : task' = [task EXCEPT ![s].pc = "executed", ![s].outcome = o]
        BY <3>3 DEF Execute
      <4>2. task'[s].id = task[s].id /\ task'[s].intent = task[s].intent
        BY <1>0, <4>1 DEF Task
      <4>3. SentNext(task[s].id, task[s].intent) /\ ~Push(task[s].intent)
        <5>1. PICK y \in Command : /\ commands' = Append(commands, y)
                                   /\ y.id = task[s].id /\ y.intent = task[s].intent
          <6>1. task[s].id \in RequestIds /\ task[s].intent \in Intent /\ task[s].started \in Nat
            BY <1>0, <3>1, <3>2 DEF TypeInv, Task
          <6> QED BY <3>3, <6>1 DEF Execute, Command
        <5>2. Len(commands') \in 1..Len(commands') /\ commands'[Len(commands')] = y
          BY <1>0, <5>1 DEF TypeInv, TypeOK
        <5> QED BY <3>3, <5>1, <5>2 DEF Execute, SentNext, Push
      <4> QED BY <3>1, <3>2, <4>2, <4>3
    <3>4. CASE NotSent(s)
      <4>1. task' = [task EXCEPT ![s].pc = "executed", ![s].outcome = "failed"] /\ ~Push(task[s].intent)
        BY <3>4 DEF NotSent, Push
      <4>2. task'[s].id = task[s].id /\ task'[s].intent = task[s].intent /\ task'[s].outcome = "failed"
        BY <1>0, <4>1 DEF Task
      <4> QED BY <3>1, <3>2, <4>1, <4>2
    <3>5. CASE Post(s)
      <4>1. task' = [task EXCEPT ![s].pc = "executed", ![s].outcome = "done"] /\ Push(task[s].intent)
        BY <1>0, <3>5 DEF Post, Push, Released
      <4>2. task'[s].id = task[s].id /\ task'[s].intent = task[s].intent /\ task'[s].outcome = "done"
        BY <1>0, <4>1 DEF Task
      <4> QED BY <3>1, <3>2, <4>1, <4>2
    <3> QED BY <2>3, <3>2, <3>3, <3>4, <3>5
  <2>4. CASE PushNotRecorded(u)
    <3>1. holder = NoServer /\ task' = [task EXCEPT ![u] = Idle]
      BY <2>4 DEF PushNotRecorded, AuditReadable
    <3> QED BY <1>0, <3>1 DEF Locked
  <2>5. CASE PushRefused(u)
    <3>1. task' = [task EXCEPT ![u] = Idle] /\ UNCHANGED <<file, told>>
      BY <2>5 DEF PushRefused
    <3>2. task'[s] = task[s]
      BY <1>0, <3>1
    <3> QED BY <3>1, <3>2, <1>1
  <2>6. CASE Complete(u) \/ CompletionNotRecorded(u) \/ Abandon(u)
    <3>1. holder = u /\ task' = [task EXCEPT ![u] = Idle]
      BY <1>0, <2>6 DEF Complete, CompletionNotRecorded, Abandon, Released, Locked
    <3> QED BY <1>0, <3>1 DEF Locked
  <2> QED BY <1>4, <2>1, <2>2, <2>3, <2>4, <2>5, <2>6 DEF ServerNext
<1>5. CASE PowerLoss
  BY <1>0, <1>5 DEF PowerLoss
<1>6. CASE Tick \/ Reset \/ UNCHANGED vars
  BY <1>1, <1>6 DEF Tick, Reset, vars
<1> QED BY <1>3, <1>4, <1>5, <1>6 DEF Next

\* A server takes on a power action nobody was told of, or goes on with its own.
LEMMA TasksAgreeStep ==
    ASSUME Answered, [Next]_vars
    PROVE  TasksAgree'
<1>0. /\ Safe /\ AuditAgrees /\ TasksAgree /\ ToldAgrees /\ TypeInv /\ TypeInv' /\ SyncedStays
      /\ synced' <= Len(audit') /\ synced' \in Nat /\ Len(audit') \in Nat
  <2>1. Safe /\ AuditAgrees /\ TasksAgree /\ ToldAgrees /\ TypeInv
    BY DEF Answered, Safe
  <2>2. TypeInv' /\ SyncedStays
    BY <2>1, TypeStep, AuditStep
  <2>3. synced' <= Len(audit') /\ synced' \in Nat /\ Len(audit') \in Nat
    BY <2>2 DEF TypeInv, TypeOK
  <2> QED BY <2>1, <2>2, <2>3
<1> SUFFICES ASSUME NEW s \in Servers, Holding(s)'
             PROVE  /\ \E i \in 1..Len(audit') : /\ audit'[i].id = task'[s].id
                                                 /\ audit'[i].intent = task'[s].intent
                    /\ ~Push(task'[s].intent) =>
                          /\ OnRecordNext(task'[s].id, task'[s].intent)
                          /\ told'[task'[s].id] = {}
                          /\ \A i \in 1..Len(audit') :
                                audit'[i].id = task'[s].id => audit'[i].phase = "intent"
                    /\ task'[s].pc = "executed" =>
                          /\ Push(task'[s].intent) => task'[s].outcome = "done"
                          /\ ~Push(task'[s].intent) /\ task'[s].outcome = "done" =>
                                SentNext(task'[s].id, task'[s].intent)
  BY DEF TasksAgree, Push, OnRecord, OnRecordNext, Sent, SentNext
<1>1. CASE Holding(s) /\ task'[s] = task[s] /\ UNCHANGED <<file, told>>
  BY <1>0, <1>1, EvidenceStays DEF TasksAgree, file
<1>2. CASE /\ task[s].pc = "intended" /\ UNCHANGED <<file, told>>
           /\ task'[s].id = task[s].id /\ task'[s].intent = task[s].intent
           /\ Push(task[s].intent) => task'[s].outcome = "done"
           /\ ~Push(task[s].intent) /\ task'[s].outcome = "done" =>
                 SentNext(task[s].id, task[s].intent)
  BY <1>0, <1>2, EvidenceStays DEF TasksAgree, file, Holding
<1>3. CASE /\ NewRequest(task'[s].id) /\ OnRecordNext(task'[s].id, task'[s].intent)
           /\ UNCHANGED told
           /\ task'[s].pc = "executed" => Push(task'[s].intent) /\ task'[s].outcome = "done"
  <2>1. PICK i \in 1..synced' : audit'[i].id = task'[s].id /\ audit'[i].intent = task'[s].intent
    BY <1>3 DEF OnRecordNext
  <2>2. i \in 1..Len(audit')
    BY <1>0
  <2>3. told'[task'[s].id] = {}
    <3> SUFFICES ASSUME NEW t \in told[task'[s].id]
                 PROVE  FALSE
      BY <1>3
    <3>1. task'[s].id \in RequestIds
      BY <1>0 DEF TypeInv, Holding
    <3>2. PICK k \in 1..synced : audit[k].id = task'[s].id
      BY <1>0, <3>1 DEF ToldAgrees, Kept
    <3>3. k \in 1..Len(audit)
      BY <1>0 DEF TypeInv, TypeOK
    <3> QED BY <1>3, <3>2, <3>3 DEF NewRequest
  <2>4. ASSUME NEW k \in 1..Len(audit'), audit'[k].id = task'[s].id
        PROVE  audit'[k].phase = "intent"
    <3>1. CASE OldRecord(k)
      BY <1>3, <2>4, <3>1 DEF OldRecord, NewRequest
    <3>2. CASE NewIntent(audit'[k])
      BY <3>2 DEF NewIntent
    <3>3. ASSUME NEW u \in Servers, task[u].pc = "executed", audit'[k] = CompletionOf(u)
          PROVE  FALSE
      <4>1. \E m \in 1..Len(audit) : audit[m].id = task[u].id
        BY <1>0, <3>3 DEF TasksAgree, Holding
      <4> QED BY <1>3, <2>4, <3>3, <4>1 DEF NewRequest, CompletionOf, Completion, IntentRecord
    <3> QED BY <1>0, <3>1, <3>2, <3>3, AuditStep DEF NewCompletion
  <2> QED BY <1>3, <2>1, <2>2, <2>3, <2>4
<1>4. CASE /\ SameIntent(task'[s].id, task'[s].intent) /\ Push(task'[s].intent)
           /\ task'[s].outcome = "done" /\ UNCHANGED <<file, told>>
  BY <1>4 DEF SameIntent, LastRecord, file
<1> QED BY <1>0, <1>1, <1>2, <1>3, <1>4, HeldStep

\* A client is told what a completion says, or what was just completed durably.
LEMMA ToldStep ==
    ASSUME Answered, [Next]_vars
    PROVE  \/ UNCHANGED told
           \/ \E i \in 1..Len(audit) :
                 /\ audit[i].phase = "complete" /\ ~Push(audit[i].intent) /\ UNCHANGED file
                 /\ told' = [told EXCEPT ![audit[i].id] = @ \cup
                               {[intent |-> audit[i].intent, outcome |-> audit[i].outcome]}]
           \/ \E s \in Servers :
                 /\ task[s].pc = "executed" /\ AppendAuditRecord(CompletionOf(s))
                 /\ told' = [told EXCEPT ![task[s].id] = @ \cup
                               {[intent |-> task[s].intent, outcome |-> task[s].outcome]}]
<1>0. AuditAgrees /\ Len(audit) \in Nat
  BY DEF Answered, Safe, TypeInv, TypeOK
<1>1. ASSUME NEW s \in Servers, NEW id \in RequestIds, NEW x \in Requested, Replay(s, id, x)
      PROVE  \E i \in 1..Len(audit) :
                 /\ audit[i].phase = "complete" /\ ~Push(audit[i].intent) /\ UNCHANGED file
                 /\ told' = [told EXCEPT ![audit[i].id] = @ \cup
                               {[intent |-> audit[i].intent, outcome |-> audit[i].outcome]}]
  <2>1. PICK i \in 1..Len(audit) :
           /\ audit[i].id = id /\ audit[i].phase = "complete"
           /\ told' = [told EXCEPT ![id] = @ \cup {[intent |-> x, outcome |-> audit[i].outcome]}]
    BY <1>1 DEF Replay, LastRecord
  <2>2. audit[i].intent = x
    BY <1>0, <1>1, <2>1 DEF Replay, SameIntent, LastRecord, AuditAgrees
  <2>3. ~Push(x) /\ UNCHANGED file
    BY <1>1 DEF Replay, Push
  <2> QED BY <2>1, <2>2, <2>3
<1>2. ASSUME NEW s \in Servers, Complete(s)
      PROVE  /\ task[s].pc = "executed" /\ AppendAuditRecord(CompletionOf(s))
             /\ told' = [told EXCEPT ![task[s].id] = @ \cup
                           {[intent |-> task[s].intent, outcome |-> task[s].outcome]}]
  BY <1>2 DEF Complete, CompletionOf
<1> QED BY <1>1, <1>2
        DEF Next, RequestNext, ServerNext, Admit, IntentNotRecorded, Inspect, Execute, NotSent,
            PushAdmit, PushAgain, PushNotRecorded, PushRefused, Post, Reconciling,
            CompletionNotRecorded, Abandon, PowerLoss, Tick, Reset, vars

\* An answer given once stands.
LEMMA ToldStands ==
    ASSUME Answered, [Next]_vars, NEW id \in RequestIds, NEW t \in told[id]
    PROVE  /\ KeptNext(id, t.intent)
           /\ Push(t.intent) => t.outcome = "done"
           /\ ~Push(t.intent) /\ t.outcome = "done" => SentNext(id, t.intent)
           /\ \A i \in 1..Len(audit') :
                 audit'[i].id = id /\ audit'[i].phase = "complete" => audit'[i].outcome = t.outcome
<1>0. Safe /\ ToldAgrees /\ TypeInv
  BY DEF Answered, Safe
<1>1. /\ KeptNext(id, t.intent)
      /\ Push(t.intent) => t.outcome = "done"
      /\ ~Push(t.intent) /\ t.outcome = "done" => SentNext(id, t.intent)
  BY <1>0, EvidenceStays DEF ToldAgrees
<1>2. ASSUME NEW i \in 1..Len(audit'), audit'[i].id = id, audit'[i].phase = "complete"
      PROVE  audit'[i].outcome = t.outcome
  <2>1. CASE OldRecord(i)
    BY <1>0, <1>2, <2>1 DEF ToldAgrees, OldRecord
  <2>2. CASE NewIntent(audit'[i])
    BY <1>2, <2>2 DEF NewIntent
  <2>3. ASSUME NEW s \in Servers, task[s].pc = "executed", audit'[i] = CompletionOf(s)
        PROVE  audit'[i].outcome = t.outcome
    <3>1. audit'[i].id = task[s].id /\ audit'[i].outcome = task[s].outcome
      BY <2>3 DEF CompletionOf, Completion, IntentRecord
    <3> QED BY <1>2, <2>3, <3>1, HeldFits DEF Holding
  <2> QED BY <1>0, <2>1, <2>2, <2>3, AuditStep DEF NewCompletion
<1> QED BY <1>1, <1>2

LEMMA ToldAgreesStep ==
    ASSUME Answered, [Next]_vars
    PROVE  ToldAgrees'
<1>0. /\ Safe /\ AuditAgrees /\ TasksAgree /\ ToldAgrees /\ TypeInv /\ FileTyped
      /\ told \in [RequestIds -> SUBSET [intent : Intent, outcome : Outcomes]]
  BY DEF Answered, Safe, TypeInv, TypeOK, FileTyped
<1> SUFFICES ASSUME NEW id \in RequestIds, NEW t \in told'[id]
             PROVE  /\ KeptNext(id, t.intent)
                    /\ Push(t.intent) => t.outcome = "done"
                    /\ ~Push(t.intent) /\ t.outcome = "done" => SentNext(id, t.intent)
                    /\ \A i \in 1..Len(audit') :
                          audit'[i].id = id /\ audit'[i].phase = "complete" =>
                              audit'[i].outcome = t.outcome
                    /\ \A t2 \in told'[id] : t = t2
  BY DEF ToldAgrees, Kept, KeptNext, Sent, SentNext, Push
<1>1. CASE UNCHANGED told
  BY <1>0, <1>1, ToldStands DEF ToldAgrees
<1>2. ASSUME NEW i \in 1..Len(audit), audit[i].phase = "complete", ~Push(audit[i].intent),
             UNCHANGED file,
             told' = [told EXCEPT ![audit[i].id] = @ \cup
                        {[intent |-> audit[i].intent, outcome |-> audit[i].outcome]}]
      PROVE  /\ KeptNext(id, t.intent)
             /\ Push(t.intent) => t.outcome = "done"
             /\ ~Push(t.intent) /\ t.outcome = "done" => SentNext(id, t.intent)
             /\ \A k \in 1..Len(audit') :
                   audit'[k].id = id /\ audit'[k].phase = "complete" => audit'[k].outcome = t.outcome
             /\ \A t2 \in told'[id] : t = t2
  <2> DEFINE answer == [intent |-> audit[i].intent, outcome |-> audit[i].outcome]
  <2>0. audit[i].id \in RequestIds
    <3>1. audit[i] \in Record
      BY <1>0 DEF FileTyped
    <3> QED BY <3>1 DEF Record
  <2>1. CASE id # audit[i].id
    <3>1. told'[id] = told[id]
      BY <1>0, <1>2, <2>1
    <3> QED BY <1>0, <3>1, ToldStands DEF ToldAgrees
  <2>2. CASE id = audit[i].id
    <3>1. told'[id] = told[id] \cup {answer}
      BY <1>0, <1>2, <2>0, <2>2
    <3>2. \A u \in told[id] : u = answer
      <4> SUFFICES ASSUME NEW u \in told[id] PROVE u = answer
        OBVIOUS
      <4>1. u \in [intent : Intent, outcome : Outcomes] /\ u.outcome = audit[i].outcome
        BY <1>0, <1>2, <2>2 DEF ToldAgrees
      <4>2. PICK k \in 1..synced : audit[k].id = id /\ audit[k].intent = u.intent
        BY <1>0 DEF ToldAgrees, Kept
      <4>3. u.intent = audit[i].intent
        BY <1>0, <2>2, <4>2 DEF FileTyped, AuditAgrees
      <4> QED BY <4>1, <4>3
    <3>3. /\ KeptNext(id, answer.intent)
          /\ answer.outcome = "done" => SentNext(id, answer.intent)
      BY <1>0, <1>2, <2>2, EvidenceStays DEF AuditAgrees
    <3>4. \A k \in 1..Len(audit') :
             audit'[k].id = id /\ audit'[k].phase = "complete" => audit'[k].outcome = answer.outcome
      BY <1>0, <1>2, <2>2 DEF AuditAgrees, file
    <3> QED BY <1>2, <3>1, <3>2, <3>3, <3>4
  <2> QED BY <2>1, <2>2
<1>3. ASSUME NEW s \in Servers, task[s].pc = "executed", AppendAuditRecord(CompletionOf(s)),
             told' = [told EXCEPT ![task[s].id] = @ \cup
                        {[intent |-> task[s].intent, outcome |-> task[s].outcome]}]
      PROVE  /\ KeptNext(id, t.intent)
             /\ Push(t.intent) => t.outcome = "done"
             /\ ~Push(t.intent) /\ t.outcome = "done" => SentNext(id, t.intent)
             /\ \A k \in 1..Len(audit') :
                   audit'[k].id = id /\ audit'[k].phase = "complete" => audit'[k].outcome = t.outcome
             /\ \A t2 \in told'[id] : t = t2
  <2> DEFINE answer == [intent |-> task[s].intent, outcome |-> task[s].outcome]
  <2>0. /\ task[s].id \in RequestIds /\ task[s].intent \in Intent /\ task[s].started \in Nat
        /\ task[s].outcome \in Outcomes /\ Holding(s)
    BY <1>0, <1>3 DEF TypeInv, TypeOK, Task, Holding
  <2>1. CASE id # task[s].id
    <3>1. told'[id] = told[id]
      BY <1>0, <1>3, <2>1
    <3> QED BY <1>0, <3>1, ToldStands DEF ToldAgrees
  <2>2. CASE id = task[s].id
    <3>1. told'[id] = told[id] \cup {answer}
      BY <1>0, <1>3, <2>0, <2>2
    <3>2. \A u \in told[id] : u = answer
      <4> SUFFICES ASSUME NEW u \in told[id] PROVE u = answer
        OBVIOUS
      <4>1. u \in [intent : Intent, outcome : Outcomes]
        BY <1>0
      <4>2. u.intent = task[s].intent /\ u.outcome = task[s].outcome
        BY <1>3, <2>0, <2>2, HeldFits
      <4> QED BY <4>1, <4>2
    <3>3. KeptNext(id, answer.intent)
      <4>1. CompletionOf(s) \in Record
        BY <2>0, DataTyped DEF CompletionOf
      <4>2. /\ synced' \in 1..synced' /\ audit'[synced'] = CompletionOf(s)
        BY <1>0, <1>3, <4>1, AppendRecords DEF FileTyped
      <4> QED BY <2>2, <4>2 DEF KeptNext, CompletionOf, Completion, IntentRecord
    <3>4. /\ Push(answer.intent) => answer.outcome = "done"
          /\ ~Push(answer.intent) /\ answer.outcome = "done" => SentNext(id, answer.intent)
      BY <1>0, <1>3, <2>0, <2>2, EvidenceStays DEF TasksAgree
    <3>5. ASSUME NEW k \in 1..Len(audit'), audit'[k].id = id, audit'[k].phase = "complete"
          PROVE  audit'[k].outcome = answer.outcome
      <4>1. CASE OldRecord(k)
        BY <1>3, <2>0, <2>2, <3>5, <4>1, HeldFits DEF OldRecord
      <4>2. CASE audit'[k] = CompletionOf(s)
        BY <4>2 DEF CompletionOf, Completion, IntentRecord
      <4>3. OldRecord(k) \/ audit'[k] = CompletionOf(s)
        BY <1>0, <1>3 DEF AppendAuditRecord, FileTyped, OldRecord
      <4> QED BY <4>1, <4>2, <4>3
    <3> QED BY <3>1, <3>2, <3>3, <3>4, <3>5
  <2> QED BY <2>1, <2>2
<1> QED BY <1>1, <1>2, <1>3, ToldStep

LEMMA AnsweredInit == Init => Answered
<1>1. ASSUME Init PROVE AuditAgrees /\ TasksAgree /\ ToldAgrees
  <2>1. \A s \in Servers : ~Holding(s)
    BY <1>1 DEF Init, Idle, Holding
  <2>2. Len(audit) = 0 /\ \A id \in RequestIds : told[id] = {}
    BY <1>1 DEF Init
  <2> QED BY <2>1, <2>2 DEF AuditAgrees, TasksAgree, ToldAgrees
<1> QED BY <1>1, SafeInit DEF Answered

THEOREM AnsweredInvariant == Spec => []Answered
<1>1. Answered /\ [Next]_vars => Answered'
  BY SafeStep, AuditAgreesStep, TasksAgreeStep, ToldAgreesStep DEF Answered
<1> QED BY AnsweredInit, <1>1, PTL DEF Spec

\* All who ask with one request identifier hear one outcome of one intent, and
\* a power action is called done only when its command was sent.
THEOREM OneAnswer == Spec => []AnswersAgree
<1>1. Answered => AnswersAgree
  BY DEF Answered, ToldAgrees, AnswersAgree, Push, Sent
<1> QED BY <1>1, AnsweredInvariant, PTL

-----------------------------------------------------------------------------
(* The fence around host recoveries *)

\* The intent of a task or a command is in the durable part of the file.
Documented(c) == \E i \in 1..synced : audit[i] = IntentRecord(c.id, c.intent, c.started)
DocumentedNext(c) == \E i \in 1..synced' : audit'[i] = IntentRecord(c.id, c.intent, c.started)

Documents ==
    /\ \A s \in Servers : task[s].pc = "intended" => Documented(task[s])
    /\ \A c \in 1..Len(commands) : Documented(commands[c])

\* The completion of the command at i and, behind it, the intent of a request are
\* where no power loss can take them.
ResolvedBefore(i, id) ==
    \E a, b \in 1..synced :
        /\ a < b
        /\ audit[a].phase = "complete" /\ audit[a].id = commands[i].id
        /\ audit[b].phase = "intent" /\ audit[b].id = id
ResolvedBeforeNext(i, id) ==
    \E a, b \in 1..synced' :
        /\ a < b
        /\ audit'[a].phase = "complete" /\ audit'[a].id = commands'[i].id
        /\ audit'[b].phase = "intent" /\ audit'[b].id = id

\* The host recoveries among the first n commands whose day has not passed at t.
RecoveriesOfDay(n, t) ==
    {i \in 1..n : commands[i].intent.op = "host_recovery" /\ t < commands[i].started + Day}
RecoveriesOfDayNext(n, t) ==
    {i \in 1..n : commands'[i].intent.op = "host_recovery" /\ t < commands'[i].started + Day}

\* Task or command c, when it is a host recovery, may follow the first n commands.
FencedAfter(n, c) ==
    c.intent.op = "host_recovery" =>
        /\ \A i \in 1..n :
              commands[i].intent.device = c.intent.device =>
                  /\ ResolvedBefore(i, c.id)
                  /\ commands[i].started + Cooldown <= c.started
                  /\ commands[i].intent # c.intent
        /\ Cardinality(RecoveriesOfDay(n, c.started)) < DailyBudget
FencedAfterNext(n, c) ==
    c.intent.op = "host_recovery" =>
        /\ \A i \in 1..n :
              commands'[i].intent.device = c.intent.device =>
                  /\ ResolvedBeforeNext(i, c.id)
                  /\ commands'[i].started + Cooldown <= c.started
                  /\ commands'[i].intent # c.intent
        /\ Cardinality(RecoveriesOfDayNext(n, c.started)) < DailyBudget

\* What was sent was fenced, and so is what a server is about to send.
Fenced ==
    /\ \A s \in Servers : task[s].pc = "intended" => FencedAfter(Len(commands), task[s])
    /\ \A k \in 1..Len(commands) : FencedAfter(k - 1, commands[k])

FenceInv == Safe /\ Documents /\ Fenced

\* Records and commands that stay keep what was documented and fenced so.
LEMMA FenceStays ==
    ASSUME TypeInv, TypeInv', SyncedStays, NEW n \in 0..Len(commands), n <= Len(commands'),
           \A i \in 1..n : commands'[i] = commands[i],
           NEW c
    PROVE  /\ Documented(c) => DocumentedNext(c)
           /\ FencedAfter(n, c) => FencedAfterNext(n, c)
<1>1. /\ synced \in Nat /\ synced' \in Nat /\ synced <= synced'
      /\ \A i \in 1..synced : i \in 1..synced' /\ audit'[i] = audit[i]
  BY DEF TypeInv, TypeOK, SyncedStays
<1>2. Documented(c) => DocumentedNext(c)
  BY <1>1 DEF Documented, DocumentedNext
<1>3. RecoveriesOfDay(n, c.started) = RecoveriesOfDayNext(n, c.started)
  BY DEF RecoveriesOfDay, RecoveriesOfDayNext
<1>4. \A i \in 1..n : ResolvedBefore(i, c.id) => ResolvedBeforeNext(i, c.id)
  BY <1>1 DEF ResolvedBefore, ResolvedBeforeNext
<1> QED BY <1>2, <1>3, <1>4 DEF FencedAfter, FencedAfterNext

\* A server comes to intend a power action when it admits it.
LEMMA ActionAdmitted ==
    ASSUME Safe, [Next]_vars, NEW s \in Servers, task'[s].pc = "intended"
    PROVE  \/ task[s].pc = "intended" /\ task'[s] = task[s]
           \/ /\ Admit(s, task'[s].id, task'[s].intent)
              /\ task'[s].started = now /\ task'[s].id \in RequestIds
           \/ /\ Push(task'[s].intent) /\ task'[s].id \in RequestIds
              /\ task'[s].intent \in Intent
              /\ AppendAuditRecord(IntentRecord(task'[s].id, task'[s].intent, now))
<1>0. /\ TypeInv /\ Inspecting /\ task \in [Servers -> Task] /\ task[s] \in Task
      /\ Idle.pc = "idle"
  BY DEF Safe, TypeInv, TypeOK, Idle
<1>1. CASE task'[s] = task[s]
  BY <1>1
<1>2. ASSUME NEW u \in Servers, NEW id \in RequestIds, NEW x \in Requested,
             RequestNext(u, id, x), task'[s] # task[s]
      PROVE  /\ Admit(s, task'[s].id, task'[s].intent)
             /\ task'[s].started = now /\ task'[s].id \in RequestIds
  <2>1. CASE Inspect(u, id, x)
    BY <1>0, <1>2, <2>1 DEF Inspect, Idle
  <2>2. CASE Admit(u, id, x)
    <3>1. u = s /\ task'[s].id = id /\ task'[s].intent = x /\ task'[s].started = now
      BY <1>0, <1>2, <2>2 DEF Admit, Idle
    <3> QED BY <2>2, <3>1
  <2> QED BY <1>2, <2>1, <2>2 DEF RequestNext, IntentNotRecorded, Replay
<1>3. ASSUME NEW u \in Servers, ServerNext(u), task'[s] # task[s]
      PROVE  /\ Push(task'[s].intent) /\ task'[s].id \in RequestIds
             /\ task'[s].intent \in Intent
             /\ AppendAuditRecord(IntentRecord(task'[s].id, task'[s].intent, now))
  <2>1. CASE PushAdmit(u)
    <3>1. u = s /\ task[s].pc = "inspected"
      BY <1>0, <1>3, <2>1 DEF PushAdmit, Reconciling
    <3>2. task'[s].id = task[s].id /\ task'[s].intent = task[s].intent
      BY <1>0, <2>1, <3>1 DEF PushAdmit, Reconciling, Task
    <3>3. Push(task[s].intent) /\ task[s].id \in RequestIds /\ task[s].intent \in Intent
      BY <1>0, <3>1 DEF Inspecting, Push, TypeInv, Task
    <3>4. AppendAuditRecord(IntentRecord(task[s].id, task[s].intent, now))
      BY <2>1, <3>1 DEF PushAdmit
    <3> QED BY <3>2, <3>3, <3>4
  <2>2. CASE PushAgain(u)
    <3>1. task' = [task EXCEPT ![u].pc = "executed", ![u].outcome = "done"]
      BY <2>2 DEF PushAgain, Reconciling
    <3> QED BY <1>0, <1>3, <3>1 DEF Task
  <2>3. CASE Execute(u) \/ NotSent(u) \/ Post(u)
    <3>1. \/ task' = [task EXCEPT ![u] = Idle]
          \/ \E o : task' = [task EXCEPT ![u].pc = "executed", ![u].outcome = o]
      BY <2>3 DEF Execute, NotSent, Post, Released
    <3> QED BY <1>0, <1>3, <3>1 DEF Task
  <2>4. CASE PushNotRecorded(u) \/ PushRefused(u) \/ Complete(u) \/ CompletionNotRecorded(u)
             \/ Abandon(u)
    <3>1. task' = [task EXCEPT ![u] = Idle]
      BY <2>4 DEF PushNotRecorded, PushRefused, Complete, CompletionNotRecorded, Abandon, Released
    <3> QED BY <1>0, <1>3, <3>1
  <2> QED BY <1>3, <2>1, <2>2, <2>3, <2>4 DEF ServerNext
<1>4. CASE PowerLoss
  BY <1>0, <1>4 DEF PowerLoss
<1> QED BY <1>1, <1>2, <1>3, <1>4 DEF Next, Tick, Reset, vars

LEMMA HistoryFinite ==
    ASSUME TypeInv, NEW T \in SUBSET HistoryIntents
    PROVE  IsFiniteSet(T)
<1> DEFINE J == {k \in 1..Len(audit) : audit[k].phase = "intent"}
           g == [k \in J |-> audit[k]]
<1>1. IsFiniteSet(1..Len(audit))
  <2>1. Len(audit) \in Int
    BY DEF TypeInv, TypeOK
  <2> QED BY <2>1, FS_Interval
<1>2. IsFiniteSet(J)
  BY <1>1, FS_Subset
<1>3. g \in Surjection(J, HistoryIntents)
  BY DEF Surjection, HistoryIntents
<1>4. IsFiniteSet(HistoryIntents)
  BY <1>2, <1>3, FS_Surjection
<1> QED BY <1>4, FS_Subset

\* The history that lets a host recovery pass covers every command ever sent: each
\* has an intent of its own there.
LEMMA HistoryFences ==
    ASSUME FenceInv, NEW s \in Servers, NEW id \in RequestIds, NEW x \in Requested,
           x.op = "host_recovery", Admit(s, id, x)
    PROVE  /\ \A i \in 1..Len(commands) :
                 commands[i].intent.device = x.device =>
                     /\ Completed(commands[i].id)
                     /\ commands[i].started + Cooldown <= now
                     /\ commands[i].intent # x
           /\ Cardinality(RecoveriesOfDay(Len(commands), now)) < DailyBudget
<1> DEFINE Written(i) == IntentRecord(commands[i].id, commands[i].intent, commands[i].started)
<1>0. /\ TypeInv /\ Documents /\ RequestCommandedOnce
      /\ ~MalformedHistory /\ ~Unresolved(x.device) /\ ~CoolingDown(x.device)
      /\ ~Acknowledged(x.device, x.outage) /\ ~BudgetSpent
  BY DEF FenceInv, Safe, Admit, Admissible, HostRecoveryHistoryBlocker
<1>1. \A i \in 1..Len(commands) :
         /\ Written(i) \in HistoryIntents
         /\ Written(i).id = commands[i].id /\ Written(i).intent = commands[i].intent
         /\ Written(i).started = commands[i].started
  <2> SUFFICES ASSUME NEW i \in 1..Len(commands)
               PROVE  /\ Written(i) \in HistoryIntents
                      /\ Written(i).id = commands[i].id /\ Written(i).intent = commands[i].intent
                      /\ Written(i).started = commands[i].started
    OBVIOUS
  <2>1. PICK k \in 1..synced : audit[k] = Written(i)
    BY <1>0 DEF Documents, Documented
  <2>2. k \in 1..Len(audit) /\ Written(i).phase = "intent"
    BY <1>0 DEF TypeInv, TypeOK, IntentRecord
  <2>3. Written(i) \in HistoryIntents
    BY <2>1, <2>2 DEF HistoryIntents
  <2>4. Written(i).started # 0
    BY <1>0, <2>3 DEF MalformedHistory
  <2> QED BY <2>3, <2>4 DEF IntentRecord
<1>2. commands \in Seq(Command) /\ now \in Nat /\ Cooldown \in Nat /\ x \in Intent
  BY <1>0, ActionsAssumption, DataTyped DEF TypeInv, TypeOK
<1>3. ASSUME NEW i \in 1..Len(commands), commands[i].intent.device = x.device
      PROVE  /\ Completed(commands[i].id)
             /\ commands[i].started + Cooldown <= now
             /\ commands[i].intent # x
  <2>1. Completed(commands[i].id)
    BY <1>0, <1>1, <1>3 DEF Unresolved
  <2>2. ~(now < commands[i].started + Cooldown)
    BY <1>0, <1>1, <1>3 DEF CoolingDown
  <2>3. commands[i].started \in Nat
    <3>1. commands[i] \in Command
      BY <1>2
    <3> QED BY <3>1 DEF Command
  <2>4. x = [op |-> "host_recovery", device |-> x.device, outage |-> x.outage]
    BY <1>2 DEF Intent
  <2>5. commands[i].intent # x
    BY <1>0, <1>1, <2>4 DEF Acknowledged
  <2> QED BY <1>2, <2>1, <2>2, <2>3, <2>5
<1>4. Cardinality(RecoveriesOfDay(Len(commands), now)) < DailyBudget
  <2> DEFINE I == RecoveriesOfDay(Len(commands), now)
             T == {r \in HistoryIntents : r.intent.op = "host_recovery" /\ now < r.started + Day}
             f == [i \in I |-> Written(i)]
  <2>1. IsFiniteSet(T)
    BY <1>0, HistoryFinite
  <2>2. \A i \in I : i \in 1..Len(commands) /\ Written(i) \in T
    BY <1>1 DEF RecoveriesOfDay
  <2>3. \A i, j \in I : Written(i) = Written(j) => i = j
    BY <1>0, <1>1, <2>2 DEF RequestCommandedOnce
  <2>4. f \in Injection(I, T)
    BY <2>2, <2>3 DEF Injection, IsInjective
  <2>5. IsFiniteSet(I) /\ Cardinality(I) <= Cardinality(T)
    BY <2>1, <2>4, FS_Injection
  <2>6. Cardinality(I) \in Nat /\ Cardinality(T) \in Nat
    BY <2>1, <2>5, FS_CardinalityType
  <2>7. ~(Cardinality(T) >= DailyBudget)
    BY <1>0 DEF BudgetSpent
  <2> QED BY <2>5, <2>6, <2>7, ActionsAssumption
<1> QED BY <1>3, <1>4

LEMMA FenceInit == Init => FenceInv
<1>1. ASSUME Init PROVE Documents /\ Fenced
  <2>1. \A s \in Servers : task[s].pc = "idle"
    BY <1>1 DEF Init, Idle
  <2>2. Len(commands) = 0
    BY <1>1 DEF Init
  <2> QED BY <2>1, <2>2 DEF Documents, Fenced
<1> QED BY <1>1, SafeInit DEF FenceInv

\* A server that newly intends a command has documented it and passed the fence.
LEMMA IntendedIsFenced ==
    ASSUME FenceInv, [Next]_vars, UNCHANGED commands, NEW s \in Servers, task'[s].pc = "intended"
    PROVE  DocumentedNext(task'[s]) /\ FencedAfterNext(Len(commands), task'[s])
<1>0. Safe /\ TypeInv /\ Documents /\ Fenced /\ TypeInv' /\ SyncedStays /\ FileTyped
  BY TypeStep, AuditStep DEF FenceInv, Safe, TypeInv, TypeOK, FileTyped
<1>1. ASSUME NEW id \in RequestIds, NEW x \in Intent, AppendAuditRecord(IntentRecord(id, x, now))
      PROVE  /\ synced' = Len(audit') /\ synced' \in 1..synced'
             /\ audit'[synced'] = IntentRecord(id, x, now)
             /\ synced' = Len(audit) + 1 /\ \A i \in 1..Len(audit) : audit'[i] = audit[i]
  <2>1. IntentRecord(id, x, now) \in Record
    BY <1>0, DataTyped DEF TypeInv, TypeOK
  <2>2. /\ synced' = Len(audit') /\ synced' > 0 /\ audit'[synced'] = IntentRecord(id, x, now)
        /\ synced' \in Nat
    BY <1>0, <1>1, <2>1, AppendRecords DEF FileTyped
  <2>3. Len(audit') = Len(audit) + 1 /\ \A i \in 1..Len(audit) : audit'[i] = audit[i]
    BY <1>0, <1>1 DEF AppendAuditRecord, FileTyped
  <2> QED BY <2>2, <2>3
<1>2. CASE task[s].pc = "intended" /\ task'[s] = task[s]
  <2>1. /\ Len(commands) \in 0..Len(commands) /\ Len(commands) <= Len(commands')
        /\ \A i \in 1..Len(commands) : commands'[i] = commands[i]
    BY <1>0 DEF TypeInv, TypeOK
  <2>2. Documented(task[s]) /\ FencedAfter(Len(commands), task[s])
    BY <1>0, <1>2 DEF Documents, Fenced
  <2> QED BY <1>0, <1>2, <2>1, <2>2, FenceStays
<1>3. CASE /\ Admit(s, task'[s].id, task'[s].intent)
           /\ task'[s].started = now /\ task'[s].id \in RequestIds
  <2> DEFINE id == task'[s].id  x == task'[s].intent
  <2>1. x \in Requested /\ x \in Intent /\ AppendAuditRecord(IntentRecord(id, x, now))
    BY <1>3, DataTyped DEF Admit, Admissible
  <2>2. DocumentedNext(task'[s])
    BY <1>1, <1>3, <2>1 DEF DocumentedNext
  <2>3. ASSUME x.op = "host_recovery"
        PROVE  FencedAfterNext(Len(commands), task'[s])
    <3>1. /\ \A i \in 1..Len(commands) :
                commands[i].intent.device = x.device =>
                    /\ Completed(commands[i].id)
                    /\ commands[i].started + Cooldown <= now
                    /\ commands[i].intent # x
          /\ Cardinality(RecoveriesOfDay(Len(commands), now)) < DailyBudget
      BY <1>3, <2>1, <2>3, HistoryFences
    <3>2. ASSUME NEW i \in 1..Len(commands), Completed(commands[i].id)
          PROVE  ResolvedBeforeNext(i, id)
      <4>1. PICK a \in 1..Len(audit) : audit[a].phase = "complete" /\ audit[a].id = commands[i].id
        BY <3>2 DEF Completed
      <4>2. /\ a \in 1..synced' /\ a < synced' /\ audit'[a] = audit[a]
            /\ audit'[synced'].phase = "intent" /\ audit'[synced'].id = id
            /\ synced' \in 1..synced'
        <5>1. Len(audit) \in Nat
          BY <1>0 DEF TypeInv, TypeOK
        <5> QED BY <1>1, <1>3, <2>1, <5>1 DEF IntentRecord
      <4> QED BY <4>1, <4>2 DEF ResolvedBeforeNext
    <3>3. RecoveriesOfDayNext(Len(commands), now) = RecoveriesOfDay(Len(commands), now)
      BY DEF RecoveriesOfDay, RecoveriesOfDayNext
    <3> QED BY <1>3, <3>1, <3>2, <3>3 DEF FencedAfterNext
  <2> QED BY <2>2, <2>3 DEF FencedAfterNext
<1>4. CASE /\ Push(task'[s].intent) /\ task'[s].id \in RequestIds
           /\ task'[s].intent \in Intent
           /\ AppendAuditRecord(IntentRecord(task'[s].id, task'[s].intent, now))
  <2>1. IntentRecord(task'[s].id, task'[s].intent, now)
          = IntentRecord(task'[s].id, task'[s].intent, task'[s].started)
    BY <1>4 DEF IntentRecord, Push
  <2>2. DocumentedNext(task'[s])
    BY <1>1, <1>4, <2>1 DEF DocumentedNext
  <2> QED BY <1>4, <2>2 DEF FencedAfterNext, Push
<1> QED BY <1>0, <1>2, <1>3, <1>4, ActionAdmitted

LEMMA FenceStep ==
    ASSUME FenceInv, [Next]_vars
    PROVE  FenceInv'
<1>0. /\ Safe /\ TypeInv /\ Locked /\ Documents /\ Fenced
      /\ Safe' /\ TypeInv' /\ SyncedStays /\ commands \in Seq(Command)
  BY TypeStep, AuditStep, SafeStep DEF FenceInv, Safe, TypeInv, TypeOK
<1>1. CASE UNCHANGED commands
  <2>1. ASSUME NEW s \in Servers, task'[s].pc = "intended"
        PROVE  DocumentedNext(task'[s]) /\ FencedAfterNext(Len(commands'), task'[s])
    BY <1>1, <2>1, IntendedIsFenced
  <2>2. ASSUME NEW k \in 1..Len(commands)
        PROVE  DocumentedNext(commands'[k]) /\ FencedAfterNext(k - 1, commands'[k])
    <3>1. /\ k - 1 \in 0..Len(commands) /\ k - 1 <= Len(commands')
          /\ \A i \in 1..(k - 1) : commands'[i] = commands[i]
      BY <1>0, <1>1
    <3>2. Documented(commands[k]) /\ FencedAfter(k - 1, commands[k])
      BY <1>0 DEF Documents, Fenced
    <3> QED BY <1>0, <1>1, <3>1, <3>2, FenceStays
  <2>3. Documents'
    BY <1>1, <2>1, <2>2 DEF Documents, Documented, DocumentedNext
  <2>4. Fenced'
    BY <1>1, <2>1, <2>2
       DEF Fenced, FencedAfter, FencedAfterNext, ResolvedBefore, ResolvedBeforeNext,
           RecoveriesOfDay, RecoveriesOfDayNext
  <2> QED BY <1>0, <2>3, <2>4 DEF FenceInv
<1>2. ASSUME NEW s \in Servers, NEW t \in Nat, task[s].pc = "intended",
             task[s].intent.op # "event_push" => t = task[s].started,
             commands' = Append(commands, [id |-> task[s].id, intent |-> task[s].intent,
                                           started |-> t]),
             \A u \in Servers : task'[u].pc # "intended"
      PROVE  FenceInv'
  <2> DEFINE n == Len(commands)
             c == [id |-> task[s].id, intent |-> task[s].intent, started |-> t]
  <2>1. /\ n \in Nat /\ n \in 0..n /\ Len(commands') = n + 1 /\ commands'[n + 1] = c
        /\ \A i \in 1..n : commands'[i] = commands[i]
    BY <1>0, <1>2
  <2>2. Documented(c) /\ FencedAfter(n, c)
    <3>1. Documented(task[s]) /\ FencedAfter(n, task[s])
      BY <1>0, <1>2 DEF Documents, Fenced
    <3>2. IntentRecord(c.id, c.intent, c.started)
            = IntentRecord(task[s].id, task[s].intent, task[s].started)
      BY <1>2 DEF IntentRecord
    <3>3. Documented(c)
      BY <3>1, <3>2 DEF Documented
    <3> QED BY <1>2, <3>1, <3>3 DEF FencedAfter
  <2>3. \A k \in 1..(n + 1) : DocumentedNext(commands'[k]) /\ FencedAfterNext(k - 1, commands'[k])
    <3> SUFFICES ASSUME NEW k \in 1..(n + 1)
                 PROVE  DocumentedNext(commands'[k]) /\ FencedAfterNext(k - 1, commands'[k])
      OBVIOUS
    <3>1. /\ k - 1 \in 0..n /\ k - 1 <= Len(commands')
          /\ \A i \in 1..(k - 1) : commands'[i] = commands[i]
      BY <2>1
    <3>2. Documented(commands'[k]) /\ FencedAfter(k - 1, commands'[k])
      <4>1. CASE k \in 1..n
        BY <1>0, <2>1, <4>1 DEF Documents, Fenced
      <4>2. CASE k = n + 1
        BY <2>1, <2>2, <4>2
      <4> QED BY <2>1, <4>1, <4>2
    <3> QED BY <1>0, <3>1, <3>2, FenceStays
  <2>4. Documents'
    BY <1>2, <2>1, <2>3 DEF Documents, Documented, DocumentedNext
  <2>5. Fenced'
    BY <1>2, <2>1, <2>3
       DEF Fenced, FencedAfter, FencedAfterNext, ResolvedBefore, ResolvedBeforeNext,
           RecoveriesOfDay, RecoveriesOfDayNext
  <2> QED BY <1>0, <2>4, <2>5 DEF FenceInv
<1> QED BY <1>0, <1>1, <1>2, CommandStep

\* No host recovery is sent before the outcome of every earlier command to the
\* device is on record and the cooldown over, none twice for one outage, and no more
\* than the daily budget, whichever of any number of servers sent them and whatever
\* a power loss took back.
THEOREM RecoveriesFenced == Spec => []RecoveryFenced
<1>1. FenceInv => RecoveryFenced
  <2> SUFFICES ASSUME FenceInv, NEW k \in 1..Len(commands),
                      commands[k].intent.op = "host_recovery"
               PROVE  /\ \A i \in 1..(k - 1) :
                            commands[i].intent.device = commands[k].intent.device =>
                                /\ Resolved(i, k)
                                /\ commands[i].started + Cooldown <= commands[k].started
                                /\ commands[i].intent # commands[k].intent
                      /\ Cardinality(RecoveriesOfDay(k - 1, commands[k].started)) < DailyBudget
    BY DEF RecoveryFenced, RecoveriesOfDay
  <2>1. FencedAfter(k - 1, commands[k])
    BY DEF FenceInv, Fenced
  <2>2. \A i \in 1..synced : i \in 1..Len(audit)
    BY DEF FenceInv, Safe, TypeInv, TypeOK
  <2>3. \A i : ResolvedBefore(i, commands[k].id) => Resolved(i, k)
    BY <2>2 DEF ResolvedBefore, Resolved
  <2> QED BY <2>1, <2>3 DEF FencedAfter
<1>2. FenceInv /\ [Next]_vars => FenceInv'
  BY FenceStep
<1> QED BY <1>1, <1>2, FenceInit, PTL DEF Spec
=============================================================================
