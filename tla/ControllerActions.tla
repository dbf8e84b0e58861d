------------------------- MODULE ControllerActions -------------------------
(***************************************************************************)
(* Power actions and event subscriptions on board management controllers   *)
(* (Core/DeviceManagement.cpp: performControllerAction,                    *)
(* handleEventSubscription and the audit file they share).                 *)
(*                                                                         *)
(* The audit file is the only memory of what was done to a machine: it     *)
(* answers repeated requests, and it holds back a host recovery (a restart *)
(* of an unreachable machine) after another action.  A server takes a lock *)
(* on the file, appends an intent, contacts the controller and appends the *)
(* completion; it may be killed in between, every append may fail, tear    *)
(* its line or miss the disk, and a power loss takes back what was not     *)
(* synced.                                                                 *)
(*                                                                         *)
(* A request is an identifier and an intent: the operation, the device and *)
(* the outage it names.  Two requests have one digest when they have one   *)
(* intent.  The evidence, inventory and permission checks that can only    *)
(* refuse a request before anything is written are left out, as is every   *)
(* other answer that changes no state.                                     *)
(***************************************************************************)
EXTENDS Naturals, Sequences, FiniteSets

CONSTANTS
    RequestIds,
    Devices,
    Outages,
    NoOutage,       \* the outage of an operation that names none
    NoDevice,       \* the device of an event subscription
    NoRequestId,    \* the request of an idle server
    Operations,     \* operations the clients ask for
    Servers,        \* server processes, one request at a time each (actionMutex_)
    NoServer,
    Cooldown,
    Day,
    DailyBudget,
    AuditLimit,     \* records the audit file may hold
    MaxTime         \* bound of the clock, for model checking

Recovery == {"host_recovery", "outage_recovery"}

ASSUME ActionsAssumption ==
    /\ Operations \subseteq Recovery \cup {"power", "event_push"}
    /\ NoServer \notin Servers
    /\ NoRequestId \notin RequestIds
    /\ NoOutage \notin Outages
    /\ NoDevice \notin Devices
    /\ Cooldown \in Nat /\ Day \in Nat
    /\ DailyBudget \in Nat /\ AuditLimit \in Nat /\ MaxTime \in Nat

VARIABLES
    now,
    audit,      \* records of the audit file, as a reader sees them
    synced,     \* how many of them a power loss cannot take back
    torn,       \* the file ends in a line that does not parse
    holder,     \* the server that holds the lock of the file
    task,       \* the request each server works on
    subscribed, \* the controller has a subscription of this service
    commands,   \* history: what was sent to controllers, in order
    told        \* history: the outcomes clients were told, with the intent they asked for

file == <<audit, synced, torn>>
vars == <<now, file, holder, task, subscribed, commands, told>>

-----------------------------------------------------------------------------
(* Data *)

Intent == [op : Recovery \cup {"power", "event_push"},
           device : Devices \cup {NoDevice},
           outage : Outages \cup {NoOutage}]

\* The intents clients send: a recovery names a device and an outage.
Requested ==
    {x \in Intent :
        /\ x.op \in Operations
        /\ x.device = NoDevice <=> x.op = "event_push"
        /\ x.outage # NoOutage <=> x.op \in Recovery}

Outcomes == {"done", "failed"}

\* A subscription's record carries no start time, which is written as 0 here.
Record == [phase : {"intent", "complete"}, id : RequestIds, intent : Intent,
           started : Nat, outcome : Outcomes \cup {"none"}]

IntentRecord(id, x, t) ==
    [phase |-> "intent", id |-> id, intent |-> x,
     started |-> IF x.op = "event_push" THEN 0 ELSE t, outcome |-> "none"]

Completion(r, outcome) == [r EXCEPT !.phase = "complete", !.outcome = outcome]

Command == [id : RequestIds, intent : Intent, started : Nat]

NoIntent == [op |-> "event_push", device |-> NoDevice, outage |-> NoOutage]
Task == [pc : {"idle", "inspected", "intended", "executed"},
         id : RequestIds \cup {NoRequestId}, intent : Intent, started : Nat,
         outcome : Outcomes \cup {"none"}, existing : BOOLEAN]
Idle == [pc |-> "idle", id |-> NoRequestId, intent |-> NoIntent, started |-> 0,
         outcome |-> "none", existing |-> FALSE]

-----------------------------------------------------------------------------
(* appendAuditRecord *)

\* Fault: the file is not synced.
AppendUnsynced(r) ==
    /\ Len(audit) < AuditLimit
    /\ audit' = Append(audit, r)
    /\ UNCHANGED <<synced, torn>>

AppendAuditRecord(r) ==
    /\ Len(audit) < AuditLimit
    /\ audit' = Append(audit, r)
    /\ synced' = Len(audit')
    /\ UNCHANGED torn

\* The file is at its limit or cannot be opened, its write stops in the middle
\* of the line, or the line is written and fsync fails.
AppendFails(r) ==
    \/ UNCHANGED file
    \/ /\ Len(audit) < AuditLimit
       /\ \/ torn' = TRUE /\ UNCHANGED <<audit, synced>>
          \/ audit' = Append(audit, r) /\ UNCHANGED <<synced, torn>>

-----------------------------------------------------------------------------
(* findAuditRequest and hostRecoveryHistoryBlocker *)

\* The record at i is the last one of the request.
LastRecord(id, i) ==
    /\ audit[i].id = id
    /\ \A k \in (i + 1)..Len(audit) : audit[k].id # id

\* Fault: the digest is not compared.
SameIdentifier(id, x) == \E i \in 1..Len(audit) : LastRecord(id, i)

\* The identifier was used before, and for the same intent.
SameIntent(id, x) == \E i \in 1..Len(audit) : LastRecord(id, i) /\ audit[i].intent = x

\* Fault: only a completed request counts as known.
UncompletedRequest(id) ==
    \A i \in 1..Len(audit) : audit[i].phase = "complete" => audit[i].id # id

NewRequest(id) == \A i \in 1..Len(audit) : audit[i].id # id

HistoryIntents == {audit[i] : i \in {k \in 1..Len(audit) : audit[k].phase = "intent"}}

Completed(id) == \E i \in 1..Len(audit) : audit[i].phase = "complete" /\ audit[i].id = id

\* A record without a start time makes the whole history malformed.
MalformedHistory == \E r \in HistoryIntents : r.started = 0 \/ r.started > now

Unresolved(d) == \E r \in HistoryIntents : r.intent.device = d /\ ~Completed(r.id)
CoolingDown(d) == \E r \in HistoryIntents : r.intent.device = d /\ now < r.started + Cooldown
Acknowledged(d, o) ==
    \E r \in HistoryIntents :
        r.intent = [op |-> "host_recovery", device |-> d, outage |-> o]
BudgetSpent ==
    Cardinality({r \in HistoryIntents :
                    r.intent.op = "host_recovery" /\ now < r.started + Day}) >= DailyBudget

\* Fault: an intent without a completion does not hold back a recovery.
BlockedByCompleted(d, o) == CoolingDown(d) \/ Acknowledged(d, o) \/ BudgetSpent

HostRecoveryHistoryBlocker(d, o) ==
    \/ MalformedHistory
    \/ Unresolved(d)
    \/ CoolingDown(d)
    \/ Acknowledged(d, o)
    \/ BudgetSpent

-----------------------------------------------------------------------------
(* performControllerAction *)

\* The audit can be locked, and every line of it parses.
AuditReadable == holder = NoServer /\ ~torn

\* A new request that no check refuses: its intent may be appended.
Admissible(s, id, x) ==
    /\ task[s] = Idle
    /\ AuditReadable
    /\ x \in Requested /\ x.op # "event_push"
    /\ NewRequest(id)
    /\ x.op = "host_recovery" => ~HostRecoveryHistoryBlocker(x.device, x.outage)

Admit(s, id, x) ==
    /\ Admissible(s, id, x)
    /\ AppendAuditRecord(IntentRecord(id, x, now))
    /\ holder' = s
    /\ task' = [task EXCEPT ![s] = [Idle EXCEPT !.pc = "intended", !.id = id,
                                                !.intent = x, !.started = now]]
    /\ UNCHANGED <<now, subscribed, commands, told>>

\* 503, or the process ends while it appends: nothing is sent.
IntentNotRecorded(s, id, x) ==
    /\ Admissible(s, id, x)
    /\ AppendFails(IntentRecord(id, x, now))
    /\ UNCHANGED <<now, holder, task, subscribed, commands, told>>

\* A completed request is answered from the audit.
Replay(s, id, x) ==
    /\ task[s] = Idle
    /\ AuditReadable
    /\ x \in Requested /\ x.op # "event_push"
    /\ SameIntent(id, x)
    /\ \E i \in 1..Len(audit) :
          /\ LastRecord(id, i)
          /\ audit[i].phase = "complete"
          /\ told' = [told EXCEPT ![id] = @ \cup {[intent |-> x, outcome |-> audit[i].outcome]}]
    /\ UNCHANGED <<now, file, holder, task, subscribed, commands>>

\* The command is sent.  It may take effect although it is reported as failed:
\* refused, timed out, unverified.
Execute(s) ==
    /\ task[s].pc = "intended" /\ task[s].intent.op # "event_push"
    /\ commands' = Append(commands, [id |-> task[s].id, intent |-> task[s].intent,
                                     started |-> task[s].started])
    /\ \E outcome \in Outcomes :
          task' = [task EXCEPT ![s].pc = "executed", ![s].outcome = outcome]
    /\ UNCHANGED <<now, file, holder, subscribed, told>>

\* The controller's state differs from the evidence: nothing is sent.
NotSent(s) ==
    /\ task[s].pc = "intended" /\ task[s].intent.op # "event_push"
    /\ task' = [task EXCEPT ![s].pc = "executed", ![s].outcome = "failed"]
    /\ UNCHANGED <<now, file, holder, subscribed, commands, told>>

-----------------------------------------------------------------------------
(* handleEventSubscription *)

\* The subscriptions are read before the audit is locked.
Inspect(s, id, x) ==
    /\ task[s] = Idle
    /\ x \in Requested /\ x.op = "event_push"
    /\ task' = [task EXCEPT ![s] = [Idle EXCEPT !.pc = "inspected", !.id = id,
                                                !.intent = x, !.existing = subscribed]]
    /\ UNCHANGED <<now, file, holder, subscribed, commands, told>>

\* A subscription that was found is adopted, one that was not is created.
Reconciling(s) ==
    /\ holder' = s
    /\ task' = IF task[s].existing
               THEN [task EXCEPT ![s].pc = "executed", ![s].outcome = "done"]
               ELSE [task EXCEPT ![s].pc = "intended"]
    /\ UNCHANGED <<now, subscribed, commands, told>>

PushAdmit(s) ==
    /\ task[s].pc = "inspected"
    /\ AuditReadable
    /\ NewRequest(task[s].id)
    /\ AppendAuditRecord(IntentRecord(task[s].id, task[s].intent, now))
    /\ Reconciling(s)

\* The intent of a repeated request is on record already.
PushAgain(s) ==
    /\ task[s].pc = "inspected"
    /\ AuditReadable
    /\ SameIntent(task[s].id, task[s].intent)
    /\ task[s].existing
    /\ UNCHANGED file
    /\ Reconciling(s)

PushNotRecorded(s) ==
    /\ task[s].pc = "inspected"
    /\ AuditReadable
    /\ NewRequest(task[s].id)
    /\ AppendFails(IntentRecord(task[s].id, task[s].intent, now))
    /\ task' = [task EXCEPT ![s] = Idle]
    /\ UNCHANGED <<now, holder, subscribed, commands, told>>

\* 409 for another intent or an intent without its subscription, 503 when the
\* audit is locked or does not parse.
PushRefused(s) ==
    /\ task[s].pc = "inspected"
    /\ \/ ~AuditReadable
       \/ /\ ~NewRequest(task[s].id)
          /\ ~(SameIntent(task[s].id, task[s].intent) /\ task[s].existing)
    /\ task' = [task EXCEPT ![s] = Idle]
    /\ UNCHANGED <<now, file, holder, subscribed, commands, told>>

Released(s) ==
    /\ holder' = NoServer
    /\ task' = [task EXCEPT ![s] = Idle]

\* The creation is sent and may take effect.  Only one that is confirmed gets a
\* completion.
Post(s) ==
    /\ task[s].pc = "intended" /\ task[s].intent.op = "event_push"
    /\ commands' = Append(commands, [id |-> task[s].id, intent |-> task[s].intent, started |-> 0])
    /\ \/ /\ subscribed' = TRUE
          /\ task' = [task EXCEPT ![s].pc = "executed", ![s].outcome = "done"]
          /\ UNCHANGED holder
       \/ /\ subscribed' \in {subscribed, TRUE}
          /\ Released(s)
    /\ UNCHANGED <<now, file, told>>

-----------------------------------------------------------------------------
(* Completion, and the end of a process *)

Complete(s) ==
    /\ task[s].pc = "executed"
    /\ AppendAuditRecord(Completion(IntentRecord(task[s].id, task[s].intent, task[s].started),
                                    task[s].outcome))
    /\ told' = [told EXCEPT ![task[s].id] =
                   @ \cup {[intent |-> task[s].intent, outcome |-> task[s].outcome]}]
    /\ Released(s)
    /\ UNCHANGED <<now, subscribed, commands>>

\* 503 without the outcome, or the process ends while it appends.
CompletionNotRecorded(s) ==
    /\ task[s].pc = "executed"
    /\ AppendFails(Completion(IntentRecord(task[s].id, task[s].intent, task[s].started),
                              task[s].outcome))
    /\ Released(s)
    /\ UNCHANGED <<now, subscribed, commands, told>>

\* An exception leaves the handler, a subscription's inventory has changed or
\* the process is killed: the intent stays unresolved.
Abandon(s) ==
    /\ holder = s
    /\ Released(s)
    /\ UNCHANGED <<now, file, subscribed, commands, told>>

PowerLoss ==
    /\ \E n \in synced..Len(audit) :
          /\ audit' = SubSeq(audit, 1, n)
          /\ synced' = n
          /\ torn' \in {FALSE, torn, n < Len(audit)}
    /\ holder' = NoServer
    /\ task' = [s \in Servers |-> Idle]
    /\ UNCHANGED <<now, subscribed, commands, told>>

Tick ==
    /\ now < MaxTime
    /\ now' = now + 1
    /\ UNCHANGED <<file, holder, task, subscribed, commands, told>>

\* The controllers forget their subscriptions.
Reset ==
    /\ subscribed
    /\ subscribed' = FALSE
    /\ UNCHANGED <<now, file, holder, task, commands, told>>

-----------------------------------------------------------------------------

Init ==
    /\ now = 1
    /\ audit = <<>> /\ synced = 0 /\ torn = FALSE
    /\ holder = NoServer
    /\ task = [s \in Servers |-> Idle]
    /\ subscribed = FALSE
    /\ commands = <<>>
    /\ told = [id \in RequestIds |-> {}]

RequestNext(s, id, x) ==
    \/ Admit(s, id, x)
    \/ IntentNotRecorded(s, id, x)
    \/ Replay(s, id, x)
    \/ Inspect(s, id, x)

ServerNext(s) ==
    \/ Execute(s)
    \/ NotSent(s)
    \/ PushAdmit(s)
    \/ PushAgain(s)
    \/ PushNotRecorded(s)
    \/ PushRefused(s)
    \/ Post(s)
    \/ Complete(s)
    \/ CompletionNotRecorded(s)
    \/ Abandon(s)

Next ==
    \/ \E s \in Servers, id \in RequestIds, x \in Requested : RequestNext(s, id, x)
    \/ \E s \in Servers : ServerNext(s)
    \/ PowerLoss
    \/ Tick
    \/ Reset

Spec == Init /\ [][Next]_vars

-----------------------------------------------------------------------------
(* Properties *)

\* Types of the state; the file keeps within its limit and what is synced is a
\* prefix of it.
TypeOK ==
    /\ now \in Nat
    /\ audit \in Seq(Record) /\ Len(audit) <= AuditLimit
    /\ synced \in 0..Len(audit)
    /\ torn \in BOOLEAN
    /\ holder \in Servers \cup {NoServer}
    /\ task \in [Servers -> Task]
    /\ subscribed \in BOOLEAN
    /\ commands \in Seq(Command)
    /\ told \in [RequestIds -> SUBSET [intent : Intent, outcome : Outcomes]]

\* "An exact retry returns the saved result without contacting hardware": a
\* request sends at most one command to a controller, over any retries, lost
\* records and ends of processes.
RequestCommandedOnce ==
    \A i, j \in 1..Len(commands) : commands[i].id = commands[j].id => i = j

\* Every command ever sent has its intent where a power loss cannot take it.
IntentIsDurable ==
    \A c \in 1..Len(commands) :
        \E i \in 1..synced :
            /\ audit[i].phase = "intent"
            /\ audit[i].id = commands[c].id
            /\ audit[i].intent = commands[c].intent

Resolved(i, k) ==
    \E a, b \in 1..Len(audit) :
        /\ a < b
        /\ audit[a].phase = "complete" /\ audit[a].id = commands[i].id
        /\ audit[b].phase = "intent" /\ audit[b].id = commands[k].id

\* A host recovery was sent only after every earlier command to the device had
\* its outcome on record and the cooldown was over, never twice for one outage,
\* and within the daily budget, whichever process sent them.
RecoveryFenced ==
    \A k \in 1..Len(commands) :
        commands[k].intent.op = "host_recovery" =>
            /\ \A i \in 1..(k - 1) :
                  commands[i].intent.device = commands[k].intent.device =>
                      /\ Resolved(i, k)
                      /\ commands[i].started + Cooldown <= commands[k].started
                      /\ commands[i].intent # commands[k].intent
            /\ Cardinality({i \in 1..(k - 1) :
                               /\ commands[i].intent.op = "host_recovery"
                               /\ commands[k].started < commands[i].started + Day}) < DailyBudget

\* All clients of one request identifier are told one outcome of one intent, and
\* a power action is reported done only when its command was sent.
AnswersAgree ==
    \A id \in RequestIds :
        /\ \A t1, t2 \in told[id] : t1 = t2
        /\ \A t \in told[id] :
              t.outcome = "done" /\ t.intent.op # "event_push" =>
                  \E c \in 1..Len(commands) : commands[c].id = id /\ commands[c].intent = t.intent

\* docs/RECOVERY.md: "A completed recovery permits a later independent outage
\* within those bounds", the cooldown, the outage and the daily budget.
RecoveryPermitted ==
    \A d \in Devices, o \in Outages :
        (~Unresolved(d) /\ ~CoolingDown(d) /\ ~Acknowledged(d, o) /\ ~BudgetSpent)
        => ~HostRecoveryHistoryBlocker(d, o)
=============================================================================
