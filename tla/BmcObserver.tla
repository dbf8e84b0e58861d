----------------------------- MODULE BmcObserver -----------------------------
(***************************************************************************)
(* The BMC observer (nmc_bmc_observer) together with the server's handler  *)
(* of event subscriptions, for one controller.                             *)
(*                                                                         *)
(* The observer keeps one state per controller: the enrolment it asks the  *)
(* server for, and the latest events it has seen.  Every change is         *)
(* committed: a record is appended to the journal and synced, the state is *)
(* written beside state.json, renamed over it, and the directory is        *)
(* synced.  A commit may fail at each of these; events and observations    *)
(* share the state, so the commit of one also writes what the other left   *)
(* in memory.                                                              *)
(*                                                                         *)
(* An enrolment is a request to the server, whose handler is the one of    *)
(* ControllerActions.  Its identifier is drawn once, and it is repeated    *)
(* with that identifier and the inventory revision of that day until it is *)
(* known to be configured.                                                 *)
(*                                                                         *)
(* The clock is left out: any configured enrolment may be due for its      *)
(* check.  So are the checks of a batch of events that can only refuse it. *)
(***************************************************************************)
EXTENDS Naturals, SequencesExt

CONSTANTS
    RequestIds,
    NoRequestId,
    Servers,
    NoServer,
    NoDevice,
    NoOutage,
    AuditLimit,
    Events,         \* projected event identities
    Window,         \* how many of them are remembered
    MaxRevision,    \* bound of the inventory's revision, for model checking
    MaxResets,      \* bound of the controller's resets
    MaxFailures     \* bound of the faults

ASSUME ObserverAssumption ==
    /\ NoRequestId \notin RequestIds
    /\ NoServer \notin Servers
    /\ AuditLimit \in Nat /\ Window \in Nat \ {0}
    /\ MaxRevision \in Nat /\ MaxResets \in Nat /\ MaxFailures \in Nat

VARIABLES
    audit, synced, torn, holder, task, subscribed, commands, told,  \* ControllerActions
    revision,   \* of the device inventory
    accepted,   \* the revision under which each server took its request, or 0
    mem,        \* Store.state; while the observer is down, what it will read
    disk,       \* state.json and the journal
    tick,       \* the observer's progress
    seenSince,  \* history: the events counted after an event
    acked,      \* history: the events answered with 204
    resets, failures

Server == INSTANCE ControllerActions WITH
    Devices <- {}, Outages <- {}, Operations <- {"event_push"},
    Cooldown <- 0, Day <- 0, DailyBudget <- 0, now <- 1, MaxTime <- 1

serverVars == <<audit, synced, torn, holder, task, subscribed, commands, told, accepted>>
eventVars == <<seenSince, acked>>
vars == <<serverVars, revision, mem, disk, tick, eventVars, resets, failures>>

-----------------------------------------------------------------------------
(* State *)

Phases == {"none", "intent", "unknown", "configured"}
Enrollment == [id : RequestIds \cup {NoRequestId}, revision : 0..MaxRevision, phase : Phases]
NoEnrollment == [id |-> NoRequestId, revision |-> 0, phase |-> "none"]
State == [enrollment : Enrollment, seen : UNION {[1..n -> Events] : n \in 0..Window}]
DefaultState == [enrollment |-> NoEnrollment, seen |-> <<>>]

\* What a reader of state.json sees, the states of which a power loss may leave
\* any, and the events with a synced record in the journal.
Disk == [state : State, survivors : SUBSET State, journal : SUBSET Events]

Tick == [pc : {"down", "idle", "collecting", "enrolling", "calling", "answered"},
         revision : 0..MaxRevision, server : Servers \cup {NoServer}, configured : BOOLEAN]
Down == [pc |-> "down", revision |-> 0, server |-> NoServer, configured |-> FALSE]
Sleeping == [Down EXCEPT !.pc = "idle"]

Fault == failures < MaxFailures /\ failures' = failures + 1

-----------------------------------------------------------------------------
(* Store::commit *)

\* Fault: the directory is not synced.
WrittenUnsynced(d, s, es) ==
    [d EXCEPT !.state = s, !.survivors = @ \cup {s}, !.journal = @ \cup es]

Written(d, s, es) == [state |-> s, survivors |-> {s}, journal |-> d.journal \cup es]

\* The journal or the new file fails; the record is in the journal; or the state
\* is renamed and its directory not synced.
FailedWrites(d, s, es) ==
    {d,
     [d EXCEPT !.journal = @ \cup es],
     [d EXCEPT !.state = s, !.survivors = @ \cup {s}, !.journal = @ \cup es]}

-----------------------------------------------------------------------------
(* tick, observe_controller and reconcile *)

\* The inventory is fetched.
Begin ==
    /\ tick.pc = "idle"
    /\ tick' = [tick EXCEPT !.pc = "collecting", !.revision = revision]
    /\ UNCHANGED <<serverVars, revision, mem, disk, eventVars, resets, failures>>

\* The identity does not match, the diagnostics fail or push is not offered: a
\* record of it is committed and nothing is asked for.
Gap ==
    /\ tick.pc = "collecting"
    /\ Fault
    /\ disk' \in {Written(disk, mem, {})} \cup FailedWrites(disk, mem, {})
    /\ tick' = Sleeping
    /\ UNCHANGED <<serverVars, revision, mem, eventVars, resets>>

Used(id) == id \in {mem.enrollment.id} \cup {e.enrollment.id : e \in disk.survivors}
               \cup {audit[i].id : i \in 1..Len(audit)} \cup {task[s].id : s \in Servers}
               \cup {commands[i].id : i \in 1..Len(commands)}

NewEnrollments ==
    {[id |-> id, revision |-> tick.revision, phase |-> "intent"] :
        id \in {i \in RequestIds : ~Used(i)}}

\* Fault: an uncertain enrolment is asked for anew.
EnrollmentsAnew ==
    IF mem.enrollment.phase = "intent" THEN {mem.enrollment} ELSE NewEnrollments

\* Fault: an enrolment of unknown outcome is left to the operator.
EnrollmentsNotUnknown ==
    CASE mem.enrollment.phase = "none"       -> NewEnrollments
      [] mem.enrollment.phase = "configured" -> NewEnrollments \cup {mem.enrollment}
      [] mem.enrollment.phase = "intent"     -> {mem.enrollment}
      [] OTHER -> {}

\* An enrolment that never was or is due for its check gets a new identifier.
Enrollments ==
    IF mem.enrollment.phase = "none" THEN NewEnrollments
    ELSE IF mem.enrollment.phase = "configured" THEN NewEnrollments \cup {mem.enrollment}
    ELSE {mem.enrollment}

Uncertain(e) == e.phase \in {"intent", "unknown"}

\* Memory keeps the enrolment also when one of its commits, of the observation
\* and of the intent, fails; the tick ends then.
Observe(e) ==
    /\ tick.pc = "collecting"
    /\ e \in Enrollments
    /\ mem' = [mem EXCEPT !.enrollment = e]
    /\ \/ /\ disk' = Written(disk, mem', {})
          /\ tick' = IF Uncertain(e) THEN [tick EXCEPT !.pc = "enrolling"] ELSE Sleeping
          /\ UNCHANGED failures
       \/ /\ Fault
          /\ disk' \in {Written(disk, mem', {})} \cup FailedWrites(disk, mem', {})
          /\ tick' = Sleeping
    /\ UNCHANGED <<serverVars, revision, eventVars, resets>>

\* The server takes the request when it names the revision of its inventory.
Ask(s) ==
    /\ tick.pc = "enrolling"
    /\ revision = mem.enrollment.revision
    /\ \E x \in Server!Requested : Server!Inspect(s, mem.enrollment.id, x)
    /\ accepted' = [accepted EXCEPT ![s] = revision]
    /\ tick' = [tick EXCEPT !.pc = "calling", !.server = s]
    /\ UNCHANGED <<revision, mem, disk, eventVars, resets, failures>>

Answered(configured) ==
    tick' = [tick EXCEPT !.pc = "answered", !.server = NoServer, !.configured = configured]

\* 409 for another revision, or a call that does not reach the server.
AskFails ==
    /\ tick.pc = "enrolling"
    /\ \/ revision # mem.enrollment.revision /\ UNCHANGED failures
       \/ Fault
    /\ Answered(FALSE)
    /\ UNCHANGED <<serverVars, revision, mem, disk, eventVars, resets>>

\* The deadline of the call, or a lost answer; the server works on.
Deadline ==
    /\ tick.pc = "calling"
    /\ Fault
    /\ Answered(FALSE)
    /\ UNCHANGED <<serverVars, revision, mem, disk, eventVars, resets>>

Concluded ==
    [mem.enrollment EXCEPT !.phase = IF tick.configured THEN "configured" ELSE "unknown"]

\* The answer goes to memory, and the commit that follows may fail.
Conclude ==
    /\ tick.pc = "answered"
    /\ mem' = [mem EXCEPT !.enrollment = Concluded]
    /\ \/ disk' = Written(disk, mem', {}) /\ UNCHANGED failures
       \/ Fault /\ disk' \in FailedWrites(disk, mem', {})
    /\ tick' = Sleeping
    /\ UNCHANGED <<serverVars, revision, eventVars, resets>>

-----------------------------------------------------------------------------
(* The handler of the server *)

\* The caller gets an answer with the step that ends the request.
ToCaller(s, configured) ==
    /\ accepted' = [accepted EXCEPT ![s] = 0]
    /\ IF tick.server = s THEN Answered(configured) ELSE UNCHANGED tick

ServerStep(s) ==
    /\ \/ Server!PushAdmit(s) /\ UNCHANGED <<accepted, tick, failures>>
       \/ Server!PushAgain(s) /\ UNCHANGED <<accepted, tick, failures>>
       \/ Server!PushNotRecorded(s) /\ Fault /\ ToCaller(s, FALSE)
       \/ Server!PushRefused(s) /\ UNCHANGED failures /\ ToCaller(s, FALSE)
       \/ /\ revision = accepted[s]
          /\ Server!Post(s)
          /\ IF task'[s].pc = "executed"
             THEN UNCHANGED <<accepted, tick, failures>>
             ELSE Fault /\ ToCaller(s, FALSE)
       \/ Server!Complete(s) /\ UNCHANGED failures /\ ToCaller(s, TRUE)
       \/ Server!CompletionNotRecorded(s) /\ Fault /\ ToCaller(s, FALSE)
    /\ UNCHANGED <<revision, mem, disk, eventVars, resets>>

\* The inventory has changed since the request was taken.
InventoryChanged(s) ==
    /\ task[s].pc = "intended" /\ revision # accepted[s]
    /\ Server!Abandon(s)
    /\ ToCaller(s, FALSE)
    /\ UNCHANGED <<revision, mem, disk, eventVars, resets, failures>>

ServerKilled(s) ==
    /\ Server!Abandon(s)
    /\ Fault
    /\ ToCaller(s, FALSE)
    /\ UNCHANGED <<revision, mem, disk, eventVars, resets>>

ServerPowerLoss ==
    /\ Server!PowerLoss
    /\ Fault
    /\ accepted' = [s \in Servers |-> 0]
    /\ IF tick.pc = "calling" THEN Answered(FALSE) ELSE UNCHANGED tick
    /\ UNCHANGED <<revision, mem, disk, eventVars, resets>>

-----------------------------------------------------------------------------
(* accept_events *)

Batches == {b \in UNION {[1..n -> Events] : n \in 1..2} : IsInjective(b)}

\* An event that was not seen is remembered, and the oldest one forgotten.
Count(s, e) ==
    IF e \in ToSet(s.seen) THEN s
    ELSE [s EXCEPT !.seen = IF Len(@) = Window THEN Tail(Append(@, e)) ELSE Append(@, e)]

After(b, n) == FoldLeft(Count, mem, SubSeq(b, 1, n))
Fresh(b, n) == {i \in 1..n : b[i] \notin ToSet(After(b, i - 1).seen)}
FreshEvents(b, n) == {b[i] : i \in Fresh(b, n)}

\* The commits of the first n events.
Committed(b, n) ==
    IF Fresh(b, n) = {} THEN disk ELSE Written(disk, After(b, n), FreshEvents(b, n))

\* What came after each event when the first n are counted and the first m may be
\* on disk.
SinceBatch(b, n, m) ==
    [e \in Events |->
        {b[i] : i \in {k \in Fresh(b, m) : /\ b[k] # e
                                          /\ \A j \in Fresh(b, n) : b[j] = e => j < k}}
        \cup (IF e \in FreshEvents(b, n) THEN {} ELSE seenSince[e])]

Accept(b) ==
    /\ tick.pc # "down"
    /\ mem' = After(b, Len(b))
    /\ disk' = Written(Committed(b, Len(b)), mem', {})
    /\ acked' = acked \cup ToSet(b)
    /\ seenSince' = SinceBatch(b, Len(b), Len(b))
    /\ UNCHANGED <<serverVars, revision, tick, resets, failures>>

\* Fault: memory keeps the event whose commit failed.
RemainingUnrolled(b, n) == After(b, IF n < Len(b) THEN n + 1 ELSE n)

\* Memory forgets the event whose commit failed.
Remaining(b, n) == After(b, n)

\* The commit of the event after the first n, or of the receipt, fails: 503.
AcceptFails(b) ==
    /\ tick.pc # "down"
    /\ Fault
    /\ \E n \in 0..Len(b) :
          LET last == IF n < Len(b) THEN n + 1 ELSE n
              es == FreshEvents(b, last) \ FreshEvents(b, n)
          IN  /\ n < Len(b) => n + 1 \in Fresh(b, n + 1)
              /\ mem' = Remaining(b, n)
              /\ disk' \in FailedWrites(Committed(b, n), After(b, last), es)
              /\ seenSince' = SinceBatch(b, n, last)
    /\ UNCHANGED <<serverVars, revision, tick, acked, resets>>

-----------------------------------------------------------------------------
(* The process, the inventory and the controller *)

\* A commit in which the process dies is one that fails.
Kill ==
    /\ tick.pc # "down"
    /\ Fault
    /\ tick' = Down
    /\ mem' = disk.state
    /\ UNCHANGED <<serverVars, revision, disk, eventVars, resets>>

PowerLoss ==
    /\ Fault
    /\ \E s \in disk.survivors :
          /\ mem' = s
          /\ disk' = [disk EXCEPT !.state = s, !.survivors = {s}]
    /\ tick' = Down
    /\ UNCHANGED <<serverVars, revision, eventVars, resets>>

\* Store::open
Start ==
    /\ tick.pc = "down"
    /\ tick' = Sleeping
    /\ UNCHANGED <<serverVars, revision, mem, disk, eventVars, resets, failures>>

ChangeInventory ==
    /\ revision < MaxRevision
    /\ revision' = revision + 1
    /\ UNCHANGED <<serverVars, mem, disk, tick, eventVars, resets, failures>>

\* The controller forgets its subscriptions.
Reset ==
    /\ resets < MaxResets
    /\ resets' = resets + 1
    /\ Server!Reset
    /\ UNCHANGED <<accepted, revision, mem, disk, tick, eventVars, failures>>

-----------------------------------------------------------------------------

Init ==
    /\ audit = <<>> /\ synced = 0 /\ torn = FALSE
    /\ holder = NoServer
    /\ task = [s \in Servers |-> Server!Idle]
    /\ subscribed = FALSE /\ commands = <<>>
    /\ told = [id \in RequestIds |-> {}]
    /\ revision = 0
    /\ accepted = [s \in Servers |-> 0]
    /\ mem = DefaultState
    /\ disk = [state |-> DefaultState, survivors |-> {DefaultState}, journal |-> {}]
    /\ tick = Down
    /\ seenSince = [e \in Events |-> {}]
    /\ acked = {}
    /\ resets = 0 /\ failures = 0

ObserverNext ==
    \/ Start
    \/ Begin
    \/ Gap
    \/ \E e \in Enrollments : Observe(e)
    \/ \E s \in Servers : Ask(s)
    \/ AskFails
    \/ Deadline
    \/ Conclude

ServerNext(s) == ServerStep(s) \/ InventoryChanged(s)

Next ==
    \/ ObserverNext
    \/ \E s \in Servers : ServerNext(s) \/ ServerKilled(s)
    \/ ServerPowerLoss
    \/ \E b \in Batches : Accept(b) \/ AcceptFails(b)
    \/ Kill
    \/ PowerLoss
    \/ ChangeInventory
    \/ Reset

Spec == Init /\ [][Next]_vars

\* The service is restarted and its loop goes on; the server answers.  Neither
\* the controller nor the senders of events owe anything.
Fairness ==
    /\ WF_vars(ObserverNext)
    /\ \A s \in Servers : WF_vars(ServerNext(s))

FairSpec == Spec /\ Fairness

-----------------------------------------------------------------------------
(* Properties *)

\* Types of the observer's state; state.json is one of the states that may
\* survive, and the window keeps within its bound without repetition.
TypeOK ==
    /\ revision \in 0..MaxRevision
    /\ accepted \in [Servers -> 0..MaxRevision]
    /\ mem \in State /\ IsInjective(mem.seen)
    /\ disk \in Disk /\ disk.state \in disk.survivors
    /\ tick \in Tick
    /\ seenSince \in [Events -> SUBSET Events]
    /\ acked \in SUBSET Events
    /\ resets \in 0..MaxResets /\ failures \in 0..MaxFailures

\* "An uncertain creation is reconciled using its original request ID, never
\* blindly retried": a creation that was sent and not confirmed is the enrolment
\* in memory and in every state that may survive, whichever of the two programs
\* lost power, so that no other one is asked for.
UncertainIsRemembered ==
    \A i \in 1..Len(commands) :
        told[commands[i].id] = {} =>
            \A s \in disk.survivors \cup {mem} :
                s.enrollment.id = commands[i].id /\ Uncertain(s.enrollment)

\* "Adopts one matching owned context": no creation is sent to a controller that
\* holds a subscription of this service, which would make drift of both.
NoSecondSubscription ==
    [][Len(commands') > Len(commands) => ~subscribed]_vars

\* "Durably deduplicates the latest projected event identities across process
\* restarts": an event that was answered with 204 is in the journal, and in memory
\* and in every state that may survive unless a window of others came after it.
AckedIsDurable ==
    \A e \in acked :
        /\ e \in disk.journal
        /\ Cardinality(seenSince[e]) < Window =>
              \A s \in disk.survivors \cup {mem} : e \in ToSet(s.seen)

\* An uncertain enrolment whose subscription exists is eventually known to be
\* configured, provided the inventory still has the revision it was asked under
\* and the audit file can be read: the server refuses every other one, for ever.
Reconcilable ==
    /\ Uncertain(mem.enrollment)
    /\ mem.enrollment.revision = revision
    /\ subscribed
    /\ ~torn

UncertainIsReconciled == Reconcilable ~> ~Reconcilable
=============================================================================
