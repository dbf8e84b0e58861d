------------------------ MODULE AvailabilityWatchdog ------------------------
(***************************************************************************)
(* The availability watchdog (scripts/availability-watchdog.mjs): one      *)
(* process that restarts a service or warm-restarts a host it has watched  *)
(* failing, and then waits for that target before it acts again.           *)
(*                                                                         *)
(* Its journal is what it knows after a restart.  An action is one request *)
(* of a tick: the tick stops at each await (the collections, the call of   *)
(* the server), where the world changes and the process may die.           *)
(***************************************************************************)
EXTENDS Naturals, Sequences, FiniteSets

CONSTANTS
    ServiceCount,   \* configured services, the targets 1..ServiceCount
    HostCount,      \* configured hosts, the targets that follow
    FailureSamples, Outage, Recovery, Cooldown, Day, DailyBudget,
    Retention,      \* age at which a recovered intent may leave the journal
    CompactAt,      \* records above which the journal is compacted
    MaxIntents, MaxTime, MaxFaults

ASSUME WatchdogAssumption ==
    /\ ServiceCount \in Nat /\ HostCount \in Nat
    /\ FailureSamples \in Nat \ {0}
    /\ Outage \in Nat /\ Recovery \in Nat
    /\ Cooldown \in Nat /\ Day \in Nat /\ Retention \in Nat
    /\ Cooldown <= Day /\ Day <= Retention
    /\ DailyBudget \in Nat /\ CompactAt \in Nat
    /\ MaxIntents \in Nat /\ MaxTime \in Nat /\ MaxFaults \in Nat

VARIABLES
    now,
    journal,        \* the records in the journal's file
    unsynced,       \* those of them a power loss may take
    damaged,        \* a line of the file does not parse
    archive,        \* the records compaction moved to the rotated archives
    pc, decision, request,
    records,        \* the records in memory
    streak, recoveryStreak,
    issued,         \* identifiers drawn so far
    faults,
    failing,        \* for how long every collection found a target failed, in one
                    \* process and without an open incident
    sustained,      \* consecutive collections that found the open target healthy
    commands        \* calls of the server

disk == <<journal, unsynced, damaged, archive>>
memory == <<pc, decision, request, records, streak, recoveryStreak>>
history == <<issued, faults, failing, sustained, commands>>
vars == <<now, disk, memory, history>>

-----------------------------------------------------------------------------
(* Data *)

Targets == 1..(ServiceCount + HostCount)
Services == 1..ServiceCount
Ids == 1..MaxIntents

\* What a collection finds: an outage is proven, recovery is proven, or neither.
\* In the end all targets are well.
Conditions == {"failed", "healthy", "unclear"}
Views == {v \in [Targets -> Conditions] : now = MaxTime => \A t \in Targets : v[t] = "healthy"}

Record == [phase : {"intent", "submitted", "recovered", "failed"},
           id : Ids, key : Targets, at : Nat]

NoStreak == [key |-> 0, samples |-> 0, since |-> 0]
NotSustained == [id |-> 0, samples |-> 0]

\* A count is compared with FailureSamples only, where it stops.
Counted(n) == IF n = FailureSamples THEN n ELSE n + 1

-----------------------------------------------------------------------------
(* assess, and the reconciliation's view of the target *)

\* The first target, services before hosts, whose outage is proven.
Assess(view) == {t \in Targets : view[t] = "failed" /\ \A u \in 1..(t - 1) : view[u] # "failed"}

\* A service counts as recovered when all services do.
LooksHealthy(view, t) ==
    IF t \in Services THEN \A s \in Services : view[s] = "healthy"
    ELSE view[t] = "healthy"

\* Fault: the note that the deadline has passed closes the incident.
UnresolvedUntilFailed(rs) ==
    {r \in rs : r.phase = "intent" /\ ~\E x \in rs : x.phase \in {"recovered", "failed"} /\ x.id = r.id}

Unresolved(rs) ==
    {r \in rs : r.phase = "intent" /\ ~\E x \in rs : x.phase = "recovered" /\ x.id = r.id}

\* The intent a tick reconciles: the oldest one.
Open == CHOOSE r \in Unresolved(records) : \A q \in Unresolved(records) : r.id <= q.id

-----------------------------------------------------------------------------
(* allowedByHistory *)

Recent == {r \in records : r.phase = "intent" /\ now < r.at + Day}

\* Fault: one intent more than the day's budget.
AllowedOverBudget(t) ==
    /\ Unresolved(records) = {}
    /\ Cardinality(Recent) <= DailyBudget
    /\ ~\E r \in Recent : r.key = t /\ now < r.at + Cooldown

AllowedByHistory(t) ==
    /\ Unresolved(records) = {}
    /\ Cardinality(Recent) < DailyBudget
    /\ ~\E r \in Recent : r.key = t /\ now < r.at + Cooldown

-----------------------------------------------------------------------------
(* Journal.compact and Journal.append *)

\* Fault: an incident that was given up may leave the journal too.
RetiredAnyOutcome ==
    {r.id : r \in {q \in records : q.phase \in {"recovered", "failed"} /\ q.at + Retention < now}}

Retired == {r.id : r \in {q \in records : q.phase = "recovered" /\ q.at + Retention < now}}

Kept == {r \in records : r.id \notin Retired}

Compacts == Cardinality(records) > CompactAt /\ Retired # {}

\* What is in the file and in memory when a line is about to be written: a
\* compaction replaces both by the records in memory that are kept.
FileBefore == IF Compacts THEN Kept ELSE journal
MemoryBefore == IF Compacts THEN Kept ELSE records
Archived == archive \cup (records \ MemoryBefore)

\* Everything before the synced line is synced with it.
Write(r) ==
    /\ journal' = FileBefore \cup {r}
    /\ records' = MemoryBefore \cup {r}
    /\ archive' = Archived
    /\ damaged' = (damaged /\ ~Compacts)
    /\ unsynced' = {}

\* An append that throws.
WriteFails(r) ==
    /\ faults < MaxFaults /\ faults' = faults + 1
    /\ \/ UNCHANGED <<disk, records>>         \* at its bound, or early in a compaction
       \/ /\ Compacts                         \* late in a compaction: its directory
          /\ archive' = Archived              \* may lack the sync
          /\ UNCHANGED records
          /\ \/ UNCHANGED <<journal, unsynced, damaged>>
             \/ journal' = Kept /\ unsynced' = {} /\ damaged' = FALSE
       \/ /\ archive' = Archived
          /\ records' = MemoryBefore
          /\ \/ /\ damaged' = TRUE            \* part of the line is written
                /\ journal' = FileBefore
                /\ unsynced' = IF Compacts THEN {} ELSE unsynced
             \/ /\ journal' = FileBefore \cup {r}   \* the line is not synced
                /\ unsynced' = (IF Compacts THEN {} ELSE unsynced) \cup ({r} \ FileBefore)
                /\ damaged' = (damaged /\ ~Compacts)

-----------------------------------------------------------------------------
(* Watchdog.tick *)

\* The process waits for its next tick; a tick that throws forgets its streak.
EndsTick == pc' = "idle" /\ decision' = 0 /\ request' = 0
EndsEarly == EndsTick /\ streak' = NoStreak

\* 0 when the last collection did not find it failed; one more than the time
\* since the first that did, up to the outage time.
Older(n) == IF n = 0 \/ n > Outage THEN n ELSE n + 1

Unobserved == [t \in Targets |-> 0]

Observed(view) ==
    failing' = [t \in Targets |-> IF view[t] # "failed" THEN 0
                                  ELSE IF failing[t] = 0 THEN 1 ELSE failing[t]]

\* A tick with an unresolved intent only watches its target.
Reconciling == pc = "idle" /\ Unresolved(records) # {}

HealthySamples(view) == IF LooksHealthy(view, Open.key) THEN Counted(recoveryStreak) ELSE 0

\* Of the notes, only the time of a recovery is ever read.
Note(phase) == [phase |-> phase, id |-> Open.id, key |-> Open.key,
                at |-> IF phase = "recovered" THEN now ELSE 0]

Watched(view) ==
    /\ failing' = Unobserved
    /\ recoveryStreak' = HealthySamples(view)
    /\ sustained' = [id |-> Open.id,
                     samples |-> IF ~LooksHealthy(view, Open.key) THEN 0
                                 ELSE IF sustained.id = Open.id THEN Counted(sustained.samples)
                                 ELSE 1]

\* Fault: an incident that was given up is never looked at again.
NoteOnlyOpen(view) ==
    IF \E r \in records : r.phase = "failed" /\ r.id = Open.id THEN {}
    ELSE IF HealthySamples(view) >= FailureSamples THEN {"recovered"}
    ELSE IF now > Open.at + Recovery THEN {"failed"}
    ELSE {}

\* What the tick has to add to the journal.
NoteDue(view) ==
    IF HealthySamples(view) >= FailureSamples THEN {"recovered"}
    ELSE IF now > Open.at + Recovery /\ ~\E r \in records : r.phase = "failed" /\ r.id = Open.id
         THEN {"failed"}
    ELSE {}

Reconcile(view) ==
    /\ Reconciling
    /\ NoteDue(view) = {}
    /\ Watched(view)
    /\ UNCHANGED <<now, disk, pc, decision, request, records, streak, issued, faults, commands>>

ReconcileNotes(view) ==
    /\ Reconciling
    /\ \E phase \in NoteDue(view) : Write(Note(phase))
    /\ Watched(view)
    /\ UNCHANGED <<now, pc, decision, request, streak, issued, faults, commands>>

ReconcileFails(view) ==
    /\ Reconciling
    /\ \E phase \in NoteDue(view) : WriteFails(Note(phase))
    /\ Watched(view)
    /\ EndsEarly
    /\ UNCHANGED <<now, issued, commands>>

\* A tick without an open incident assesses what it collected.
Assessing(view) ==
    /\ pc = "idle" /\ Unresolved(records) = {}
    /\ Observed(view)
    /\ sustained' = NotSustained

\* Fault: a tick that finds nothing to act on keeps the streak.
HoldKeepsStreak(view, inhibited) ==
    /\ Assessing(view)
    /\ Assess(view) = {} \/ inhibited
    /\ UNCHANGED <<now, disk, memory, issued, faults, commands>>

Hold(view, inhibited) ==
    /\ Assessing(view)
    /\ Assess(view) = {} \/ inhibited
    /\ streak' = NoStreak
    /\ UNCHANGED <<now, disk, pc, decision, request, records, recoveryStreak,
                   issued, faults, commands>>

Longer(t) ==
    IF streak.key = t THEN [streak EXCEPT !.samples = Counted(@)]
    ELSE [key |-> t, samples |-> 1, since |-> now]

Proven(s) == s.samples >= FailureSamples /\ now >= s.since + Outage

\* Too early, or too much was done already.
Observe(view, inhibited) ==
    /\ Assessing(view)
    /\ ~inhibited
    /\ \E t \in Assess(view) :
          /\ ~(Proven(Longer(t)) /\ AllowedByHistory(t))
          /\ streak' = Longer(t)
    /\ UNCHANGED <<now, disk, pc, decision, request, records, recoveryStreak,
                   issued, faults, commands>>

\* The second collection of the tick begins.
Decide(view, inhibited) ==
    /\ Assessing(view)
    /\ ~inhibited
    /\ \E t \in Assess(view) :
          /\ Proven(Longer(t)) /\ AllowedByHistory(t)
          /\ streak' = Longer(t)
          /\ decision' = t
    /\ pc' = "deciding"
    /\ UNCHANGED <<now, disk, request, records, recoveryStreak,
                   issued, faults, commands>>

StillProven(view, inhibited) == Assess(view) = {decision} /\ ~inhibited

Cancel(view, inhibited) ==
    /\ pc = "deciding" /\ Observed(view)
    /\ ~StillProven(view, inhibited)
    /\ EndsEarly
    /\ UNCHANGED <<now, disk, records, recoveryStreak, issued, faults, sustained, commands>>

Intent == [phase |-> "intent", id |-> issued + 1, key |-> decision, at |-> now]

Confirm(view, inhibited) ==
    /\ pc = "deciding" /\ Observed(view)
    /\ StillProven(view, inhibited)
    /\ issued < MaxIntents
    /\ issued' = issued + 1
    /\ Write(Intent)
    /\ request' = issued + 1
    /\ pc' = "intended"
    /\ UNCHANGED <<now, decision, streak, recoveryStreak, faults, sustained, commands>>

ConfirmFails(view, inhibited) ==
    /\ pc = "deciding" /\ Observed(view)
    /\ StillProven(view, inhibited)
    /\ issued < MaxIntents
    /\ issued' = issued + 1
    /\ WriteFails(Intent)
    /\ EndsEarly
    /\ UNCHANGED <<now, recoveryStreak, sustained, commands>>

\* The server is called once, whatever becomes of its answer.
Submit ==
    /\ pc = "intended"
    /\ commands' = Append(commands, [id |-> request, key |-> decision, at |-> now])
    /\ pc' \in {"answered", "ambiguous"}
    /\ UNCHANGED <<now, disk, decision, request, records, streak, recoveryStreak,
                   issued, faults, failing, sustained>>

Submitted == [phase |-> "submitted", id |-> request, key |-> decision, at |-> 0]

RecordSubmission ==
    /\ pc \in {"answered", "ambiguous"}
    /\ Write(Submitted)
    /\ EndsEarly
    /\ UNCHANGED <<now, recoveryStreak, history>>

\* A failed note of the answer is written again as an ambiguous one.
SubmissionNotRecorded ==
    /\ pc \in {"answered", "ambiguous"}
    /\ WriteFails(Submitted)
    /\ IF pc = "answered"
       THEN pc' = "ambiguous" /\ UNCHANGED <<decision, request, streak>>
       ELSE EndsEarly
    /\ UNCHANGED <<now, recoveryStreak, issued, failing, sustained, commands>>

-----------------------------------------------------------------------------
(* The process and the world *)

\* A journal that does not parse keeps the watchdog down.
Start ==
    /\ pc = "down" /\ ~damaged
    /\ records' = journal
    /\ recoveryStreak' = 0
    /\ EndsEarly
    /\ UNCHANGED <<now, disk, history>>

Stopped ==
    /\ faults < MaxFaults /\ faults' = faults + 1
    /\ pc' = "down" /\ decision' = 0 /\ request' = 0
    /\ records' = {} /\ streak' = NoStreak /\ recoveryStreak' = 0
    /\ failing' = Unobserved /\ sustained' = NotSustained
    /\ UNCHANGED <<now, archive, issued, commands>>

Kill == pc # "down" /\ Stopped /\ UNCHANGED <<journal, unsynced, damaged>>

PowerLoss ==
    /\ Stopped
    /\ \E lost \in SUBSET unsynced : journal' = journal \ lost
    /\ unsynced' = {}
    /\ damaged' \in {damaged, damaged \/ unsynced # {}}

\* The code between the intent and the call awaits nothing.
Pass ==
    /\ now < MaxTime /\ pc # "intended"
    /\ now' = now + 1
    /\ failing' = [t \in Targets |-> Older(failing[t])]
    /\ UNCHANGED <<disk, memory, issued, faults, sustained, commands>>

-----------------------------------------------------------------------------

Init ==
    /\ now = 0
    /\ journal = {} /\ unsynced = {} /\ damaged = FALSE /\ archive = {}
    /\ pc = "down" /\ decision = 0 /\ request = 0
    /\ records = {} /\ streak = NoStreak /\ recoveryStreak = 0
    /\ issued = 0 /\ faults = 0
    /\ failing = Unobserved
    /\ sustained = NotSustained
    /\ commands = <<>>

\* The maintenance file is looked for at each decision.
Tick ==
    \/ /\ Reconciling
       /\ \E view \in Views : Reconcile(view) \/ ReconcileNotes(view) \/ ReconcileFails(view)
    \/ /\ pc = "idle" /\ ~Reconciling
       /\ \E view \in Views, inhibited \in BOOLEAN :
             Hold(view, inhibited) \/ Observe(view, inhibited) \/ Decide(view, inhibited)
    \/ /\ pc = "deciding"
       /\ \E view \in Views, inhibited \in BOOLEAN :
             Cancel(view, inhibited) \/ Confirm(view, inhibited) \/ ConfirmFails(view, inhibited)
    \/ Submit
    \/ RecordSubmission
    \/ SubmissionNotRecorded

Next ==
    \/ Tick
    \/ Start
    \/ Kill
    \/ PowerLoss
    \/ Pass

Spec == Init /\ [][Next]_vars

\* The loop ticks for ever, systemd restarts the process, and time passes;
\* failures are finitely many.
FairSpec == Spec /\ WF_vars(Tick) /\ WF_vars(Start) /\ WF_vars(Pass)

-----------------------------------------------------------------------------
(* Properties *)

\* Types of the state; what is not synced is in the file.
TypeOK ==
    /\ now \in 0..MaxTime
    /\ journal \subseteq Record /\ archive \subseteq Record
    /\ unsynced \subseteq journal
    /\ damaged \in BOOLEAN
    /\ pc \in {"down", "idle", "deciding", "intended", "answered", "ambiguous"}
    /\ decision \in Targets \cup {0} /\ request \in Ids \cup {0}
    /\ records \subseteq Record
    /\ streak \in [key : Targets \cup {0}, samples : 0..FailureSamples, since : Nat]
    /\ recoveryStreak \in 0..FailureSamples
    /\ issued \in 0..MaxIntents /\ faults \in 0..MaxFaults
    /\ failing \in [Targets -> 0..(Outage + 1)]
    /\ sustained \in [id : Ids \cup {0}, samples : 0..FailureSamples]
    /\ commands \in Seq([id : Ids, key : Targets, at : Nat])

RecoveredOnRecord(i) ==
    \E r \in journal \cup archive : r.phase = "recovered" /\ r.id = i

\* "Never resubmit an acknowledged or ambiguous mutation": one call of the server
\* per identifier, and no call while an earlier one lacks its recovery, over any
\* lost answers, failed writes and restarts.
OneOpenIncident ==
    \A i, k \in 1..Len(commands) :
        i < k => /\ commands[i].id # commands[k].id
                 /\ RecoveredOnRecord(commands[i].id)

\* "It retains unresolved intents": an action whose target has not recovered stays in
\* the journal, where the next start that can read its file finds it.
UnresolvedIsRemembered ==
    \A i \in 1..Len(commands) :
        \/ RecoveredOnRecord(commands[i].id)
        \/ \E r \in journal \ unsynced : r.phase = "intent" /\ r.id = commands[i].id

\* "The full active cooldown and daily-budget window" survives restarts and
\* compactions: the calls of the server keep both.
WithinBudget ==
    \A k \in 1..Len(commands) :
        /\ Cardinality({i \in 1..(k - 1) : commands[k].at < commands[i].at + Day}) < DailyBudget
        /\ \A i \in 1..(k - 1) :
              commands[i].key = commands[k].key => commands[k].at >= commands[i].at + Cooldown

\* An intent is written only for a target that every collection of at least the
\* outage time found failed, the tick's second collection included, whatever
\* other targets, inhibitions and restarts came between.
OnlyProvenOutages ==
    [][\A r \in journal' \ journal :
          r.phase = "intent" => failing'[r.key] > Outage]_vars

\* docs/RECOVERY.md: "Recovery requires fresh direct host/NodeLease and
\* dependency evidence over repeated samples": an incident is closed after as many
\* consecutive healthy collections as it took failing ones to open it.
RecoveryIsSustained ==
    [][\A r \in journal' \ journal :
          r.phase = "recovered" => sustained' = [id |-> r.id, samples |-> FailureSamples]]_vars

\* "The circuit remains open until sustained live recovery is proven", and no
\* longer: once the targets stay healthy, a watchdog that its journal lets start
\* closes every incident it knows of.
CircuitCloses ==
    <>[](/\ pc = "down" => damaged
         /\ Unresolved(records) = {})
=============================================================================
