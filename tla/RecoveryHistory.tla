-------------------------- MODULE RecoveryHistory --------------------------
(***************************************************************************)
(* host-boot-journal.mjs and handleGetRecoveryHistory: the watchdog        *)
(* remembers the boot of every host in a checkpoint file and appends each  *)
(* change to a journal; the server merges that journal with the resets of  *)
(* its audit and serves the result in pages.                               *)
(*                                                                         *)
(* The journal is kept by the process that AvailabilityWatchdog models; no *)
(* name of this module is one of that one, so that a module can use both.  *)
(***************************************************************************)
EXTENDS Naturals, SequencesExt

CONSTANTS
    NumHosts,         \* hosts of the configuration
    PageSize,         \* entries of a page (32)
    CheckpointEvery,  \* periods between checkpoints without a change
    FreshFor,         \* periods for which collected evidence may be used
    MaxBoots,         \* bound on boots of a host
    MaxResets,        \* bound on resets in the audit
    MaxClock,         \* bound of the clock
    MaxFailures       \* bound on kills, power losses and failed writes

ASSUME HistoryAssumption ==
    /\ \A bound \in {NumHosts, PageSize, MaxBoots, MaxClock} : bound \in Nat \ {0}
    /\ \A bound \in {CheckpointEvery, FreshFor, MaxResets, MaxFailures} : bound \in Nat

Hosts == 1..NumHosts

VARIABLES
    clock,       \* the watchdog's and the server's time
    boot,        \* the boot each host is in
    resets,      \* warm and cold restarts in the server's audit, as host and time
    bootMemory,  \* state and lastCheckpoint of the BootJournal
    checkpoint,  \* its file as it shows, and as it is after a power loss
    bootJournal, \* lines of the boot journal
    synced,      \* how many of them no power loss takes back
    pass,        \* one tick of the watchdog
    reader,      \* a client that reads the history page by page
    baseline,    \* boots that were the first ones seen of their host
    failures     \* kills, power losses and failed writes so far

historyVars ==
    <<clock, boot, resets, bootMemory, checkpoint, bootJournal, synced, pass, reader,
      baseline, failures>>

Unseen == [boot |-> 0, seen |-> 0]

NoPass == [phase |-> "none"]

NoReader == [phase |-> "none"]

HistoryInit ==
    /\ clock = 1
    /\ boot = [h \in Hosts |-> 1]
    /\ resets = <<>>
    /\ bootMemory = [state |-> [h \in Hosts |-> Unseen], last |-> 0]
    /\ checkpoint = [visible |-> [h \in Hosts |-> Unseen],
                     durable |-> [h \in Hosts |-> Unseen]]
    /\ bootJournal = <<>>
    /\ synced = 0
    /\ pass = NoPass
    /\ reader = NoReader
    /\ baseline = {}
    /\ failures = 0

-----------------------------------------------------------------------------
(* Hosts, clients and the clock.                                           *)

Boot(h) ==
    /\ boot[h] < MaxBoots
    /\ boot' = [boot EXCEPT ![h] = @ + 1]
    /\ UNCHANGED <<clock, resets, bootMemory, checkpoint, bootJournal, synced, pass, reader,
                   baseline, failures>>

\* The server puts the intent of a reset on record; the host may boot later.
Reset(h) ==
    /\ Len(resets) < MaxResets
    /\ resets' = Append(resets, [host |-> h, at |-> clock])
    /\ UNCHANGED <<clock, boot, bootMemory, checkpoint, bootJournal, synced, pass, reader,
                   baseline, failures>>

ClockTick ==
    /\ clock < MaxClock
    /\ clock' = clock + 1
    /\ UNCHANGED <<boot, resets, bootMemory, checkpoint, bootJournal, synced, pass, reader,
                   baseline, failures>>

-----------------------------------------------------------------------------
(* BootJournal.append and checkpoint.                                      *)

\* A line that was torn does not end: the next one is part of it.
Line(r) ==
    IF bootJournal # <<>> /\ ~Last(bootJournal).readable
    THEN [r EXCEPT !.readable = FALSE] ELSE r

\* Fault: the line is not synced.
AppendUnsynced(r) ==
    /\ bootJournal' = Append(bootJournal, Line(r))
    /\ UNCHANGED synced

AppendLine(r) ==
    /\ bootJournal' = Append(bootJournal, Line(r))
    /\ synced' = Len(bootJournal) + 1

\* The write stops before, within or after the line.
AppendFails(r) ==
    /\ failures < MaxFailures
    /\ failures' = failures + 1
    /\ \/ UNCHANGED bootJournal
       \/ \E readable \in BOOLEAN :
            bootJournal' = Append(bootJournal, Line([r EXCEPT !.readable = readable]))
    /\ UNCHANGED synced

Checkpointed ==
    /\ checkpoint' = [visible |-> bootMemory.state, durable |-> bootMemory.state]
    /\ bootMemory' = [bootMemory EXCEPT !.last = pass.at]

\* It fails before the rename, or between the rename and the directory's sync.
CheckpointFails ==
    /\ failures < MaxFailures
    /\ failures' = failures + 1
    /\ \E written \in {checkpoint.visible, bootMemory.state} :
         checkpoint' = [checkpoint EXCEPT !.visible = written]
    /\ UNCHANGED bootMemory

-----------------------------------------------------------------------------
(* Watchdog.tick up to the end of BootJournal.observe.                     *)

\* The hosts that are ready, reachable and have a live lease, with their boots.
Collect(healthy) ==
    /\ pass = NoPass
    /\ pass' = [phase |-> "collected", at |-> clock, boots |-> [h \in healthy |-> boot[h]]]
    /\ UNCHANGED <<clock, boot, resets, bootMemory, checkpoint, bootJournal, synced, reader,
                   baseline, failures>>

\* observe is called with a time after the collection.
ObserveBoots ==
    /\ pass.phase = "collected"
    /\ pass' = IF clock <= pass.at + FreshFor
               THEN [phase |-> "observing", at |-> clock, boots |-> pass.boots,
                     pending |-> DOMAIN pass.boots, changed |-> FALSE]
               ELSE NoPass
    /\ UNCHANGED <<clock, boot, resets, bootMemory, checkpoint, bootJournal, synced, reader,
                   baseline, failures>>

Pending(h) == pass.phase = "observing" /\ h \in pass.pending

Changed(h) == bootMemory.state[h].boot \notin {0, pass.boots[h]}

ObservedBoot(h) ==
    [host |-> h, boot |-> pass.boots[h], at |-> pass.at,
     previous |-> bootMemory.state[h].seen, readable |-> TRUE]

Seen(h) ==
    /\ bootMemory' = [bootMemory EXCEPT !.state[h] = [boot |-> pass.boots[h], seen |-> pass.at]]
    /\ pass' = [pass EXCEPT !.pending = @ \ {h},
                            !.changed = @ \/ bootMemory.state[h].boot # pass.boots[h]]

\* A boot that was not seen before is appended before it is remembered.
SeeBoot(h) ==
    /\ Pending(h) /\ Changed(h)
    /\ AppendLine(ObservedBoot(h))
    /\ Seen(h)
    /\ UNCHANGED <<clock, boot, resets, checkpoint, reader, baseline, failures>>

\* Fault: the boot is remembered before it is appended.
RememberedEarly(h) ==
    bootMemory' = [bootMemory EXCEPT !.state[h] = [boot |-> pass.boots[h], seen |-> pass.at]]

Forgotten(h) == UNCHANGED bootMemory

\* The exception ends the tick.
SeeBootFails(h) ==
    /\ Pending(h) /\ Changed(h)
    /\ AppendFails(ObservedBoot(h))
    /\ Forgotten(h)
    /\ pass' = NoPass
    /\ UNCHANGED <<clock, boot, resets, checkpoint, reader, baseline>>

See(h) ==
    /\ Pending(h) /\ ~Changed(h)
    /\ Seen(h)
    /\ baseline' = IF bootMemory.state[h] = Unseen
                   THEN baseline \cup {[host |-> h, boot |-> pass.boots[h]]} ELSE baseline
    /\ UNCHANGED <<clock, boot, resets, checkpoint, bootJournal, synced, reader, failures>>

Observing == pass.phase = "observing" /\ pass.pending = {}

\* After a start lastCheckpoint is 0, and the first pass writes one.
CheckpointDue ==
    pass.changed \/ bootMemory.last = 0 \/ bootMemory.last + CheckpointEvery <= pass.at

Finish ==
    /\ Observing
    /\ IF CheckpointDue THEN Checkpointed ELSE UNCHANGED <<bootMemory, checkpoint>>
    /\ pass' = NoPass
    /\ UNCHANGED <<clock, boot, resets, bootJournal, synced, reader, baseline, failures>>

FinishFails ==
    /\ Observing
    /\ CheckpointDue
    /\ CheckpointFails
    /\ pass' = NoPass
    /\ UNCHANGED <<clock, boot, resets, bootJournal, synced, reader, baseline>>

\* The watchdog is started again and reads its checkpoint.
Restarted(state) ==
    /\ bootMemory' = [state |-> state, last |-> 0]
    /\ pass' = NoPass
    /\ failures < MaxFailures
    /\ failures' = failures + 1
    /\ UNCHANGED <<clock, boot, resets, reader, baseline>>

WatchdogKilled ==
    /\ Restarted(checkpoint.visible)
    /\ UNCHANGED <<checkpoint, bootJournal, synced>>

WatchdogPowerLoss ==
    /\ \E state \in {checkpoint.visible, checkpoint.durable} :
         /\ checkpoint' = [visible |-> state, durable |-> state]
         /\ Restarted(state)
    /\ \E n \in synced .. Len(bootJournal) :
         /\ bootJournal' = SubSeq(bootJournal, 1, n)
         /\ synced' = n

-----------------------------------------------------------------------------
(* handleGetRecoveryHistory.                                               *)

Readable == \A i \in 1..Len(bootJournal) : bootJournal[i].readable

\* The identity of a boot is made of its host and boot; a later line replaces
\* an earlier one.
BootId(r) == MaxResets + (r.host - 1) * MaxBoots + r.boot

BootEpisodes ==
    {bootJournal[i] : i \in {i \in 1..Len(bootJournal) :
                               \A j \in i + 1 .. Len(bootJournal) :
                                 BootId(bootJournal[j]) # BootId(bootJournal[i])}}

\* A reset between the last sight of the host and the boot explains the boot.
Explained(r) ==
    \E i \in 1..Len(resets) :
      resets[i].host = r.host /\ r.previous <= resets[i].at /\ resets[i].at <= r.at

\* Entries are known by their time and their identity.
Entries ==
    {<<resets[i].at, i>> : i \in 1..Len(resets)}
    \cup {<<r.at, BootId(r)>> : r \in {r \in BootEpisodes : ~Explained(r)}}

\* Newest first.
Newer(e, f) == e[1] > f[1] \/ (e[1] = f[1] /\ e[2] > f[2])

\* An entry comes after all newer ones.
Place(e, entries) == 1 + Cardinality({f \in entries : Newer(f, e)})

Ordered(entries) ==
    [i \in 1..Cardinality(entries) |-> CHOOSE e \in entries : Place(e, entries) = i]

\* Fault: a cursor is a time.
BeyondTime(e, cursor) == cursor[1] > e[1]

Beyond(e, cursor) == Newer(cursor, e)

\* The next page of a reading and whether more follow.
ReadOn(left, shown, expected) ==
    LET size == IF Len(left) < PageSize THEN Len(left) ELSE PageSize
        page == SubSeq(left, 1, size)
    IN  reader' = [phase |-> IF Len(left) > PageSize THEN "reading" ELSE "done",
                   shown |-> shown \o page, expected |-> expected]

ReadFirst ==
    /\ Readable
    /\ reader.phase # "reading"
    /\ ReadOn(Ordered(Entries), <<>>, Entries)
    /\ UNCHANGED <<clock, boot, resets, bootMemory, checkpoint, bootJournal, synced, pass,
                   baseline, failures>>

ReadNext ==
    /\ Readable
    /\ reader.phase = "reading"
    /\ LET cursor == Last(reader.shown)
       IN  ReadOn(Ordered({e \in Entries : Beyond(e, cursor)}), reader.shown,
                  reader.expected \cap Entries)
    /\ UNCHANGED <<clock, boot, resets, bootMemory, checkpoint, bootJournal, synced, pass,
                   baseline, failures>>

-----------------------------------------------------------------------------
HostObserved(h) == See(h) \/ SeeBoot(h) \/ SeeBootFails(h)

HistoryNext ==
    \/ \E h \in Hosts : Boot(h) \/ Reset(h) \/ HostObserved(h)
    \/ ClockTick
    \/ \E healthy \in SUBSET Hosts : Collect(healthy)
    \/ ObserveBoots
    \/ Finish
    \/ FinishFails
    \/ WatchdogKilled
    \/ WatchdogPowerLoss
    \/ ReadFirst
    \/ ReadNext

HistorySpec == HistoryInit /\ [][HistoryNext]_historyVars

\* The watchdog ticks, and each host is again and again healthy when it does.
FairHistorySpec ==
    /\ HistorySpec
    /\ WF_historyVars(ObserveBoots) /\ WF_historyVars(Finish \/ FinishFails)
    /\ \A h \in Hosts :
         /\ WF_historyVars(HostObserved(h))
         /\ SF_historyVars(\E healthy \in SUBSET Hosts : h \in healthy /\ Collect(healthy))

-----------------------------------------------------------------------------
HistoryTypeOK ==
    /\ clock \in 1..MaxClock
    /\ boot \in [Hosts -> 1..MaxBoots]
    /\ \A i \in 1..Len(resets) : resets[i] \in [host : Hosts, at : 1..MaxClock]
    /\ {bootMemory.state, checkpoint.visible, checkpoint.durable}
         \subseteq [Hosts -> [boot : 0..MaxBoots, seen : 0..MaxClock]]
    /\ \A i \in 1..Len(bootJournal) :
         bootJournal[i] \in [host : Hosts, boot : 1..MaxBoots, at : 1..MaxClock,
                             previous : 1..MaxClock, readable : BOOLEAN]
    /\ synced \in 0..Len(bootJournal)
    /\ pass.phase \in {"none", "collected", "observing"}
    /\ reader.phase \in {"none", "reading", "done"}

OnRecord(h, b, lines) ==
    \/ [host |-> h, boot |-> b] \in baseline
    \/ \E i \in 1..lines : bootJournal[i].host = h /\ bootJournal[i].boot = b

\* Whatever a kill or a power loss leaves, a boot that the checkpoint remembers
\* is in the journal, unless it was the first one seen: no change is skipped.
CheckpointIsBehindJournal ==
    \A h \in Hosts, state \in {checkpoint.visible, checkpoint.durable} :
      state[h].boot # 0 => OnRecord(h, state[h].boot, synced)

\* A client that follows the cursors is shown every entry that was there all
\* the while, once, however many are added, moved or explained meanwhile.
PagesAreComplete ==
    /\ reader.phase # "none" => IsInjective(reader.shown)
    /\ reader.phase = "done" => reader.expected \subseteq ToSet(reader.shown)

\* The boot a host is in comes on durable record, where the server lists it, through
\* kills, power losses and writes that fail, except that a line that was torn makes
\* the server refuse the whole history: the code repairs no journal.
BootIsReported ==
    \A h \in Hosts : []<>(Readable => OnRecord(h, boot[h], synced))
=============================================================================
