---------------------- MODULE AvailabilityWatchdogProofs ----------------------
(***************************************************************************)
(* Proofs about AvailabilityWatchdog, for any number of services and hosts,*)
(* any policy of samples, times and budgets, and any number of faults, and *)
(* about RecoveryHistory: the boot journal is kept by the same process.    *)
(***************************************************************************)
EXTENDS AvailabilityWatchdog, RecoveryHistory, FiniteSetTheorems, SequenceTheorems, TLAPS

-----------------------------------------------------------------------------
(* The intent a tick reconciles *)

\* A set of naturals has a smallest element: the intervals up to its elements are
\* finite sets, among which inclusion is well-founded.
LEMMA SmallestExists ==
    ASSUME NEW S \in SUBSET Nat, S # {}
    PROVE  \E m \in S : \A n \in S : m <= n
<1> DEFINE T == {0..n : n \in S}
<1>1. IsWellFoundedOn(StrictSubsetOrdering(Nat), FiniteSubsetsOf(Nat))
  BY FS_StrictSubsetOrderingWellFounded
<1>2. T \subseteq FiniteSubsetsOf(Nat) /\ T # {}
  <2>1. ASSUME NEW n \in S PROVE 0..n \in FiniteSubsetsOf(Nat)
    BY <2>1, FS_Interval DEF FiniteSubsetsOf
  <2> QED BY <2>1
<1>3. PICK x \in T : \A y \in T : <<y, x>> \notin StrictSubsetOrdering(Nat)
  <2> HIDE DEF T
  <2> QED BY <1>1, <1>2, WFMin
<1>4. PICK m \in S : x = 0..m
  OBVIOUS
<1>5. ASSUME NEW n \in S, n < m
      PROVE  FALSE
  <2>1. 0..n \in SUBSET Nat /\ 0..m \in SUBSET Nat /\ 0..n \subseteq 0..m
    BY <1>5
  <2>2. m \in 0..m /\ m \notin 0..n
    BY <1>5
  <2>3. <<0..n, 0..m>> \in StrictSubsetOrdering(Nat)
    BY <2>1, <2>2 DEF StrictSubsetOrdering
  <2> QED BY <1>3, <1>4, <2>3
<1> QED BY <1>5

\* The oldest unresolved intent exists as soon as there is one.
LEMMA OpenIsUnresolved ==
    ASSUME records \subseteq Record, Unresolved(records) # {}
    PROVE  /\ Open \in Unresolved(records) /\ Open \in records /\ Open \in Record
           /\ Open.id \in Ids /\ Open.key \in Targets /\ Open.phase = "intent"
<1> DEFINE S == {r.id : r \in Unresolved(records)}
<1>1. /\ Unresolved(records) \subseteq records
      /\ \A r \in Unresolved(records) : r.phase = "intent"
  BY DEF Unresolved
<1>2. S \in SUBSET Nat /\ S # {}
  BY <1>1 DEF Record, Ids
<1>3. PICK m \in S : \A n \in S : m <= n
  <2> HIDE DEF S
  <2> QED BY <1>2, SmallestExists
<1>4. \E r \in Unresolved(records) : \A q \in Unresolved(records) : r.id <= q.id
  BY <1>3
<1>5. Open \in Unresolved(records)
  BY <1>4 DEF Open
<1> QED BY <1>1, <1>5 DEF Record

-----------------------------------------------------------------------------
(* Types *)

\* The part of the types that a write touches.
FilesTyped ==
    /\ journal \subseteq Record /\ archive \subseteq Record /\ records \subseteq Record
    /\ unsynced \subseteq journal
    /\ damaged \in BOOLEAN
    /\ IsFiniteSet(journal) /\ IsFiniteSet(records)

\* The part that a collection touches.
WatchTyped ==
    /\ failing \in [Targets -> 0..(Outage + 1)]
    /\ recoveryStreak \in 0..FailureSamples
    /\ sustained \in [id : Ids \cup {0}, samples : 0..FailureSamples]

\* The rest.
TickTyped ==
    /\ now \in 0..MaxTime
    /\ pc \in {"down", "idle", "deciding", "intended", "answered", "ambiguous"}
    /\ decision \in Targets \cup {0} /\ request \in Ids \cup {0}
    /\ streak \in [key : Targets \cup {0}, samples : 0..FailureSamples, since : Nat]
    /\ issued \in 0..MaxIntents /\ faults \in 0..MaxFaults
    /\ commands \in Seq([id : Ids, key : Targets, at : Nat])
    /\ pc = "deciding" => decision \in Targets
    /\ pc \in {"intended", "answered", "ambiguous"} => decision \in Targets /\ request \in Ids

\* The types, with the target and the identifier of a request under way.
TypeInv == FilesTyped /\ WatchTyped /\ TickTyped

LEMMA BoundsTyped ==
    /\ MaxTime \in Nat /\ MaxIntents \in Nat /\ MaxFaults \in Nat
    /\ FailureSamples \in Nat \ {0} /\ Outage \in Nat /\ Cooldown \in Nat /\ Day \in Nat
    /\ Retention \in Nat /\ DailyBudget \in Nat /\ Cooldown <= Day /\ Day <= Retention
    /\ Targets \subseteq Nat /\ 0 \notin Targets /\ 0 \notin Ids /\ Ids \subseteq Nat
    /\ NoStreak \in [key : Targets \cup {0}, samples : 0..FailureSamples, since : Nat]
BY WatchdogAssumption DEF Targets, Ids, NoStreak

LEMMA TypeInit == Init => TypeInv
<1> SUFFICES ASSUME Init PROVE TypeInv
  OBVIOUS
<1>1. FilesTyped
  BY FS_EmptySet DEF Init, FilesTyped
<1>2. WatchTyped
  BY BoundsTyped DEF Init, WatchTyped, Unobserved, NotSustained
<1>3. TickTyped
  BY BoundsTyped DEF Init, TickTyped
<1> QED BY <1>1, <1>2, <1>3 DEF TypeInv

\* What a write, done or failed, may leave in the file, the archive and memory.
LEMMA WriteTyped ==
    ASSUME FilesTyped, NEW r \in Record, Write(r) \/ WriteFails(r)
    PROVE  FilesTyped'
<1>1. /\ Kept \subseteq records
      /\ FileBefore \in {Kept, journal} /\ MemoryBefore \in {Kept, records}
      /\ Archived \subseteq Record
  BY DEF FilesTyped, Kept, FileBefore, MemoryBefore, Archived
<1>2. /\ FileBefore \subseteq Record /\ MemoryBefore \subseteq Record
      /\ IsFiniteSet(FileBefore) /\ IsFiniteSet(MemoryBefore) /\ IsFiniteSet(Kept)
  BY <1>1, FS_Subset DEF FilesTyped
<1>3. IsFiniteSet(FileBefore \cup {r}) /\ IsFiniteSet(MemoryBefore \cup {r})
  BY <1>2, FS_AddElement
<1>4. CASE Write(r)
  <2>1. damaged' \in BOOLEAN
    BY <1>4, Zenon DEF Write
  <2> QED BY <1>1, <1>2, <1>3, <1>4, <2>1 DEF Write, FilesTyped
<1>5. CASE WriteFails(r)
  <2>1. damaged' \in BOOLEAN
    <3>1. damaged' \in {damaged, FALSE, TRUE, damaged /\ ~Compacts}
      BY <1>5, Zenon DEF WriteFails, disk
    <3>2. (damaged /\ ~Compacts) \in BOOLEAN
      BY Zenon
    <3> QED BY <3>1, <3>2, Zenon DEF FilesTyped
  <2>2. /\ journal' \in {journal, Kept, FileBefore, FileBefore \cup {r}}
        /\ records' \in {records, MemoryBefore}
        /\ archive' \in {archive, Archived}
    BY <1>5 DEF WriteFails, disk
  <2>3. unsynced' \subseteq journal'
    <3>1. UNCHANGED <<journal, unsynced>> \/ unsynced' = {}
          \/ (~Compacts /\ journal' = FileBefore /\ unsynced' = unsynced)
          \/ (~Compacts /\ journal' = FileBefore \cup {r}
                /\ unsynced' = unsynced \cup ({r} \ FileBefore))
          \/ (journal' = FileBefore \cup {r} /\ unsynced' = {} \cup ({r} \ FileBefore))
      BY <1>5 DEF WriteFails, disk
    <3> QED BY <3>1 DEF FilesTyped, FileBefore
  <2> QED BY <1>1, <1>2, <1>3, <2>1, <2>2, <2>3 DEF FilesTyped
<1> QED BY <1>4, <1>5

LEMMA ObservedTyped ==
    ASSUME WatchTyped, NEW view \in Views, Observed(view)
    PROVE  failing' \in [Targets -> 0..(Outage + 1)]
<1>1. \A t \in Targets : failing[t] \in 0..(Outage + 1)
  BY DEF WatchTyped
<1> QED BY <1>1, BoundsTyped DEF Observed

LEMMA WatchedTyped ==
    ASSUME WatchTyped, records \subseteq Record, Unresolved(records) # {},
           NEW view \in Views, Watched(view)
    PROVE  WatchTyped'
<1>1. Open.id \in Ids
  BY OpenIsUnresolved
<1>2. failing' \in [Targets -> 0..(Outage + 1)]
  BY BoundsTyped DEF Watched, Unobserved
<1>3. \A n \in 0..FailureSamples : Counted(n) \in 0..FailureSamples
  BY BoundsTyped DEF Counted
<1>4. recoveryStreak' \in 0..FailureSamples
  BY <1>3, BoundsTyped DEF Watched, HealthySamples, WatchTyped
<1>5. sustained' \in [id : Ids \cup {0}, samples : 0..FailureSamples]
  <2>1. sustained.samples \in 0..FailureSamples /\ 0 \in 0..FailureSamples /\ 1 \in 0..FailureSamples
    BY BoundsTyped DEF WatchTyped
  <2> QED BY <1>1, <1>3, <2>1 DEF Watched
<1> QED BY <1>2, <1>4, <1>5 DEF WatchTyped

\* The records a step writes are records.
LEMMA WrittenTyped ==
    ASSUME TypeInv
    PROVE  /\ Unresolved(records) # {} =>
                 \A view : \A phase \in NoteDue(view) :
                     phase \in {"recovered", "failed"} /\ Note(phase) \in Record
           /\ pc = "deciding" /\ issued < MaxIntents => Intent \in Record
           /\ pc \in {"answered", "ambiguous"} => Submitted \in Record
<1>1. now \in Nat /\ issued \in Nat /\ records \subseteq Record
  BY BoundsTyped DEF TypeInv, FilesTyped, WatchTyped, TickTyped
<1>2. ASSUME Unresolved(records) # {}, NEW view, NEW phase \in NoteDue(view)
      PROVE  phase \in {"recovered", "failed"} /\ Note(phase) \in Record
  <2>1. Open.id \in Ids /\ Open.key \in Targets
    BY <1>1, <1>2, OpenIsUnresolved
  <2>2. phase \in {"recovered", "failed"}
    BY <1>2 DEF NoteDue
  <2> QED BY <1>1, <2>1, <2>2 DEF Note, Record
<1>3. pc = "deciding" /\ issued < MaxIntents => Intent \in Record
  BY <1>1, BoundsTyped DEF Intent, Record, TypeInv, TickTyped, Ids
<1>4. pc \in {"answered", "ambiguous"} => Submitted \in Record
  BY DEF Submitted, Record, TypeInv, TickTyped
<1> QED BY <1>2, <1>3, <1>4

LEMMA LongerTyped ==
    ASSUME TypeInv, NEW t \in Targets
    PROVE  Longer(t) \in [key : Targets \cup {0}, samples : 0..FailureSamples, since : Nat]
<1>1. now \in Nat /\ 1 \in 0..FailureSamples
  BY BoundsTyped DEF TypeInv, FilesTyped, WatchTyped, TickTyped
<1>2. streak.samples \in 0..FailureSamples
  BY DEF TypeInv, FilesTyped, WatchTyped, TickTyped
<1>3. Counted(streak.samples) \in 0..FailureSamples
  BY <1>2, BoundsTyped DEF Counted
<1> QED BY <1>1, <1>3 DEF Longer, TypeInv, TickTyped

\* A tick that ends is typed as far as the tick goes.
LEMMA EndsTyped ==
    ASSUME EndsEarly
    PROVE  /\ pc' = "idle" /\ decision' \in Targets \cup {0} /\ request' \in Ids \cup {0}
           /\ streak' \in [key : Targets \cup {0}, samples : 0..FailureSamples, since : Nat]
BY BoundsTyped DEF EndsEarly, EndsTick

\* One step of the process between two of its awaits.
Step(view, inhibited) ==
    \/ Reconcile(view)
    \/ ReconcileNotes(view)
    \/ ReconcileFails(view)
    \/ Hold(view, inhibited)
    \/ Observe(view, inhibited)
    \/ Decide(view, inhibited)
    \/ Cancel(view, inhibited)
    \/ Confirm(view, inhibited)
    \/ ConfirmFails(view, inhibited)

LEMMA TickSteps ==
    Tick => \/ \E view \in Views, inhibited \in BOOLEAN : Step(view, inhibited)
            \/ Submit \/ RecordSubmission \/ SubmissionNotRecorded
<1>1. ASSUME NEW view \in Views, Reconcile(view) \/ ReconcileNotes(view) \/ ReconcileFails(view)
      PROVE  \E v \in Views, inhibited \in BOOLEAN : Step(v, inhibited)
  <2>1. Step(view, TRUE)
    BY <1>1 DEF Step
  <2> QED BY <2>1
<1>2. ASSUME NEW view \in Views, NEW inhibited \in BOOLEAN,
             Hold(view, inhibited) \/ Observe(view, inhibited) \/ Decide(view, inhibited)
             \/ Cancel(view, inhibited) \/ Confirm(view, inhibited) \/ ConfirmFails(view, inhibited)
      PROVE  \E v \in Views, i \in BOOLEAN : Step(v, i)
  BY <1>2 DEF Step
<1> QED BY <1>1, <1>2 DEF Tick

LEMMA StepTyped ==
    ASSUME TypeInv, NEW view \in Views, NEW inhibited \in BOOLEAN, Step(view, inhibited)
    PROVE  TypeInv'
<1>0. /\ FilesTyped /\ WatchTyped /\ TickTyped /\ records \subseteq Record
      /\ now \in Nat /\ issued \in Nat /\ faults \in Nat
  BY BoundsTyped DEF TypeInv, FilesTyped, WatchTyped, TickTyped
<1>1. ASSUME Unresolved(records) # {}, NEW phase \in NoteDue(view)
      PROVE  Note(phase) \in Record
  BY <1>1, WrittenTyped
<1>2. CASE Reconcile(view)
  <2>1. WatchTyped'
    BY <1>0, <1>2, WatchedTyped DEF Reconcile, Reconciling
  <2>2. FilesTyped' /\ TickTyped'
    BY <1>0, <1>2 DEF Reconcile, FilesTyped, TickTyped, disk
  <2> QED BY <2>1, <2>2 DEF TypeInv
<1>3. CASE ReconcileNotes(view)
  <2>1. WatchTyped'
    BY <1>0, <1>3, WatchedTyped DEF ReconcileNotes, Reconciling
  <2>2. FilesTyped'
    BY <1>0, <1>1, <1>3, WriteTyped DEF ReconcileNotes, Reconciling
  <2>3. TickTyped'
    BY <1>0, <1>3 DEF ReconcileNotes, TickTyped
  <2> QED BY <2>1, <2>2, <2>3 DEF TypeInv
<1>4. CASE ReconcileFails(view)
  <2>1. WatchTyped'
    BY <1>0, <1>4, WatchedTyped DEF ReconcileFails, Reconciling
  <2>2. PICK phase \in NoteDue(view) : WriteFails(Note(phase))
    BY <1>4 DEF ReconcileFails
  <2>3. FilesTyped'
    BY <1>0, <1>1, <1>4, <2>2, WriteTyped DEF ReconcileFails, Reconciling
  <2>4. faults < MaxFaults /\ faults' = faults + 1
    BY <2>2 DEF WriteFails
  <2>5. TickTyped'
    BY <1>0, <1>4, <2>4, EndsTyped, BoundsTyped DEF ReconcileFails, TickTyped
  <2> QED BY <2>1, <2>3, <2>5 DEF TypeInv
<1>5. ASSUME Hold(view, inhibited) \/ Observe(view, inhibited) \/ Decide(view, inhibited)
             \/ Cancel(view, inhibited)
      PROVE  TypeInv'
  <2>1. /\ failing' \in [Targets -> 0..(Outage + 1)]
        /\ sustained' \in {sustained, NotSustained}
        /\ UNCHANGED <<now, disk, request, records, recoveryStreak, issued, faults, commands>>
           \/ (EndsTick /\ UNCHANGED <<now, disk, records, recoveryStreak, issued, faults, commands>>)
    BY <1>0, <1>5, ObservedTyped DEF Hold, Observe, Decide, Cancel, Assessing, EndsEarly
  <2>2. WatchTyped' /\ FilesTyped'
    BY <1>0, <2>1, BoundsTyped DEF WatchTyped, FilesTyped, disk, NotSustained
  <2>3. TickTyped'
    <3>1. CASE Hold(view, inhibited)
      BY <1>0, <3>1, BoundsTyped DEF Hold, TickTyped
    <3>2. CASE Observe(view, inhibited)
      <4>1. PICK t \in Targets : streak' = Longer(t)
        BY <3>2 DEF Observe, Assess
      <4>2. streak' \in [key : Targets \cup {0}, samples : 0..FailureSamples, since : Nat]
        BY <4>1, LongerTyped
      <4> QED BY <1>0, <3>2, <4>2 DEF Observe, TickTyped
    <3>3. CASE Decide(view, inhibited)
      <4>1. PICK t \in Targets : streak' = Longer(t) /\ decision' = t
        BY <3>3 DEF Decide, Assess
      <4>2. streak' \in [key : Targets \cup {0}, samples : 0..FailureSamples, since : Nat]
        BY <4>1, LongerTyped
      <4> QED BY <1>0, <3>3, <4>1, <4>2 DEF Decide, TickTyped
    <3>4. CASE Cancel(view, inhibited)
      BY <1>0, <3>4, EndsTyped DEF Cancel, TickTyped
    <3> QED BY <1>5, <3>1, <3>2, <3>3, <3>4
  <2> QED BY <2>2, <2>3 DEF TypeInv
<1>6. ASSUME Confirm(view, inhibited) \/ ConfirmFails(view, inhibited)
      PROVE  TypeInv'
  <2>1. /\ pc = "deciding" /\ issued < MaxIntents /\ issued' = issued + 1
        /\ failing' \in [Targets -> 0..(Outage + 1)]
        /\ UNCHANGED <<now, recoveryStreak, sustained, commands>>
    BY <1>0, <1>6, ObservedTyped DEF Confirm, ConfirmFails
  <2>2. Intent \in Record /\ decision \in Targets
    BY <2>1, WrittenTyped DEF TypeInv, TickTyped
  <2>3. FilesTyped'
    BY <1>0, <1>6, <2>2, WriteTyped DEF Confirm, ConfirmFails
  <2>4. WatchTyped'
    BY <1>0, <2>1 DEF WatchTyped
  <2>5. issued' \in 0..MaxIntents /\ issued + 1 \in Ids
    BY <1>0, <2>1, BoundsTyped DEF Ids
  <2>6. CASE Confirm(view, inhibited)
    <3>1. TickTyped'
      BY <1>0, <2>1, <2>2, <2>5, <2>6 DEF Confirm, TickTyped
    <3> QED BY <2>3, <2>4, <3>1 DEF TypeInv
  <2>7. CASE ConfirmFails(view, inhibited)
    <3>1. faults < MaxFaults /\ faults' = faults + 1
      BY <2>7 DEF ConfirmFails, WriteFails
    <3>2. TickTyped'
      BY <1>0, <2>1, <2>5, <2>7, <3>1, EndsTyped, BoundsTyped DEF ConfirmFails, TickTyped
    <3> QED BY <2>3, <2>4, <3>2 DEF TypeInv
  <2> QED BY <1>6, <2>6, <2>7
<1> QED BY <1>2, <1>3, <1>4, <1>5, <1>6 DEF Step

LEMMA TypeStep ==
    ASSUME TypeInv, [Next]_vars
    PROVE  TypeInv'
<1>0. /\ FilesTyped /\ WatchTyped /\ TickTyped
      /\ now \in Nat /\ issued \in Nat /\ faults \in Nat
  BY BoundsTyped DEF TypeInv, FilesTyped, WatchTyped, TickTyped
<1>1. ASSUME NEW view \in Views, NEW inhibited \in BOOLEAN, Step(view, inhibited)
      PROVE  TypeInv'
  BY <1>1, StepTyped
<1>2. CASE Submit
  <2>1. request \in Ids /\ decision \in Targets
    BY <1>2 DEF Submit, TypeInv, TickTyped
  <2>2. [id |-> request, key |-> decision, at |-> now] \in [id : Ids, key : Targets, at : Nat]
    BY <1>0, <2>1
  <2>3. commands' \in Seq([id : Ids, key : Targets, at : Nat])
    BY <1>0, <1>2, <2>2 DEF Submit, TickTyped
  <2>4. TickTyped'
    BY <1>0, <1>2, <2>1, <2>3 DEF Submit, TickTyped
  <2>5. FilesTyped' /\ WatchTyped'
    BY <1>0, <1>2 DEF Submit, FilesTyped, WatchTyped, disk
  <2> QED BY <2>4, <2>5 DEF TypeInv
<1>3. CASE RecordSubmission
  <2>1. FilesTyped'
    BY <1>0, <1>3, WrittenTyped, WriteTyped DEF RecordSubmission
  <2>2. TickTyped' /\ WatchTyped'
    BY <1>0, <1>3, EndsTyped DEF RecordSubmission, TickTyped, WatchTyped, history
  <2> QED BY <2>1, <2>2 DEF TypeInv
<1>4. CASE SubmissionNotRecorded
  <2>1. FilesTyped'
    BY <1>0, <1>4, WrittenTyped, WriteTyped DEF SubmissionNotRecorded
  <2>2. faults < MaxFaults /\ faults' = faults + 1 /\ WatchTyped'
    BY <1>0, <1>4 DEF SubmissionNotRecorded, WriteFails, WatchTyped
  <2>3. TickTyped'
    BY <1>0, <1>4, <2>2, EndsTyped, BoundsTyped DEF SubmissionNotRecorded, TickTyped
  <2> QED BY <2>1, <2>2, <2>3 DEF TypeInv
<1>5. CASE Start
  <2>1. FilesTyped' /\ WatchTyped'
    BY <1>0, <1>5, BoundsTyped DEF Start, FilesTyped, WatchTyped, disk, history
  <2>2. TickTyped'
    BY <1>0, <1>5, EndsTyped DEF Start, TickTyped, history
  <2> QED BY <2>1, <2>2 DEF TypeInv
<1>6. ASSUME Kill \/ PowerLoss
      PROVE  TypeInv'
  <2>1. Stopped
    BY <1>6 DEF Kill, PowerLoss
  <2>2. TickTyped' /\ WatchTyped'
    BY <1>0, <2>1, BoundsTyped DEF Stopped, TickTyped, WatchTyped, Unobserved, NotSustained
  <2>3. damaged' \in BOOLEAN
    <3>1. damaged' \in {damaged, damaged \/ unsynced # {}}
      BY <1>6, Zenon DEF Kill, PowerLoss
    <3>2. (damaged \/ unsynced # {}) \in BOOLEAN
      BY Zenon
    <3> QED BY <1>0, <3>1, <3>2, Zenon DEF FilesTyped
  <2>4. /\ journal' \subseteq journal /\ unsynced' \subseteq journal'
        /\ archive' = archive /\ records' = {}
    BY <1>0, <1>6, <2>1 DEF Kill, PowerLoss, Stopped, FilesTyped
  <2>5. IsFiniteSet(journal') /\ IsFiniteSet(records')
    BY <1>0, <2>4, FS_Subset, FS_EmptySet DEF FilesTyped
  <2>6. FilesTyped'
    BY <1>0, <2>3, <2>4, <2>5 DEF FilesTyped
  <2> QED BY <2>2, <2>6 DEF TypeInv
<1>7. CASE Pass
  <2>1. \A n \in 0..(Outage + 1) : Older(n) \in 0..(Outage + 1)
    BY BoundsTyped DEF Older
  <2>2. failing' \in [Targets -> 0..(Outage + 1)]
    BY <1>0, <1>7, <2>1 DEF Pass, WatchTyped
  <2>3. WatchTyped' /\ FilesTyped'
    BY <1>0, <1>7, <2>2 DEF Pass, WatchTyped, FilesTyped, disk, memory
  <2>4. now' \in 0..MaxTime
    BY <1>0, <1>7, BoundsTyped DEF Pass
  <2>5. TickTyped'
    BY <1>0, <1>7, <2>4 DEF Pass, TickTyped, memory
  <2> QED BY <2>3, <2>5 DEF TypeInv
<1>8. CASE UNCHANGED vars
  BY <1>0, <1>8
     DEF TypeInv, FilesTyped, WatchTyped, TickTyped, vars, disk, memory, history
<1> QED BY <1>1, <1>2, <1>3, <1>4, <1>5, <1>6, <1>7, <1>8, TickSteps DEF Next

\* The state keeps its types, and what is not synced is in the file.
THEOREM TypeCorrect == Spec => []TypeOK
<1>1. TypeInv /\ [Next]_vars => TypeInv'
  BY TypeStep
<1>2. TypeInv => TypeOK
  BY DEF TypeInv, FilesTyped, WatchTyped, TickTyped, TypeOK
<1> QED BY TypeInit, <1>1, <1>2, PTL DEF Spec

-----------------------------------------------------------------------------
(* What the journal, the archive and memory keep *)

Up == pc # "down"

\* The records that no failure takes: synced, and in memory while there is one, for a
\* compaction writes the file anew from memory.
Durable == {r \in journal \ unsynced : Up => r \in records}

\* What memory holds is in the file, or was archived by a compaction that failed after
\* that and will be done again.
Known == Up => \A r \in records : r \in journal \/ (r \in archive /\ r.id \in Retired)

\* Every record has an identifier that was drawn.
Drawn ==
    /\ request <= issued
    /\ \A r \in records \cup journal \cup archive : r.id <= issued

FileInv == TypeInv /\ Known /\ Drawn

\* All that memory holds of an incident is archived, its recovery included.
Retires(r) == r.id \in Retired /\ \A y \in records : y.id = r.id => y \in archive'

\* A write, done or failed, loses nothing durable and adds one record at most.
LEMMA WriteKeeps ==
    ASSUME FilesTyped, Known, Up, Up', now' = now, NEW r, Write(r) \/ WriteFails(r)
    PROVE  /\ archive \subseteq archive' /\ archive' \subseteq archive \cup records
           /\ \A x \in Durable : x \in Durable' \/ Retires(x)
           /\ journal' \subseteq journal \cup {r} /\ records' \subseteq records \cup {r}
           /\ Known'
           /\ Write(r) => /\ r \in Durable'
                          /\ \A x \in records : x \in Durable' \cup archive'
<1>1. /\ Kept \subseteq records /\ \A x \in records : x \notin Kept <=> x.id \in Retired
      /\ \A x \in Durable : x \in records /\ x \in journal /\ x \notin unsynced
      /\ Kept \subseteq journal
      /\ \A x \in records : x \in journal \/ (x \in archive /\ x.id \in Retired)
  BY DEF Kept, Durable, Known
<1>2. Retired \subseteq Retired' \/ ~(records \subseteq records')
  BY DEF Retired
<1>3. CASE Compacts
  <2>0. FileBefore = Kept /\ MemoryBefore = Kept /\ Archived = archive \cup (records \ Kept)
    BY <1>3 DEF FileBefore, MemoryBefore, Archived
  <2>1. CASE archive' = Archived
    <3>1. \A x \in records : x \in archive' \/ x \in Kept
      BY <2>0, <2>1
    <3>2. \A x \in Durable : x.id \in Retired => Retires(x)
      BY <1>1, <2>0, <2>1 DEF Retires
    <3>3. CASE Write(r)
      <4>1. journal' = Kept \cup {r} /\ records' = Kept \cup {r} /\ unsynced' = {}
        BY <2>0, <3>3 DEF Write
      <4> QED BY <1>1, <2>0, <2>1, <3>1, <3>2, <4>1 DEF Durable, Known
    <3>4. CASE WriteFails(r)
      <4>1. CASE UNCHANGED records
        <5>1. \/ UNCHANGED <<journal, unsynced>>
              \/ journal' = Kept /\ unsynced' = {}
              \/ /\ journal' = Kept \cup {r} /\ unsynced' = {r} \ Kept
                 /\ records' = Kept
              \/ journal' = Kept /\ unsynced' = {} /\ records' = Kept
          BY <1>3, <2>0, <3>4, <4>1 DEF WriteFails, disk
        <5>2. Retired' = Retired
          BY <4>1 DEF Retired
        <5>3. Known'
          BY <1>1, <2>0, <2>1, <3>1, <4>1, <5>1, <5>2 DEF Known
        <5>4. \A x \in Durable : x \in Durable' \/ Retires(x)
          BY <1>1, <3>2, <4>1, <5>1 DEF Durable
        <5>5. Write(r) => r \in Durable' /\ \A x \in records : x \in Durable' \cup archive'
          BY <2>0, <3>1, <1>3 DEF Write, Durable
        <5> QED BY <1>1, <2>0, <2>1, <4>1, <5>1, <5>3, <5>4, <5>5
      <4>2. CASE records' = Kept /\ ~UNCHANGED records
        <5>1. \/ journal' = Kept /\ unsynced' = {}
              \/ journal' = Kept \cup {r} /\ unsynced' = {r} \ Kept
          BY <1>3, <2>0, <3>4, <4>2 DEF WriteFails, disk
        <5>2. Known'
          BY <4>2, <5>1 DEF Known
        <5>3. \A x \in Durable : x \in Durable' \/ Retires(x)
          BY <1>1, <3>2, <4>2, <5>1 DEF Durable
        <5>4. Write(r) => r \in Durable' /\ \A x \in records : x \in Durable' \cup archive'
          BY <2>0, <3>1, <1>3 DEF Write, Durable
        <5> QED BY <1>1, <2>0, <2>1, <4>2, <5>1, <5>2, <5>3, <5>4
      <4>3. UNCHANGED records \/ records' = Kept
        BY <2>0, <3>4 DEF WriteFails, disk
      <4> QED BY <4>1, <4>2, <4>3
    <3> QED BY <3>3, <3>4
  <2>2. CASE UNCHANGED <<disk, records>>
    <3>1. Retired' = Retired
      BY <2>2 DEF Retired
    <3>2. Known' /\ Durable' = Durable
      BY <2>2, <3>1 DEF Known, Durable, disk
    <3>3. Write(r) => r \in Durable' /\ \A x \in records : x \in Durable' \cup archive'
      BY <2>0 DEF Write, Durable, disk
    <3> QED BY <2>2, <3>2, <3>3 DEF disk
  <2>3. archive' = Archived \/ UNCHANGED <<disk, records>>
    BY DEF Write, WriteFails, disk
  <2> QED BY <2>1, <2>2, <2>3
<1>4. CASE ~Compacts
  <2>0. FileBefore = journal /\ MemoryBefore = records /\ Archived = archive
    BY <1>4 DEF FileBefore, MemoryBefore, Archived
  <2>1. CASE Write(r)
    <3>1. /\ journal' = journal \cup {r} /\ records' = records \cup {r}
          /\ archive' = archive /\ unsynced' = {}
      BY <2>0, <2>1 DEF Write
    <3> QED BY <1>1, <1>2, <3>1 DEF Durable, Known
  <2>2. CASE WriteFails(r)
    <3>1. /\ archive' = archive /\ records' = records
          /\ \/ journal' = journal /\ unsynced' = unsynced
             \/ journal' = journal \cup {r} /\ unsynced' = unsynced \cup ({r} \ journal)
      BY <1>4, <2>0, <2>2 DEF WriteFails, disk
    <3>2. Durable' = Durable
      BY <1>1, <3>1 DEF Durable
    <3>3. Known'
      BY <1>1, <1>2, <3>1 DEF Known
    <3>4. Write(r) => r \in Durable' /\ \A x \in records : x \in Durable' \cup archive'
      BY <1>1, <2>0, <3>1 DEF Write, Durable
    <3> QED BY <3>1, <3>2, <3>3, <3>4
  <2> QED BY <2>1, <2>2
<1> QED BY <1>3, <1>4

\* What a step may write: an intent only as a tick's second collection confirms its
\* decision, and a recovery only with its time.
NewRecord(r) ==
    /\ r \in Record /\ r.id <= issued'
    /\ r.phase = "recovered" => r.at = now
    /\ r.phase = "intent" =>
          /\ r = Intent /\ pc = "deciding" /\ issued' = issued + 1
          /\ failing[decision] > Outage => failing'[decision] > Outage

WriteStep(r) == Up /\ Up' /\ now' = now /\ (Write(r) \/ WriteFails(r)) /\ NewRecord(r)

StillStep == UNCHANGED <<disk, records>> /\ Up' = Up

\* A step writes one record, or leaves the files and memory alone, or starts or stops
\* the process.
LEMMA StepKinds ==
    ASSUME TypeInv, Drawn, [Next]_vars
    PROVE  /\ issued <= issued' /\ request' <= issued' /\ now <= now'
           /\ (\E r : WriteStep(r)) \/ StillStep \/ Start \/ Kill \/ PowerLoss
<1>0. /\ now \in Nat /\ issued \in Nat /\ records \subseteq Record /\ request <= issued
      /\ request \in Nat
  BY BoundsTyped DEF TypeInv, FilesTyped, TickTyped, Drawn
<1>1. ASSUME NEW view \in Views, NEW inhibited \in BOOLEAN, Step(view, inhibited)
      PROVE  /\ issued <= issued' /\ request' <= issued' /\ now <= now'
             /\ (\E r : WriteStep(r)) \/ StillStep
  <2>1. CASE Reconcile(view) \/ Hold(view, inhibited) \/ Observe(view, inhibited)
             \/ Decide(view, inhibited) \/ Cancel(view, inhibited)
    BY <1>0, <2>1 DEF Reconcile, Hold, Observe, Decide, Cancel, Assessing, Reconciling, EndsEarly,
                      EndsTick, StillStep, Up
  <2>2. CASE ReconcileNotes(view) \/ ReconcileFails(view)
    <3>1. PICK phase \in NoteDue(view) : Write(Note(phase)) \/ WriteFails(Note(phase))
      BY <2>2 DEF ReconcileNotes, ReconcileFails
    <3>2. Unresolved(records) # {} /\ Up /\ Up' /\ now' = now /\ issued' = issued
      BY <2>2 DEF ReconcileNotes, ReconcileFails, Reconciling, EndsEarly, EndsTick, Up
    <3>3. phase \in {"recovered", "failed"} /\ Note(phase) \in Record
      BY <3>2, WrittenTyped
    <3>4. Open \in records
      BY <1>0, <3>2, OpenIsUnresolved
    <3>5. NewRecord(Note(phase))
      BY <3>2, <3>3, <3>4 DEF NewRecord, Note, Drawn
    <3>6. request' = request \/ request' = 0
      BY <2>2 DEF ReconcileNotes, ReconcileFails, EndsEarly, EndsTick
    <3> QED BY <1>0, <3>1, <3>2, <3>5, <3>6 DEF WriteStep
  <2>3. CASE Confirm(view, inhibited) \/ ConfirmFails(view, inhibited)
    <3>1. /\ pc = "deciding" /\ issued < MaxIntents /\ issued' = issued + 1 /\ now' = now
          /\ Write(Intent) \/ WriteFails(Intent)
          /\ Observed(view) /\ Assess(view) = {decision}
          /\ Up /\ Up' /\ request' \in {0, issued + 1}
      BY <2>3 DEF Confirm, ConfirmFails, StillProven, EndsEarly, EndsTick, Up
    <3>2. Intent \in Record
      BY <3>1, WrittenTyped
    <3>3. failing[decision] > Outage => failing'[decision] > Outage
      <4>1. decision \in Targets /\ view[decision] = "failed"
        BY <3>1 DEF Assess
      <4>2. failing[decision] \in Nat
        BY <4>1, BoundsTyped DEF TypeInv, WatchTyped
      <4> QED BY <3>1, <4>1, <4>2, BoundsTyped DEF Observed
    <3>4. NewRecord(Intent)
      BY <1>0, <3>1, <3>2, <3>3 DEF NewRecord, Intent
    <3>5. WriteStep(Intent)
      BY <3>1, <3>4 DEF WriteStep
    <3> QED BY <1>0, <3>1, <3>5
  <2> QED BY <1>1, <2>1, <2>2, <2>3 DEF Step
<1>2. CASE Submit \/ Pass \/ UNCHANGED vars
  BY <1>0, <1>2 DEF Submit, Pass, StillStep, Up, vars, disk, memory, history
<1>3. CASE RecordSubmission \/ SubmissionNotRecorded
  <2>1. /\ pc \in {"answered", "ambiguous"} /\ Up /\ Up' /\ now' = now /\ issued' = issued
        /\ Write(Submitted) \/ WriteFails(Submitted)
        /\ request' \in {0, request}
    BY <1>3 DEF RecordSubmission, SubmissionNotRecorded, EndsEarly, EndsTick, Up, history
  <2>2. Submitted \in Record
    BY <2>1, WrittenTyped
  <2>3. NewRecord(Submitted)
    BY <1>0, <2>1, <2>2 DEF NewRecord, Submitted
  <2> QED BY <1>0, <2>1, <2>3 DEF WriteStep
<1>4. CASE Start
  BY <1>0, <1>4 DEF Start, EndsEarly, EndsTick, history
<1>5. CASE Kill \/ PowerLoss
  BY <1>0, <1>5 DEF Kill, PowerLoss, Stopped
<1> QED BY <1>1, <1>2, <1>3, <1>4, <1>5, TickSteps DEF Next

\* No step loses what is durable, except that a compaction archives an incident as a whole.
LEMMA FilesStep ==
    ASSUME FileInv, [Next]_vars
    PROVE  /\ FileInv'
           /\ archive \subseteq archive'
           /\ \A x \in Durable : x \in Durable' \/ (Up /\ Retires(x))
           /\ \A x \in journal' : x \in journal \/ NewRecord(x)
           /\ \A x \in records' : x \in records \cup journal \/ NewRecord(x)
<1>0. /\ TypeInv /\ TypeInv' /\ Known /\ Drawn /\ FilesTyped
      /\ issued \in Nat /\ issued' \in Nat
      /\ \A x \in records \cup journal \cup archive : x.id \in Nat
  <2>1. TypeInv /\ TypeInv' /\ FilesTyped
    BY TypeStep DEF FileInv, TypeInv
  <2>2. issued \in Nat /\ issued' \in Nat
    BY <2>1, BoundsTyped DEF TypeInv, TickTyped
  <2>3. \A x \in Record : x.id \in Nat
    BY BoundsTyped DEF Record
  <2> QED BY <2>1, <2>2, <2>3 DEF FileInv, FilesTyped
<1>1. issued <= issued' /\ request' <= issued'
  BY <1>0, StepKinds
<1>2. ASSUME /\ archive' \subseteq archive \cup records
             /\ \A x \in journal' : x \in journal \/ NewRecord(x)
             /\ \A x \in records' : x \in records \cup journal \/ NewRecord(x)
      PROVE  Drawn'
  BY <1>0, <1>1, <1>2 DEF Drawn, NewRecord
<1>3. ASSUME NEW r, WriteStep(r)
      PROVE  /\ archive \subseteq archive' /\ archive' \subseteq archive \cup records
             /\ \A x \in Durable : x \in Durable' \/ (Up /\ Retires(x))
             /\ \A x \in journal' : x \in journal \/ NewRecord(x)
             /\ \A x \in records' : x \in records \cup journal \/ NewRecord(x)
             /\ Known'
  <2>1. Up /\ Up' /\ now' = now /\ (Write(r) \/ WriteFails(r)) /\ NewRecord(r)
    BY <1>3 DEF WriteStep
  <2> QED BY <1>0, <2>1, WriteKeeps
<1>4. ASSUME StillStep \/ Start \/ Kill \/ PowerLoss
      PROVE  /\ archive' = archive
             /\ \A x \in Durable : x \in Durable'
             /\ \A x \in journal' : x \in journal
             /\ \A x \in records' : x \in records \cup journal
             /\ Known'
  <2>1. CASE StillStep
    <3>1. UNCHANGED <<journal, unsynced, archive, records>> /\ Up' = Up
      BY <2>1 DEF StillStep, disk
    <3>2. now <= now' /\ now \in Nat /\ now' \in Nat
      BY <1>0, StepKinds, BoundsTyped DEF TypeInv, TickTyped
    <3>3. \A r \in records : r.at \in Nat
      BY <1>0 DEF FilesTyped, Record
    <3>4. Retired \subseteq Retired'
      BY <3>1, <3>2, <3>3, BoundsTyped DEF Retired
    <3> QED BY <1>0, <3>1, <3>4 DEF Durable, Known
  <2>2. CASE Start
    BY <2>2 DEF Start, disk, Durable, Known, Up
  <2>3. CASE Kill \/ PowerLoss
    <3>1. /\ ~Up' /\ archive' = archive /\ records' = {}
          /\ \/ journal' = journal /\ unsynced' = unsynced
             \/ unsynced' = {} /\ \E lost \in SUBSET unsynced : journal' = journal \ lost
      BY <2>3 DEF Kill, PowerLoss, Stopped, Up
    <3> QED BY <3>1 DEF Durable, Known
  <2> QED BY <1>4, <2>1, <2>2, <2>3
<1>5. (\E r : WriteStep(r)) \/ StillStep \/ Start \/ Kill \/ PowerLoss
  BY <1>0, StepKinds
<1> QED
  <2>1. CASE \E r : WriteStep(r)
    <3>1. PICK r : WriteStep(r)
      BY <2>1
    <3> QED BY <1>0, <1>2, <1>3, <3>1 DEF FileInv
  <2>2. CASE StillStep \/ Start \/ Kill \/ PowerLoss
    BY <1>0, <1>2, <1>4, <2>2 DEF FileInv
  <2> QED BY <1>5, <2>1, <2>2

-----------------------------------------------------------------------------
(* The calls of the server, and what is known of each *)

Command == [id : Ids, key : Targets, at : Nat]

LEMMA CommandsTyped ==
    /\ \A c \in Command : c.id \in Nat /\ c.at \in Nat /\ c.key \in Targets
    /\ TypeInv => /\ Len(commands) \in Nat
                  /\ \A i \in 1..Len(commands) : commands[i] \in Command
<1>1. \A c \in Command : c.id \in Nat /\ c.at \in Nat /\ c.key \in Targets
  BY BoundsTyped DEF Command
<1>2. TypeInv => commands \in Seq(Command)
  BY DEF TypeInv, TickTyped, Command
<1> QED BY <1>1, <1>2

IntentOf(c) == [phase |-> "intent", id |-> c.id, key |-> c.key, at |-> c.at]

\* The recovery of an incident is on record where no failure reaches it.
Settled(id) == \E r \in archive \cup Durable : r.phase = "recovered" /\ r.id = id

\* The intent of a call is durable until its incident is settled and the call too old to
\* count.
Remembered(c) ==
    \/ IntentOf(c) \in Durable
    \/ Settled(c.id) /\ c.at + Day < now

\* What holds of each call: its recovery comes after it.
Accounted(c) ==
    /\ c.id <= issued /\ c.at <= now
    /\ Remembered(c)
    /\ \A r \in records \cup journal : r.phase = "recovered" /\ r.id = c.id => c.at <= r.at

\* The same of the next state.
SettledNext(id) == \E r \in archive' \cup Durable' : r.phase = "recovered" /\ r.id = id

AccountedNext(c) ==
    /\ c.id <= issued' /\ c.at <= now'
    /\ IntentOf(c) \in Durable' \/ (SettledNext(c.id) /\ c.at + Day < now')
    /\ \A r \in records' \cup journal' : r.phase = "recovered" /\ r.id = c.id => c.at <= r.at

LEMMA SettledStays ==
    ASSUME FileInv, [Next]_vars, NEW id, Settled(id)
    PROVE  SettledNext(id)
<1>1. PICK r \in archive \cup Durable : r.phase = "recovered" /\ r.id = id
  BY DEF Settled
<1>2. r \in archive' \/ r \in Durable' \/ (r \in Durable /\ Up /\ Retires(r))
  BY FilesStep
<1>3. r \in Durable /\ Up => r \in records
  BY DEF Durable
<1>4. r \in archive' \cup Durable'
  BY <1>2, <1>3 DEF Retires
<1> QED BY <1>1, <1>4 DEF SettledNext

\* An intent leaves the journal with its recovery, a retention time after that.
LEMMA AccountedStays ==
    ASSUME FileInv, [Next]_vars, NEW c \in Command, Accounted(c)
    PROVE  AccountedNext(c)
<1>0. /\ TypeInv /\ now \in Nat /\ now' \in Nat /\ now <= now'
      /\ issued \in Nat /\ issued' \in Nat /\ issued <= issued'
      /\ c.id \in Nat /\ c.at \in Nat
  <2>1. TypeInv /\ TypeInv' /\ Drawn
    BY TypeStep DEF FileInv
  <2>2. now <= now' /\ issued <= issued'
    BY <2>1, StepKinds
  <2>3. now \in Nat /\ issued \in Nat /\ now' \in Nat /\ issued' \in Nat
    BY <2>1, BoundsTyped DEF TypeInv, TickTyped
  <2> QED BY <2>1, <2>2, <2>3, CommandsTyped
<1>1. c.id <= issued' /\ c.at <= now'
  BY <1>0 DEF Accounted
<1>2. IntentOf(c) \in Durable' \/ (SettledNext(c.id) /\ c.at + Day < now')
  <2>1. CASE Settled(c.id) /\ c.at + Day < now
    <3>1. SettledNext(c.id)
      BY <2>1, SettledStays
    <3> QED BY <1>0, <2>1, <3>1, BoundsTyped
  <2>2. CASE IntentOf(c) \in Durable /\ IntentOf(c) \notin Durable'
    <3>1. Up /\ Retires(IntentOf(c))
      BY <2>2, FilesStep
    <3>2. IntentOf(c).id = c.id
      BY DEF IntentOf
    <3>3. PICK q \in records : q.phase = "recovered" /\ q.at + Retention < now /\ q.id = c.id
      BY <3>1, <3>2 DEF Retires, Retired
    <3>4. q \in archive'
      BY <3>1, <3>2, <3>3 DEF Retires
    <3>5. SettledNext(c.id)
      BY <3>3, <3>4 DEF SettledNext
    <3>6. c.at <= q.at /\ q.at \in Nat
      BY <1>0, <3>3 DEF Accounted, TypeInv, FilesTyped, Record
    <3>7. c.at + Day < now'
      BY <1>0, <3>3, <3>6, BoundsTyped
    <3> QED BY <3>5, <3>7
  <2> QED BY <2>1, <2>2 DEF Accounted, Remembered
<1>3. ASSUME NEW r \in records' \cup journal', r.phase = "recovered", r.id = c.id
      PROVE  c.at <= r.at
  <2>1. r \in records \cup journal \/ NewRecord(r)
    BY FilesStep
  <2>2. NewRecord(r) => r.at = now
    BY <1>3 DEF NewRecord
  <2> QED BY <1>0, <1>3, <2>1, <2>2 DEF Accounted
<1> QED BY <1>1, <1>2, <1>3 DEF AccountedNext

-----------------------------------------------------------------------------
(* The budget of a call *)

\* A call of a target at a time keeps the budget and the cooldown after the first n calls.
BudgetKept(key, at, n) ==
    /\ Cardinality({i \in 1..n : at < commands[i].at + Day}) < DailyBudget
    /\ \A i \in 1..n : commands[i].key = key => at >= commands[i].at + Cooldown

\* The calls that count have their intents in memory, each its own: what the decision
\* counts is at least the calls.
LEMMA BudgetIsKept ==
    ASSUME TypeInv, Up, NEW t, AllowedByHistory(t),
           \A i \in 1..Len(commands) :
               /\ Accounted(commands[i])
               /\ \A k \in 1..(i - 1) : commands[k].id < commands[i].id
    PROVE  BudgetKept(t, now, Len(commands))
<1> DEFINE n == Len(commands)
           Late == {i \in 1..n : now < commands[i].at + Day}
           intent == [i \in Late |-> IntentOf(commands[i])]
<1>0. /\ n \in Nat /\ now \in Nat /\ \A i \in 1..n : commands[i] \in Command
      /\ \A i \in 1..n : commands[i].id \in Nat /\ commands[i].at \in Nat
      /\ IsFiniteSet(records)
  BY CommandsTyped, BoundsTyped DEF TypeInv, TickTyped, FilesTyped
<1>1. ASSUME NEW i \in Late
      PROVE  IntentOf(commands[i]) \in Recent
  <2>1. ~(commands[i].at + Day < now)
    BY <1>0, BoundsTyped
  <2>2. IntentOf(commands[i]) \in Durable
    BY <2>1 DEF Accounted, Remembered
  <2>3. IntentOf(commands[i]) \in records
    BY <2>2 DEF Durable
  <2> QED BY <2>3 DEF Recent, IntentOf
<1>2. IsFiniteSet(Recent) /\ Cardinality(Recent) < DailyBudget
  <2>1. Recent \subseteq records
    BY DEF Recent
  <2> QED BY <1>0, <2>1, FS_Subset DEF AllowedByHistory
<1>3. intent \in Injection(Late, Recent)
  <2>1. intent \in [Late -> Recent]
    BY <1>1
  <2>2. ASSUME NEW i \in Late, NEW k \in Late, i # k
        PROVE  intent[i] # intent[k]
    <3>1. commands[i].id # commands[k].id
      <4>1. i \in 1..(k - 1) \/ k \in 1..(i - 1)
        BY <1>0, <2>2
      <4> QED BY <1>0, <4>1
    <3> QED BY <3>1 DEF IntentOf
  <2> QED BY <2>1, <2>2 DEF Injection, IsInjective
<1>4. IsFiniteSet(Late) /\ Cardinality(Late) <= Cardinality(Recent)
  <2> HIDE DEF Late, intent
  <2> QED BY <1>2, <1>3, FS_Injection
<1>5. Cardinality(Late) < DailyBudget
  <2>1. Cardinality(Late) \in Nat /\ Cardinality(Recent) \in Nat
    BY <1>2, <1>4, FS_CardinalityType
  <2> QED BY <1>2, <1>4, <2>1, BoundsTyped
<1>6. ASSUME NEW i \in 1..n, commands[i].key = t
      PROVE  now >= commands[i].at + Cooldown
  <2>1. SUFFICES ASSUME now < commands[i].at + Cooldown PROVE FALSE
    BY <1>0, BoundsTyped
  <2>2. i \in Late
    BY <1>0, <2>1, BoundsTyped
  <2>3. IntentOf(commands[i]) \in Recent
    BY <1>1, <2>2
  <2> QED BY <1>6, <2>1, <2>3 DEF AllowedByHistory, IntentOf
<1> QED BY <1>5, <1>6 DEF BudgetKept

-----------------------------------------------------------------------------
(* The safety of the calls *)

\* The calls are made one after the other, each when the one before is settled.
CallsInOrder ==
    \A k \in 1..Len(commands) :
        /\ Accounted(commands[k])
        /\ \A i \in 1..(k - 1) :
              commands[i].id < commands[k].id /\ Settled(commands[i].id)

CallsKeepBudget ==
    \A k \in 1..Len(commands) : BudgetKept(commands[k].key, commands[k].at, k - 1)

\* A call about to be made has its intent behind it, and every earlier call is settled.
RequestPrepared ==
    pc = "intended" =>
        /\ request = issued
        /\ IntentOf([id |-> request, key |-> decision, at |-> now]) \in Durable
        /\ \A i \in 1..Len(commands) : commands[i].id < request /\ Settled(commands[i].id)
        /\ \A r \in records \cup journal : r.id = request => r.phase = "intent"
        /\ BudgetKept(decision, now, Len(commands))

\* A decision waits for its second collection with its first still true.
DecisionHolds ==
    pc = "deciding" => AllowedByHistory(decision) /\ failing[decision] > Outage

\* A streak is about a target that every collection since its start found failed.
StreakIsFailing ==
    pc = "idle" /\ streak.key # 0 =>
        /\ Unresolved(records) = {}
        /\ failing[streak.key] > 0 /\ streak.since <= now
        /\ failing[streak.key] > Outage \/ failing[streak.key] >= 1 + (now - streak.since)

CallInv == FileInv /\ CallsInOrder /\ CallsKeepBudget /\ RequestPrepared /\ DecisionHolds /\ StreakIsFailing

LEMMA CallInit == Init => CallInv
<1> SUFFICES ASSUME Init PROVE CallInv
  OBVIOUS
<1>1. TypeInv
  BY TypeInit
<1>2. Known /\ Drawn
  BY DEF Init, Known, Drawn, Up
<1>3. Len(commands) = 0 /\ pc = "down"
  BY DEF Init
<1> QED BY <1>1, <1>2, <1>3
        DEF CallInv, FileInv, CallsInOrder, CallsKeepBudget, RequestPrepared, DecisionHolds,
            StreakIsFailing

\* What a collection that finds a target failed does to its time.
LEMMA ObservedFailed ==
    ASSUME TypeInv, NEW view \in Views, Observed(view), NEW t \in Assess(view)
    PROVE  /\ t \in Targets
           /\ failing[t] \in Nat /\ failing'[t] \in Nat
           /\ failing'[t] = IF failing[t] = 0 THEN 1 ELSE failing[t]
<1>1. t \in Targets /\ view[t] = "failed"
  BY DEF Assess
<1>2. failing[t] \in Nat
  BY <1>1, BoundsTyped DEF TypeInv, WatchTyped
<1> QED BY <1>1, <1>2 DEF Observed

\* A streak grows with the time its target fails.
LEMMA LongerFails ==
    ASSUME TypeInv, StreakIsFailing, pc = "idle",
           NEW view \in Views, Observed(view), NEW t \in Assess(view)
    PROVE  /\ Longer(t).key = t /\ Longer(t).since \in Nat /\ Longer(t).since <= now
           /\ failing'[t] > 0
           /\ failing'[t] > Outage \/ failing'[t] >= 1 + (now - Longer(t).since)
<1>1. /\ t \in Targets /\ t # 0
      /\ failing[t] \in Nat /\ failing'[t] \in Nat
      /\ failing'[t] = IF failing[t] = 0 THEN 1 ELSE failing[t]
  BY ObservedFailed, BoundsTyped
<1>2. now \in Nat /\ Outage \in Nat
  BY BoundsTyped DEF TypeInv, TickTyped
<1>3. CASE streak.key = t
  <2>1. Longer(t).key = t /\ Longer(t).since = streak.since /\ streak.since \in Nat
    BY <1>3 DEF Longer, TypeInv, TickTyped
  <2> QED BY <1>1, <1>2, <1>3, <2>1 DEF StreakIsFailing
<1>4. CASE streak.key # t
  <2>1. Longer(t).key = t /\ Longer(t).since = now
    BY <1>4 DEF Longer
  <2> QED BY <1>1, <1>2, <2>1
<1> QED BY <1>3, <1>4

LEMMA StreakStep ==
    ASSUME FileInv, StreakIsFailing, [Next]_vars
    PROVE  StreakIsFailing'
<1>0. TypeInv /\ now \in Nat /\ Outage \in Nat /\ TypeInv'
  BY TypeStep, BoundsTyped DEF FileInv, TypeInv, TickTyped
<1>1. SUFFICES ASSUME pc' = "idle", streak'.key # 0
               PROVE  /\ Unresolved(records)' = {}
                      /\ failing'[streak'.key] > 0 /\ streak'.since <= now'
                      /\ failing'[streak'.key] > Outage
                         \/ failing'[streak'.key] >= 1 + (now' - streak'.since)
  BY DEF StreakIsFailing
<1>2. ASSUME NEW view \in Views, NEW inhibited \in BOOLEAN, Observe(view, inhibited)
      PROVE  /\ Unresolved(records)' = {}
             /\ failing'[streak'.key] > 0 /\ streak'.since <= now'
             /\ failing'[streak'.key] > Outage
                \/ failing'[streak'.key] >= 1 + (now' - streak'.since)
  <2>1. /\ pc = "idle" /\ Observed(view) /\ Unresolved(records) = {}
        /\ now' = now /\ records' = records
    BY <1>2 DEF Observe, Assessing
  <2>2. PICK t \in Assess(view) : streak' = Longer(t)
    BY <1>2 DEF Observe
  <2>3. Unresolved(records)' = {}
    BY <2>1 DEF Unresolved
  <2> QED BY <1>0, <2>1, <2>2, <2>3, LongerFails
<1>3. CASE Pass
  <2>1. /\ pc = "idle" /\ streak' = streak /\ records' = records /\ now' = now + 1
        /\ failing' = [t \in Targets |-> Older(failing[t])]
    BY <1>1, <1>3 DEF Pass, memory
  <2>2. streak.key \in Targets /\ streak.since \in Nat
    BY <1>0, <1>1, <2>1 DEF TypeInv, TickTyped
  <2>3. failing[streak.key] \in Nat
    BY <1>0, <2>2 DEF TypeInv, WatchTyped
  <2>4. Unresolved(records)' = {}
    BY <1>1, <2>1 DEF Unresolved, StreakIsFailing
  <2>5. failing'[streak.key] = Older(failing[streak.key])
    BY <2>1, <2>2
  <2> QED BY <1>0, <1>1, <2>1, <2>2, <2>3, <2>4, <2>5 DEF StreakIsFailing, Older
<1>4. CASE UNCHANGED vars
  BY <1>1, <1>4 DEF StreakIsFailing, vars, disk, memory, history, Unresolved
<1>5. ASSUME NEW view \in Views, NEW inhibited \in BOOLEAN,
             Step(view, inhibited), ~Observe(view, inhibited)
      PROVE  FALSE
  <2>1. CASE Reconcile(view) \/ ReconcileNotes(view)
    BY <1>1, <2>1 DEF Reconcile, ReconcileNotes, Reconciling, StreakIsFailing
  <2>2. CASE ReconcileFails(view) \/ Hold(view, inhibited) \/ Cancel(view, inhibited)
             \/ ConfirmFails(view, inhibited)
    BY <1>1, <2>2 DEF ReconcileFails, Hold, Cancel, ConfirmFails, EndsEarly, NoStreak
  <2>3. CASE Decide(view, inhibited) \/ Confirm(view, inhibited)
    BY <1>1, <2>3 DEF Decide, Confirm
  <2> QED BY <1>5, <2>1, <2>2, <2>3 DEF Step
<1>6. ASSUME Submit \/ RecordSubmission \/ SubmissionNotRecorded \/ Start \/ Kill \/ PowerLoss
      PROVE  FALSE
  BY <1>1, <1>6
     DEF Submit, RecordSubmission, SubmissionNotRecorded, Start, Kill, PowerLoss, Stopped,
         EndsEarly, NoStreak
<1> QED BY <1>2, <1>3, <1>4, <1>5, <1>6, TickSteps DEF Next

LEMMA DecisionStep ==
    ASSUME FileInv, StreakIsFailing, DecisionHolds, [Next]_vars
    PROVE  DecisionHolds'
<1>0. /\ TypeInv /\ now \in Nat /\ Outage \in Nat /\ IsFiniteSet(records)
      /\ \A r \in records : r.at \in Nat
  BY BoundsTyped DEF FileInv, TypeInv, TickTyped, FilesTyped, Record
<1>1. SUFFICES ASSUME pc' = "deciding"
               PROVE  AllowedByHistory(decision)' /\ failing'[decision'] > Outage
  BY DEF DecisionHolds
<1>2. ASSUME NEW view \in Views, NEW inhibited \in BOOLEAN, Decide(view, inhibited)
      PROVE  AllowedByHistory(decision)' /\ failing'[decision'] > Outage
  <2>1. /\ pc = "idle" /\ Observed(view) /\ now' = now /\ records' = records
    BY <1>2 DEF Decide, Assessing
  <2>2. PICK t \in Assess(view) : Proven(Longer(t)) /\ AllowedByHistory(t) /\ decision' = t
    BY <1>2 DEF Decide
  <2>3. AllowedByHistory(decision)'
    BY <2>1, <2>2 DEF AllowedByHistory, Unresolved, Recent
  <2>4. failing'[t] \in Nat
    BY <1>0, <2>1, ObservedFailed
  <2>5. /\ Longer(t).since \in Nat
        /\ failing'[t] > 0
        /\ failing'[t] > Outage \/ failing'[t] >= 1 + (now - Longer(t).since)
    BY <1>0, <2>1, LongerFails
  <2>6. now >= Longer(t).since + Outage
    BY <2>2 DEF Proven
  <2> QED BY <1>0, <2>2, <2>3, <2>4, <2>5, <2>6
<1>3. CASE Pass
  <2>1. /\ pc = "deciding" /\ decision' = decision /\ records' = records /\ now' = now + 1
        /\ failing' = [t \in Targets |-> Older(failing[t])]
    BY <1>1, <1>3 DEF Pass, memory
  <2>2. decision \in Targets /\ failing[decision] \in Nat
    BY <1>0, <2>1 DEF TypeInv, TickTyped, WatchTyped
  <2>3. failing'[decision'] > Outage
    BY <1>0, <2>1, <2>2 DEF DecisionHolds, Older
  <2>4. Recent' \subseteq Recent
    BY <1>0, <2>1, BoundsTyped DEF Recent
  <2>5. IsFiniteSet(Recent)
    <3>1. Recent \subseteq records
      BY DEF Recent
    <3> QED BY <1>0, <3>1, FS_Subset
  <2>6. Cardinality(Recent') <= Cardinality(Recent)
        /\ Cardinality(Recent') \in Nat /\ Cardinality(Recent) \in Nat
    BY <2>4, <2>5, FS_Subset, FS_CardinalityType
  <2>7. AllowedByHistory(decision)
    BY <2>1 DEF DecisionHolds
  <2>8. Cardinality(Recent') < DailyBudget /\ Unresolved(records)' = {}
    BY <2>1, <2>6, <2>7, BoundsTyped DEF AllowedByHistory, Unresolved
  <2>9. ~\E r \in Recent' : r.key = decision /\ now' < r.at + Cooldown
    <3>1. \A r \in Recent' : r \in Recent /\ r.at \in Nat
      BY <1>0, <2>4 DEF Recent
    <3> QED BY <1>0, <2>1, <2>7, <3>1, BoundsTyped DEF AllowedByHistory
  <2> QED BY <2>1, <2>3, <2>8, <2>9 DEF AllowedByHistory
<1>4. CASE UNCHANGED vars
  BY <1>1, <1>4
     DEF DecisionHolds, AllowedByHistory, Unresolved, Recent, vars, disk, memory, history
<1>5. ASSUME NEW view \in Views, NEW inhibited \in BOOLEAN,
             Step(view, inhibited), ~Decide(view, inhibited)
      PROVE  FALSE
  BY <1>1, <1>5
     DEF Step, Reconcile, ReconcileNotes, ReconcileFails, Hold, Observe, Cancel, Confirm,
         ConfirmFails, Reconciling, Assessing, EndsEarly, EndsTick
<1>6. ASSUME Submit \/ RecordSubmission \/ SubmissionNotRecorded \/ Start \/ Kill \/ PowerLoss
      PROVE  FALSE
  BY <1>1, <1>6
     DEF Submit, RecordSubmission, SubmissionNotRecorded, Start, Kill, PowerLoss, Stopped,
         EndsEarly, EndsTick
<1> QED BY <1>2, <1>3, <1>4, <1>5, <1>6, TickSteps DEF Next

\* The request is prepared when its intent is written, and made before anything else.
LEMMA RequestStep ==
    ASSUME CallInv, [Next]_vars
    PROVE  RequestPrepared'
<1>0. /\ FileInv /\ TypeInv /\ Drawn /\ CallsInOrder /\ RequestPrepared /\ DecisionHolds
      /\ now \in Nat /\ issued \in Nat
      /\ Len(commands) \in Nat /\ \A i \in 1..Len(commands) : commands[i] \in Command
  <2>1. FileInv /\ TypeInv /\ Drawn /\ CallsInOrder /\ RequestPrepared /\ DecisionHolds
    BY DEF CallInv, FileInv
  <2> QED BY <2>1, CommandsTyped, BoundsTyped DEF TypeInv, TickTyped
<1>1. SUFFICES ASSUME pc' = "intended"
               PROVE  RequestPrepared'
  BY DEF RequestPrepared
<1>2. ASSUME NEW view \in Views, NEW inhibited \in BOOLEAN, Confirm(view, inhibited)
      PROVE  RequestPrepared'
  <2>1. /\ pc = "deciding" /\ issued' = issued + 1 /\ request' = issued + 1 /\ Write(Intent)
        /\ now' = now /\ decision' = decision /\ commands' = commands /\ Up /\ Up'
    BY <1>2, <1>1 DEF Confirm, Up
  <2>2. /\ Intent \in Durable'
        /\ \A x \in records : x \in Durable' \cup archive'
    BY <1>0, <2>1, WriteKeeps DEF FileInv, TypeInv
  <2>3. IntentOf([id |-> request, key |-> decision, at |-> now])' \in Durable'
    BY <2>1, <2>2 DEF IntentOf, Intent
  <2>4. ASSUME NEW i \in 1..Len(commands)
        PROVE  commands[i].id < request' /\ SettledNext(commands[i].id)
    <3>1. Accounted(commands[i]) /\ commands[i].id \in Nat
      BY <1>0, CommandsTyped DEF CallsInOrder
    <3>2. CASE Settled(commands[i].id)
      BY <1>0, <2>1, <3>1, <3>2, SettledStays DEF Accounted
    <3>3. CASE IntentOf(commands[i]) \in Durable
      <4>1. IntentOf(commands[i]) \in records
        BY <2>1, <3>3 DEF Durable
      <4>2. Unresolved(records) = {}
        BY <1>0, <2>1 DEF DecisionHolds, AllowedByHistory
      <4>3. PICK x \in records : x.phase = "recovered" /\ x.id = commands[i].id
        BY <4>1, <4>2 DEF Unresolved, IntentOf
      <4>4. SettledNext(commands[i].id)
        BY <2>2, <4>3 DEF SettledNext
      <4> QED BY <1>0, <2>1, <3>1, <4>4 DEF Accounted
    <3> QED BY <3>1, <3>2, <3>3 DEF Accounted, Remembered
  <2>5. \A r \in records' \cup journal' : r.id = request' => r.phase = "intent"
    <3>1. SUFFICES ASSUME NEW r \in records' \cup journal', r.id = issued + 1
                   PROVE  r.phase = "intent"
      BY <2>1
    <3>2. r \in records \cup journal \/ r = Intent
      BY <1>0, <2>1, WriteKeeps DEF FileInv, TypeInv
    <3>3. \A x \in records \cup journal : x.id <= issued /\ x.id \in Nat
      BY <1>0, BoundsTyped DEF Drawn, TypeInv, FilesTyped, Record
    <3> QED BY <1>0, <3>1, <3>2, <3>3 DEF Intent
  <2>6. BudgetKept(decision, now, Len(commands))
    BY <1>0, <2>1, BudgetIsKept DEF DecisionHolds, CallsInOrder
  <2>7. BudgetKept(decision, now, Len(commands))'
    BY <2>1, <2>6 DEF BudgetKept
  <2>8. \A i \in 1..Len(commands) : commands[i].id < request' /\ Settled(commands[i].id)'
    BY <2>1, <2>4 DEF SettledNext, Settled
  <2> QED BY <2>1, <2>3, <2>5, <2>7, <2>8 DEF RequestPrepared, Settled
<1>3. CASE UNCHANGED vars
  BY <1>0, <1>3
     DEF RequestPrepared, Durable, Up, Settled, IntentOf, BudgetKept, vars, disk, memory, history
<1>4. ASSUME NEW view \in Views, NEW inhibited \in BOOLEAN,
             Step(view, inhibited), ~Confirm(view, inhibited)
      PROVE  FALSE
  BY <1>1, <1>4
     DEF Step, Reconcile, ReconcileNotes, ReconcileFails, Hold, Observe, Decide, Cancel,
         ConfirmFails, Reconciling, Assessing, EndsEarly, EndsTick
<1>5. ASSUME Submit \/ RecordSubmission \/ SubmissionNotRecorded \/ Start \/ Kill \/ PowerLoss \/ Pass
      PROVE  FALSE
  BY <1>1, <1>5
     DEF Submit, RecordSubmission, SubmissionNotRecorded, Start, Kill, PowerLoss, Stopped, Pass,
         memory, EndsEarly, EndsTick
<1> QED BY <1>2, <1>3, <1>4, <1>5, TickSteps DEF Next

\* Only a request adds a call.
LEMMA CallsChange ==
    ASSUME [Next]_vars
    PROVE  commands' = commands \/ Submit
BY TickSteps DEF Next, Step, Reconcile, ReconcileNotes, ReconcileFails, Hold, Observe, Decide, Cancel,
       Confirm, ConfirmFails, RecordSubmission, SubmissionNotRecorded, Start, Kill, PowerLoss,
       Stopped, Pass, history, vars

LEMMA CallsStep ==
    ASSUME CallInv, [Next]_vars
    PROVE  CallsInOrder' /\ CallsKeepBudget'
<1>0. /\ FileInv /\ TypeInv /\ CallsInOrder /\ CallsKeepBudget /\ RequestPrepared
      /\ Len(commands) \in Nat /\ \A i \in 1..Len(commands) : commands[i] \in Command
      /\ now \in Nat /\ issued \in Nat
  <2>1. FileInv /\ TypeInv /\ CallsInOrder /\ CallsKeepBudget /\ RequestPrepared
    BY DEF CallInv, FileInv
  <2> QED BY <2>1, CommandsTyped, BoundsTyped DEF TypeInv, TickTyped
<1>1. ASSUME NEW k \in 1..Len(commands)
      PROVE  /\ AccountedNext(commands[k])
             /\ \A i \in 1..(k - 1) :
                   commands[i].id < commands[k].id /\ SettledNext(commands[i].id)
  BY <1>0, <1>1, AccountedStays, SettledStays DEF CallsInOrder
<1>2. CASE commands' = commands
  <2>1. CallsKeepBudget'
    BY <1>0, <1>2 DEF CallsKeepBudget, BudgetKept
  <2>2. CallsInOrder'
    BY <1>1, <1>2 DEF CallsInOrder, AccountedNext, Accounted, SettledNext, Settled, Remembered
  <2> QED BY <2>1, <2>2
<1>3. CASE Submit
  <2> DEFINE c == [id |-> request, key |-> decision, at |-> now]
             n == Len(commands)
  <2>1. /\ pc = "intended" /\ commands' = Append(commands, c)
        /\ UNCHANGED <<now, disk, records, issued>> /\ Up' = Up
    BY <1>3 DEF Submit, Up
  <2>2. /\ Len(commands') = n + 1 /\ commands'[n + 1] = c
        /\ \A i \in 1..n : commands'[i] = commands[i]
    BY <1>0, <2>1
  <2>3. /\ request = issued /\ IntentOf(c) \in Durable
        /\ \A i \in 1..n : commands[i].id < request /\ Settled(commands[i].id)
        /\ \A r \in records \cup journal : r.id = request => r.phase = "intent"
        /\ BudgetKept(decision, now, n)
    BY <1>0, <2>1 DEF RequestPrepared
  <2>4. AccountedNext(c)
    <3>1. Durable' = Durable /\ records' = records /\ journal' = journal
      BY <2>1 DEF Durable, disk
    <3> QED BY <1>0, <2>1, <2>3, <3>1 DEF AccountedNext
  <2>5. \A i \in 1..n : commands[i].id < c.id /\ SettledNext(commands[i].id)
    BY <1>0, <2>3, SettledStays
  <2>6. CallsInOrder'
    <3>1. SUFFICES ASSUME NEW k \in 1..(n + 1)
                   PROVE  /\ AccountedNext(commands'[k])
                          /\ \A i \in 1..(k - 1) : /\ commands'[i].id < commands'[k].id
                                                   /\ SettledNext(commands'[i].id)
      BY <2>2 DEF CallsInOrder, AccountedNext, Accounted, SettledNext, Settled, Remembered
    <3>2. CASE k = n + 1
      <4>1. \A i \in 1..(k - 1) : i \in 1..n
        BY <1>0, <3>2
      <4> QED BY <2>2, <2>4, <2>5, <3>2, <4>1
    <3>3. CASE k \in 1..n
      <4>1. \A i \in 1..(k - 1) : i \in 1..n
        BY <1>0, <3>3
      <4> QED BY <1>1, <2>2, <3>3, <4>1
    <3> QED BY <1>0, <3>2, <3>3
  <2>7. CallsKeepBudget'
    <3>1. SUFFICES ASSUME NEW k \in 1..(n + 1)
                   PROVE  /\ Cardinality({i \in 1..(k - 1) : commands'[k].at < commands'[i].at + Day})
                                < DailyBudget
                          /\ \A i \in 1..(k - 1) : commands'[i].key = commands'[k].key
                                => commands'[k].at >= commands'[i].at + Cooldown
      BY <2>2 DEF CallsKeepBudget, BudgetKept
    <3>2. \A i \in 1..(k - 1) : i \in 1..n /\ commands'[i] = commands[i]
      BY <1>0, <2>2
    <3>3. {i \in 1..(k - 1) : commands'[k].at < commands'[i].at + Day}
            = {i \in 1..(k - 1) : commands'[k].at < commands[i].at + Day}
      BY <3>2
    <3>4. CASE k = n + 1
      <4>1. BudgetKept(commands'[k].key, commands'[k].at, k - 1)
        BY <1>0, <2>2, <2>3, <3>4
      <4> QED BY <3>2, <3>3, <4>1 DEF BudgetKept
    <3>5. CASE k \in 1..n
      <4>1. BudgetKept(commands'[k].key, commands'[k].at, k - 1)
        BY <1>0, <2>2, <3>5 DEF CallsKeepBudget
      <4> QED BY <3>2, <3>3, <4>1 DEF BudgetKept
    <3> QED BY <1>0, <3>4, <3>5
  <2> QED BY <2>6, <2>7
<1> QED BY <1>2, <1>3, CallsChange

LEMMA CallStep ==
    ASSUME CallInv, [Next]_vars
    PROVE  CallInv'
<1>1. FileInv'
  BY FilesStep DEF CallInv
<1>2. CallsInOrder' /\ CallsKeepBudget'
  BY CallsStep
<1>3. RequestPrepared'
  BY RequestStep
<1>4. DecisionHolds' /\ StreakIsFailing'
  BY DecisionStep, StreakStep DEF CallInv
<1> QED BY <1>1, <1>2, <1>3, <1>4 DEF CallInv

THEOREM CallsSafe == Spec => []CallInv
<1>1. CallInv /\ [Next]_vars => CallInv'
  BY CallStep
<1> QED BY CallInit, <1>1, PTL DEF Spec

\* Over any lost answers, failed writes and restarts, the server is called once per
\* identifier, and not again before the recovery of the earlier incident is on record.
THEOREM OneCallPerIncident == Spec => []OneOpenIncident
<1>1. CallInv => OneOpenIncident
  <2>1. SUFFICES ASSUME CallInv, NEW i \in 1..Len(commands), NEW k \in 1..Len(commands), i < k
                 PROVE  commands[i].id # commands[k].id /\ RecoveredOnRecord(commands[i].id)
    BY DEF OneOpenIncident
  <2>2. /\ TypeInv /\ CallsInOrder /\ i \in 1..(k - 1)
        /\ commands[i].id \in Nat /\ commands[k].id \in Nat
    BY <2>1, CommandsTyped DEF CallInv, FileInv
  <2>3. commands[i].id < commands[k].id /\ Settled(commands[i].id)
    BY <2>2 DEF CallsInOrder
  <2>4. RecoveredOnRecord(commands[i].id)
    BY <2>3 DEF Settled, RecoveredOnRecord, Durable
  <2> QED BY <2>2, <2>3, <2>4
<1> QED BY CallsSafe, <1>1, PTL

\* The intent of an action whose target has not recovered is where the next start reads
\* it, after any crash.
THEOREM IntentsSurvive == Spec => []UnresolvedIsRemembered
<1>1. CallInv => UnresolvedIsRemembered
  <2>1. SUFFICES ASSUME CallInv, NEW i \in 1..Len(commands)
                 PROVE  \/ RecoveredOnRecord(commands[i].id)
                        \/ \E r \in journal \ unsynced : r.phase = "intent" /\ r.id = commands[i].id
    BY DEF UnresolvedIsRemembered
  <2>2. Remembered(commands[i])
    BY <2>1 DEF CallInv, CallsInOrder, Accounted
  <2> QED BY <2>2 DEF Remembered, Settled, RecoveredOnRecord, Durable, IntentOf
<1> QED BY CallsSafe, <1>1, PTL

\* The calls keep the day's budget and the target's cooldown, whatever was archived and
\* restarted between them.
THEOREM CallsWithinBudget == Spec => []WithinBudget
<1>1. CallInv => WithinBudget
  BY DEF CallInv, CallsKeepBudget, BudgetKept, WithinBudget
<1> QED BY CallsSafe, <1>1, PTL

\* An intent is written for a target only when every collection of the outage time, the
\* tick's second included, found it failed.
THEOREM IntentsAreProven == Spec => OnlyProvenOutages
<1>1. ASSUME CallInv, [Next]_vars, NEW r \in journal' \ journal, r.phase = "intent"
      PROVE  failing'[r.key] > Outage
  <2>1. NewRecord(r)
    BY <1>1, FilesStep DEF CallInv
  <2>2. r.key = decision /\ pc = "deciding" /\ (failing[decision] > Outage => failing'[decision] > Outage)
    BY <1>1, <2>1 DEF NewRecord, Intent
  <2> QED BY <1>1, <2>2 DEF CallInv, DecisionHolds
<1>2. CallInv /\ [Next]_vars =>
          [\A r \in journal' \ journal : r.phase = "intent" => failing'[r.key] > Outage]_vars
  BY <1>1
<1> QED BY CallsSafe, <1>2, PTL DEF OnlyProvenOutages, Spec

-----------------------------------------------------------------------------
(* The boot journal of the same process and the recovery history that the    *)
(* server reads from it (RecoveryHistory), with state of their own: hosts and*)
(* resets in any number, pages of any size, any number of failures.          *)

(* The order of the entries *)

\* What an entry is known by: its time and its identity.
Moment == Nat \X Nat

\* The order of times and, within one time, of identities.
LEMMA NewerTransitive ==
    ASSUME NEW e \in Moment, NEW f \in Moment, NEW g \in Moment, Newer(e, f), Newer(f, g)
    PROVE  Newer(e, g)
BY DEF Newer, Moment

\* An entry is at a later place than every newer one.
LEMMA PlaceRises ==
    ASSUME NEW entries \in SUBSET Moment, IsFiniteSet(entries),
           NEW e \in entries, NEW f \in entries, Newer(e, f)
    PROVE  /\ Place(e, entries) \in Nat /\ Place(f, entries) \in Nat
           /\ Place(e, entries) < Place(f, entries)
<1> DEFINE Before(x) == {g \in entries : Newer(g, x)}
<1>1. Before(e) \subseteq Before(f)
  <2> SUFFICES ASSUME NEW g \in entries, Newer(g, e) PROVE Newer(g, f)
    OBVIOUS
  <2> QED BY NewerTransitive
<1>2. e \in Before(f) /\ e \notin Before(e)
  BY DEF Newer, Moment
<1>3. IsFiniteSet(Before(f)) /\ IsFiniteSet(Before(e))
  BY FS_Subset
<1>4. /\ Cardinality(Before(e)) \in Nat /\ Cardinality(Before(f)) \in Nat
      /\ Cardinality(Before(e)) <= Cardinality(Before(f))
      /\ Cardinality(Before(e)) # Cardinality(Before(f))
  <2> HIDE DEF Before
  <2> QED BY <1>1, <1>2, <1>3, FS_Subset, FS_CardinalityType
<1> QED BY <1>4 DEF Place

\* Every place from the first to the last is taken.
LEMMA PlacesTaken ==
    ASSUME NEW entries \in SUBSET Moment, IsFiniteSet(entries)
    PROVE  /\ Cardinality(entries) \in Nat
           /\ \A e \in entries : Place(e, entries) \in 1..Cardinality(entries)
           /\ \A i \in 1..Cardinality(entries) : \E e \in entries : Place(e, entries) = i
<1> DEFINE n == Cardinality(entries)
           place == [e \in entries |-> Place(e, entries)]
<1>1. n \in Nat
  BY FS_CardinalityType
<1>2. ASSUME NEW e \in entries PROVE Place(e, entries) \in 1..n
  <2> DEFINE Before == {g \in entries : Newer(g, e)}
  <2>1. Before \in SUBSET entries /\ e \notin Before
    BY DEF Newer, Moment
  <2>2. IsFiniteSet(Before) /\ Cardinality(Before) <= n /\ Cardinality(Before) # n
    <3> HIDE DEF Before
    <3> QED BY <2>1, FS_Subset
  <2>3. Cardinality(Before) \in Nat
    BY <2>2, FS_CardinalityType
  <2> QED BY <1>1, <2>2, <2>3 DEF Place
<1>3. ASSUME NEW e \in entries, NEW f \in entries, e # f
      PROVE  Place(e, entries) # Place(f, entries)
  <2>1. Newer(e, f) \/ Newer(f, e)
    <3>1. e \in Moment /\ f \in Moment
      OBVIOUS
    <3> QED BY <1>3, <3>1 DEF Newer, Moment
  <2>2. CASE Newer(e, f)
    BY <2>2, PlaceRises
  <2>3. CASE Newer(f, e)
    BY <2>3, PlaceRises
  <2> QED BY <2>1, <2>2, <2>3
<1>4. place \in Injection(entries, 1..n)
  BY <1>2, <1>3 DEF Injection, IsInjective
<1>5. IsFiniteSet(1..n) /\ Cardinality(1..n) = n
  BY <1>1, FS_Interval
<1>6. place \in Surjection(entries, 1..n)
  <2> HIDE DEF place
  <2> QED BY <1>4, <1>5, FS_Injection
<1>7. ASSUME NEW i \in 1..n PROVE \E e \in entries : Place(e, entries) = i
  BY <1>6 DEF Surjection
<1> QED BY <1>1, <1>2, <1>7

\* Newest first, without repetition.
Sorted(s) == \A i, j \in 1..Len(s) : i < j => Newer(s[i], s[j])

\* What a page is taken from holds every entry, newest first.
LEMMA OrderedSorts ==
    ASSUME NEW entries \in SUBSET Moment, IsFiniteSet(entries)
    PROVE  /\ Ordered(entries) \in Seq(entries)
           /\ Sorted(Ordered(entries))
           /\ ToSet(Ordered(entries)) = entries
<1> DEFINE n == Cardinality(entries)
           o == Ordered(entries)
<1>1. /\ n \in Nat
      /\ \A e \in entries : Place(e, entries) \in 1..n
      /\ \A i \in 1..n : \E e \in entries : Place(e, entries) = i
  BY PlacesTaken
<1>2. ASSUME NEW i \in 1..n PROVE o[i] \in entries /\ Place(o[i], entries) = i
  <2>1. o[i] = CHOOSE e \in entries : Place(e, entries) = i
    BY DEF Ordered
  <2> QED BY <1>1, <2>1
<1>3. o \in [1..n -> entries]
  BY <1>2 DEF Ordered
<1>4. o \in Seq(entries) /\ Len(o) = n /\ DOMAIN o = 1..n
  BY <1>1, <1>3
<1>5. Sorted(o)
  <2> SUFFICES ASSUME NEW i \in 1..n, NEW j \in 1..n, i < j PROVE Newer(o[i], o[j])
    BY <1>4 DEF Sorted
  <2>1. /\ o[i] \in entries /\ o[j] \in entries
        /\ Place(o[i], entries) = i /\ Place(o[j], entries) = j
    BY <1>2
  <2>2. o[i] # o[j]
    BY <2>1
  <2>3. ~Newer(o[j], o[i])
    BY <2>1, PlaceRises
  <2>4. o[i] \in Moment /\ o[j] \in Moment
    BY <2>1
  <2> QED BY <2>2, <2>3, <2>4 DEF Newer, Moment
<1>6. ASSUME NEW e \in entries PROVE e \in ToSet(o)
  <2>1. Place(e, entries) \in 1..n
    BY <1>1
  <2>2. PICK i \in 1..n : Place(e, entries) = i
    BY <2>1
  <2>3. o[i] \in entries /\ Place(o[i], entries) = i
    BY <1>2
  <2>4. o[i] = e
    <3>1. ~Newer(e, o[i]) /\ ~Newer(o[i], e)
      BY <2>2, <2>3, PlaceRises
    <3>2. e \in Moment /\ o[i] \in Moment
      BY <2>3
    <3> QED BY <3>1, <3>2 DEF Newer, Moment
  <2> QED BY <1>4, <2>4 DEF ToSet
<1>7. ToSet(o) \subseteq entries
  BY <1>2, <1>4 DEF ToSet
<1> QED BY <1>4, <1>5, <1>6, <1>7

-----------------------------------------------------------------------------
(* What is remembered is on record *)

\* A line of the boot journal.
BootLine == [host : Hosts, boot : 1..MaxBoots, at : 1..MaxClock, previous : 1..MaxClock,
             readable : BOOLEAN]

ResetAt == [host : Hosts, at : 1..MaxClock]

\* What is remembered of a host; a boot has a time at which it was seen.
SeenBoot == {Unseen} \cup [boot : 1..MaxBoots, seen : 1..MaxClock]

BootStates == [Hosts -> SeenBoot]

\* The boots of the hosts that a collection found healthy.
BootsCollected == UNION {[healthy -> 1..MaxBoots] : healthy \in SUBSET Hosts}

BootPasses ==
    [phase : {"none"}]
    \cup [phase : {"collected"}, at : 1..MaxClock, boots : BootsCollected]
    \cup [phase : {"observing"}, at : 1..MaxClock, boots : BootsCollected,
          pending : SUBSET Hosts, changed : BOOLEAN]

BootFilesTyped ==
    /\ bootMemory \in [state : BootStates, last : 0..MaxClock]
    /\ checkpoint \in [visible : BootStates, durable : BootStates]
    /\ bootJournal \in Seq(BootLine)
    /\ synced \in 0..Len(bootJournal)

BootsTyped ==
    /\ clock \in 1..MaxClock
    /\ boot \in [Hosts -> 1..MaxBoots]
    /\ resets \in Seq(ResetAt)
    /\ BootFilesTyped
    /\ pass \in BootPasses
    /\ pass.phase = "observing" => pass.pending \subseteq DOMAIN pass.boots
    /\ reader.phase \in {"none", "reading", "done"}

\* The boots of a state are in the synced lines, or were the first ones seen.
Recorded(state) ==
    \A h \in Hosts : state[h].boot # 0 => OnRecord(h, state[h].boot, synced)

\* Memory is written over the checkpoint, and the checkpoint is read into memory:
\* one is behind the journal only if the others are.
BootsRecorded ==
    Recorded(bootMemory.state) /\ Recorded(checkpoint.visible) /\ Recorded(checkpoint.durable)

BootInv == BootsTyped /\ BootsRecorded

\* No step takes a boot from the record.
BootsStay ==
    \A h \in Hosts, b \in 1..MaxBoots : OnRecord(h, b, synced) => OnRecord(h, b, synced)'

\* The bounds are numbers, as HistoryAssumption says.
LEMMA BootBounds ==
    /\ NumHosts \in Nat \ {0} /\ PageSize \in Nat \ {0} /\ MaxBoots \in Nat \ {0}
    /\ MaxClock \in Nat \ {0} /\ MaxResets \in Nat /\ Hosts \subseteq Nat \ {0}
BY HistoryAssumption DEF HistoryAssumption, Hosts

\* Nothing is remembered in the beginning.
LEMMA BootInit == HistoryInit => BootInv
<1> SUFFICES ASSUME HistoryInit PROVE BootInv
  OBVIOUS
<1>1. [h \in Hosts |-> Unseen] \in BootStates
  BY DEF BootStates, SeenBoot
<1>2. BootsTyped
  BY <1>1, BootBounds
     DEF HistoryInit, BootsTyped, BootFilesTyped, BootPasses, NoPass, NoReader
<1>3. BootsRecorded
  BY DEF HistoryInit, BootsRecorded, Recorded, Unseen
<1> QED BY <1>2, <1>3 DEF BootInv

\* Records that stay keep what is remembered.
LEMMA BootsKept ==
    ASSUME BootInv, BootsStay,
           bootMemory'.state = bootMemory.state,
           checkpoint'.visible \in {checkpoint.visible, bootMemory.state},
           checkpoint'.durable \in {checkpoint.durable, bootMemory.state}
    PROVE  BootsRecorded'
<1>1. \A s \in {bootMemory.state, checkpoint.visible, checkpoint.durable} :
         s \in BootStates /\ Recorded(s)
  BY DEF BootInv, BootsTyped, BootFilesTyped, BootsRecorded
<1>2. \A s \in {bootMemory.state, checkpoint.visible, checkpoint.durable} : \A h \in Hosts :
         s[h].boot # 0 => OnRecord(h, s[h].boot, synced)'
  <2> SUFFICES ASSUME NEW s \in BootStates, Recorded(s), NEW h \in Hosts, s[h].boot # 0
               PROVE  OnRecord(h, s[h].boot, synced)'
    BY <1>1
  <2>1. s[h].boot \in 1..MaxBoots
    BY DEF BootStates, SeenBoot, Unseen
  <2> QED BY <2>1 DEF Recorded, BootsStay
<1> QED BY <1>2 DEF BootsRecorded, Recorded

\* A line that is appended leaves the lines before it.
LEMMA LineAppended ==
    ASSUME BootFilesTyped, NEW r \in BootLine, bootJournal' = Append(bootJournal, Line(r))
    PROVE  /\ bootJournal' \in Seq(BootLine) /\ Len(bootJournal') = Len(bootJournal) + 1
           /\ synced \in 0..Len(bootJournal') /\ Len(bootJournal) + 1 \in 0..Len(bootJournal')
           /\ \A i \in 1..Len(bootJournal) : bootJournal'[i] = bootJournal[i]
           /\ bootJournal'[Len(bootJournal) + 1].host = r.host
           /\ bootJournal'[Len(bootJournal) + 1].boot = r.boot
<1>1. Line(r) \in BootLine /\ Line(r).host = r.host /\ Line(r).boot = r.boot
  BY DEF Line, BootLine
<1> QED BY <1>1 DEF BootFilesTyped

\* The line of a boot that a collection found.
LEMMA BootObserved ==
    ASSUME BootsTyped, NEW h \in Hosts, Pending(h)
    PROVE  /\ pass \in [phase : {"observing"}, at : 1..MaxClock, boots : BootsCollected,
                        pending : SUBSET Hosts, changed : BOOLEAN]
           /\ h \in DOMAIN pass.boots
           /\ pass.boots[h] \in 1..MaxBoots /\ pass.at \in 1..MaxClock
           /\ bootMemory.state[h] \in SeenBoot
           /\ Changed(h) => ObservedBoot(h) \in BootLine
<1>1. /\ pass \in [phase : {"observing"}, at : 1..MaxClock, boots : BootsCollected,
                   pending : SUBSET Hosts, changed : BOOLEAN]
      /\ h \in DOMAIN pass.boots
  BY DEF BootsTyped, Pending, BootPasses
<1>2. PICK healthy \in SUBSET Hosts : pass.boots \in [healthy -> 1..MaxBoots]
  BY <1>1 DEF BootsCollected
<1>3. pass.boots[h] \in 1..MaxBoots /\ pass.at \in 1..MaxClock
  BY <1>1, <1>2
<1>4. bootMemory.state[h] \in SeenBoot
  BY DEF BootsTyped, BootFilesTyped, BootStates
<1>5. Changed(h) => bootMemory.state[h].seen \in 1..MaxClock
  BY <1>3, <1>4 DEF Changed, SeenBoot, Unseen
<1>6. Changed(h) => ObservedBoot(h) \in BootLine
  BY <1>3, <1>5 DEF ObservedBoot, BootLine
<1> QED BY <1>1, <1>3, <1>4, <1>6

\* What is remembered of a host changes, and of no other one.
LEMMA SeenTyped ==
    ASSUME BootsTyped, NEW h \in Hosts, Pending(h), Seen(h)
    PROVE  /\ bootMemory' \in [state : BootStates, last : 0..MaxClock]
           /\ \A g \in Hosts \ {h} : bootMemory'.state[g] = bootMemory.state[g]
           /\ bootMemory'.state[h].boot = pass.boots[h]
           /\ pass' \in BootPasses /\ pass'.phase = "observing"
           /\ pass'.pending \subseteq DOMAIN pass'.boots
<1>1. /\ pass \in [phase : {"observing"}, at : 1..MaxClock, boots : BootsCollected,
                   pending : SUBSET Hosts, changed : BOOLEAN]
      /\ pass.boots[h] \in 1..MaxBoots /\ pass.at \in 1..MaxClock
  BY BootObserved
<1>2. [boot |-> pass.boots[h], seen |-> pass.at] \in SeenBoot
  BY <1>1 DEF SeenBoot
<1>3. /\ bootMemory.state \in BootStates
      /\ bootMemory \in [state : BootStates, last : 0..MaxClock]
  BY DEF BootsTyped, BootFilesTyped
<1>4. bootMemory' = [bootMemory EXCEPT !.state =
                   [bootMemory.state EXCEPT ![h] = [boot |-> pass.boots[h], seen |-> pass.at]]]
  BY <1>3 DEF Seen
<1>5. [bootMemory.state EXCEPT ![h] = [boot |-> pass.boots[h], seen |-> pass.at]]
        \in BootStates
  BY <1>2, <1>3 DEF BootStates
<1>6. bootMemory' \in [state : BootStates, last : 0..MaxClock]
  BY <1>3, <1>4, <1>5
<1>7. /\ \A g \in Hosts \ {h} : bootMemory'.state[g] = bootMemory.state[g]
      /\ bootMemory'.state[h].boot = pass.boots[h]
  BY <1>3, <1>4 DEF BootStates
<1>8. pass' \in BootPasses /\ pass'.phase = "observing"
  BY <1>1 DEF Seen, BootPasses
<1>9. pass'.pending \subseteq DOMAIN pass'.boots
  BY <1>1 DEF BootsTyped, Seen
<1> QED BY <1>6, <1>7, <1>8, <1>9

\* Only the memory of h changed, to a boot that is on record.
LEMMA SeenRemembered ==
    ASSUME BootInv, BootsStay, NEW h \in Hosts, UNCHANGED checkpoint,
           \A g \in Hosts \ {h} : bootMemory'.state[g] = bootMemory.state[g],
           NEW b, bootMemory'.state[h].boot = b, OnRecord(h, b, synced)'
    PROVE  BootsRecorded'
<1>1. ASSUME NEW s \in BootStates, Recorded(s), NEW g \in Hosts, s[g].boot # 0
      PROVE  OnRecord(g, s[g].boot, synced)'
  <2>1. s[g].boot \in 1..MaxBoots
    BY <1>1 DEF BootStates, SeenBoot, Unseen
  <2> QED BY <1>1, <2>1 DEF Recorded, BootsStay
<1>2. \A s \in {bootMemory.state, checkpoint.visible, checkpoint.durable} :
         s \in BootStates /\ Recorded(s)
  BY DEF BootInv, BootsTyped, BootFilesTyped, BootsRecorded
<1>3. Recorded(bootMemory.state)'
  BY <1>1, <1>2 DEF Recorded
<1>4. Recorded(checkpoint.visible)' /\ Recorded(checkpoint.durable)'
  BY <1>1, <1>2 DEF Recorded
<1> QED BY <1>3, <1>4 DEF BootsRecorded

\* A boot that differs from the remembered one is on record when it is remembered.
LEMMA SeeBootStep ==
    ASSUME BootInv, NEW h \in Hosts, SeeBoot(h)
    PROVE  BootInv'
<1>1. BootsTyped /\ BootFilesTyped /\ Pending(h) /\ ObservedBoot(h) \in BootLine /\ Seen(h)
  BY BootObserved DEF BootInv, BootsTyped, SeeBoot
<1>2. /\ bootJournal' = Append(bootJournal, Line(ObservedBoot(h)))
      /\ synced' = Len(bootJournal) + 1
      /\ UNCHANGED <<clock, boot, resets, checkpoint, reader, baseline, failures>>
  BY DEF SeeBoot, AppendLine
<1>3. /\ bootJournal' \in Seq(BootLine) /\ Len(bootJournal') = Len(bootJournal) + 1
      /\ Len(bootJournal) + 1 \in 0..Len(bootJournal')
      /\ \A i \in 1..Len(bootJournal) : bootJournal'[i] = bootJournal[i]
      /\ bootJournal'[Len(bootJournal) + 1].host = h
      /\ bootJournal'[Len(bootJournal) + 1].boot = pass.boots[h]
  BY <1>1, <1>2, LineAppended DEF ObservedBoot
<1>4. BootsTyped'
  BY <1>1, <1>2, <1>3, SeenTyped DEF BootsTyped, BootFilesTyped
<1>5. BootsStay
  BY <1>1, <1>2, <1>3 DEF BootsStay, OnRecord, BootFilesTyped
<1>6. PICK b : b = pass.boots[h]
  OBVIOUS
<1>7. OnRecord(h, b, synced)'
  <2>1. Len(bootJournal) + 1 \in 1..synced'
    BY <1>2, <1>3
  <2> QED BY <1>3, <1>6, <2>1 DEF OnRecord
<1>8. BootsRecorded'
  BY <1>1, <1>2, <1>5, <1>6, <1>7, SeenTyped, SeenRemembered DEF BootInv
<1> QED BY <1>4, <1>8 DEF BootInv

\* A boot that needs no line is the one remembered, or the first one seen.
LEMMA SeeStep ==
    ASSUME BootInv, NEW h \in Hosts, See(h)
    PROVE  BootInv'
<1>1. BootsTyped /\ BootFilesTyped /\ Pending(h) /\ Seen(h) /\ ~Changed(h)
  BY DEF BootInv, BootsTyped, See
<1>2. UNCHANGED <<clock, boot, resets, checkpoint, bootJournal, synced, reader, failures>>
  BY DEF See
<1>3. BootsTyped'
  BY <1>1, <1>2, SeenTyped DEF BootsTyped, BootFilesTyped
<1>4. BootsStay
  BY <1>2 DEF BootsStay, OnRecord, See
<1>5. PICK b \in 1..MaxBoots : b = pass.boots[h]
  BY <1>1, BootObserved
<1>6. OnRecord(h, b, synced)'
  <2>1. CASE bootMemory.state[h] = Unseen
    <3>1. [host |-> h, boot |-> b] \in baseline'
      BY <1>5, <2>1 DEF See
    <3> QED BY <3>1 DEF OnRecord
  <2>2. CASE bootMemory.state[h] # Unseen
    <3>1. bootMemory.state[h] \in SeenBoot
      BY <1>1, BootObserved
    <3>2. bootMemory.state[h].boot # 0 /\ bootMemory.state[h].boot = b
      BY <1>1, <1>5, <2>2, <3>1 DEF SeenBoot, Changed
    <3>3. OnRecord(h, b, synced)
      BY <3>2 DEF BootInv, BootsRecorded, Recorded
    <3> QED BY <1>4, <3>3 DEF BootsStay
  <2> QED BY <2>1, <2>2
<1>7. BootsRecorded'
  BY <1>1, <1>2, <1>4, <1>5, <1>6, SeenTyped, SeenRemembered
<1> QED BY <1>3, <1>7 DEF BootInv

\* An append that fails leaves the synced lines, and the boot is not remembered.
LEMMA SeeBootFailsStep ==
    ASSUME BootInv, NEW h \in Hosts, SeeBootFails(h)
    PROVE  BootInv'
<1>1. BootsTyped /\ BootFilesTyped /\ Pending(h) /\ ObservedBoot(h) \in BootLine
  BY BootObserved DEF BootInv, BootsTyped, SeeBootFails
<1>2. /\ pass' = NoPass /\ synced' = synced
      /\ UNCHANGED <<clock, boot, resets, bootMemory, checkpoint, reader, baseline>>
  BY DEF SeeBootFails, AppendFails, Forgotten
<1>3. /\ bootJournal' \in Seq(BootLine) /\ synced \in 0..Len(bootJournal')
      /\ Len(bootJournal) <= Len(bootJournal')
      /\ \A i \in 1..Len(bootJournal) : bootJournal'[i] = bootJournal[i]
  <2>1. CASE bootJournal' = bootJournal
    BY <1>1, <2>1 DEF BootFilesTyped
  <2>2. ASSUME NEW readable \in BOOLEAN,
               bootJournal' = Append(bootJournal,
                     Line([ObservedBoot(h) EXCEPT !.readable = readable]))
        PROVE  /\ bootJournal' \in Seq(BootLine) /\ synced \in 0..Len(bootJournal')
               /\ Len(bootJournal) <= Len(bootJournal')
               /\ \A i \in 1..Len(bootJournal) : bootJournal'[i] = bootJournal[i]
    <3>1. [ObservedBoot(h) EXCEPT !.readable = readable] \in BootLine
      BY <1>1, <2>2 DEF BootLine
    <3>2. Len(bootJournal) \in Nat
      BY <1>1 DEF BootFilesTyped
    <3> QED BY <1>1, <2>2, <3>1, <3>2, LineAppended
  <2> QED BY <2>1, <2>2 DEF SeeBootFails, AppendFails
<1>4. BootsTyped'
  BY <1>1, <1>2, <1>3 DEF BootsTyped, BootFilesTyped, NoPass, BootPasses
<1>5. BootsStay
  BY <1>1, <1>2, <1>3 DEF BootsStay, OnRecord, BootFilesTyped
<1> QED BY <1>2, <1>4, <1>5, BootsKept DEF BootInv

\* Hosts, operators and the clock touch no file.
LEMMA HistoryWorldStep ==
    ASSUME BootInv,
           \/ \E h \in Hosts : Boot(h) \/ Reset(h)
           \/ ClockTick
    PROVE  BootInv'
<1>1. /\ BootsTyped
      /\ UNCHANGED <<bootMemory, checkpoint, bootJournal, synced, pass, reader, baseline>>
  BY DEF BootInv, Boot, Reset, ClockTick
<1>2. /\ clock' \in 1..MaxClock
      /\ boot' \in [Hosts -> 1..MaxBoots]
      /\ resets' \in Seq(ResetAt)
  <2>1. ASSUME NEW h \in Hosts, Boot(h)
        PROVE  /\ UNCHANGED <<clock, resets>>
               /\ boot' \in [Hosts -> 1..MaxBoots]
    <3>1. boot[h] + 1 \in 1..MaxBoots
      BY <1>1, <2>1, BootBounds DEF Boot, BootsTyped
    <3> QED BY <1>1, <2>1, <3>1 DEF Boot, BootsTyped
  <2>2. ASSUME NEW h \in Hosts, Reset(h)
        PROVE  /\ UNCHANGED <<clock, boot>>
               /\ resets' \in Seq(ResetAt)
    <3>1. [host |-> h, at |-> clock] \in ResetAt
      BY <1>1 DEF BootsTyped, ResetAt
    <3> QED BY <1>1, <2>2, <3>1 DEF Reset, BootsTyped
  <2>3. CASE ClockTick
    BY <1>1, <2>3, BootBounds DEF ClockTick, BootsTyped
  <2> QED BY <1>1, <2>1, <2>2, <2>3 DEF BootsTyped
<1>5. BootsTyped'
  BY <1>1, <1>2 DEF BootsTyped, BootFilesTyped
<1>6. BootsStay
  BY <1>1 DEF BootsStay, OnRecord
<1>7. BootsRecorded'
  BY <1>1, <1>6, BootsKept
<1> QED BY <1>5, <1>7 DEF BootInv

\* A collection names boots of hosts and touches no file.
LEMMA CollectStep ==
    ASSUME BootInv,
           (\E healthy \in SUBSET Hosts : Collect(healthy)) \/ ObserveBoots
    PROVE  BootInv'
<1>1. /\ BootsTyped
      /\ UNCHANGED <<clock, boot, resets, bootMemory, checkpoint, bootJournal,
                     synced, reader, baseline>>
  BY DEF BootInv, Collect, ObserveBoots
<1> DEFINE PassTyped(p) ==
              p \in BootPasses /\ (p.phase = "observing" => p.pending \subseteq DOMAIN p.boots)
<1>2. PassTyped(pass')
  <2>1. ASSUME NEW healthy \in SUBSET Hosts, Collect(healthy)
        PROVE  PassTyped(pass')
    <3>1. [h \in healthy |-> boot[h]] \in [healthy -> 1..MaxBoots]
      BY <1>1 DEF BootsTyped
    <3>2. [h \in healthy |-> boot[h]] \in BootsCollected
      BY <3>1 DEF BootsCollected
    <3> QED BY <1>1, <2>1, <3>2 DEF Collect, BootPasses, BootsTyped
  <2>2. CASE ObserveBoots
    <3>1. pass \in [phase : {"collected"}, at : 1..MaxClock, boots : BootsCollected]
      BY <1>1, <2>2 DEF BootsTyped, BootPasses, ObserveBoots
    <3>2. DOMAIN pass.boots \subseteq Hosts
      BY <3>1 DEF BootsCollected
    <3> QED BY <1>1, <2>2, <3>1, <3>2 DEF ObserveBoots, BootPasses, BootsTyped, NoPass
  <2> QED BY <2>1, <2>2
<1>3. BootsTyped'
  BY <1>1, <1>2 DEF BootsTyped, BootFilesTyped
<1>4. BootsStay
  BY <1>1 DEF BootsStay, OnRecord
<1> QED BY <1>1, <1>3, <1>4, BootsKept DEF BootInv

\* A checkpoint is written from memory, as a whole or up to the rename.
LEMMA FinishStep ==
    ASSUME BootInv, Finish \/ FinishFails
    PROVE  BootInv'
<1>1. /\ BootsTyped /\ Observing /\ pass' = NoPass
      /\ UNCHANGED <<clock, boot, resets, bootJournal, synced, reader, baseline>>
  BY DEF BootInv, Finish, FinishFails
<1>2. /\ bootMemory \in [state : BootStates, last : 0..MaxClock]
      /\ checkpoint \in [visible : BootStates, durable : BootStates]
      /\ pass.at \in 1..MaxClock
  BY <1>1 DEF BootsTyped, BootFilesTyped, Observing, BootPasses
<1>3. /\ bootMemory' \in [state : BootStates, last : 0..MaxClock]
      /\ bootMemory'.state = bootMemory.state
      /\ checkpoint' \in [visible : BootStates, durable : BootStates]
      /\ checkpoint'.visible \in {checkpoint.visible, bootMemory.state}
      /\ checkpoint'.durable \in {checkpoint.durable, bootMemory.state}
  BY <1>2, BootBounds DEF Finish, FinishFails, Checkpointed, CheckpointFails
<1>4. BootsTyped'
  BY <1>1, <1>3 DEF BootsTyped, BootFilesTyped, BootPasses, NoPass
<1>5. BootsStay
  BY <1>1 DEF BootsStay, OnRecord
<1> QED BY <1>3, <1>4, <1>5, BootsKept DEF BootInv

\* What a start reads was behind the journal before, and the journal keeps what was synced.
LEMMA StartStep ==
    ASSUME BootInv, WatchdogKilled \/ WatchdogPowerLoss
    PROVE  BootInv'
<1>1. /\ BootsTyped /\ pass' = NoPass
      /\ UNCHANGED <<clock, boot, resets, reader, baseline>>
  BY DEF BootInv, WatchdogKilled, WatchdogPowerLoss, Restarted
<1>2. PICK s \in {checkpoint.visible, checkpoint.durable} :
         /\ bootMemory' = [state |-> s, last |-> 0]
         /\ checkpoint' \in {checkpoint, [visible |-> s, durable |-> s]}
  BY DEF WatchdogKilled, WatchdogPowerLoss, Restarted
<1>3. /\ bootJournal' \in Seq(BootLine)
      /\ synced' \in 0..Len(bootJournal') /\ synced <= synced'
      /\ \A i \in 1..synced : bootJournal'[i] = bootJournal[i]
  <2>1. CASE WatchdogKilled
    BY <1>1, <2>1 DEF WatchdogKilled, BootsTyped, BootFilesTyped
  <2>2. ASSUME NEW n \in synced .. Len(bootJournal),
               bootJournal' = SubSeq(bootJournal, 1, n), synced' = n
        PROVE  /\ bootJournal' \in Seq(BootLine)
               /\ synced' \in 0..Len(bootJournal') /\ synced <= synced'
               /\ \A i \in 1..synced : bootJournal'[i] = bootJournal[i]
    BY <1>1, <2>2 DEF BootsTyped, BootFilesTyped
  <2> QED BY <2>1, <2>2 DEF WatchdogPowerLoss
<1>4. s \in BootStates /\ checkpoint \in [visible : BootStates, durable : BootStates]
  BY <1>1 DEF BootsTyped, BootFilesTyped
<1>5. BootsTyped'
  BY <1>1, <1>2, <1>3, <1>4, BootBounds DEF BootsTyped, BootFilesTyped, BootPasses, NoPass
<1>6. BootsStay
  <2>1. \A i \in 1..synced : i \in 1..synced' /\ bootJournal'[i] = bootJournal[i]
    BY <1>1, <1>3 DEF BootsTyped, BootFilesTyped
  <2> QED BY <1>1, <2>1 DEF BootsStay, OnRecord
<1>7. ASSUME NEW t \in {checkpoint.visible, checkpoint.durable}, NEW h \in Hosts, t[h].boot # 0
      PROVE  OnRecord(h, t[h].boot, synced)'
  <2>1. t \in BootStates /\ Recorded(t)
    BY <1>1 DEF BootInv, BootsRecorded, BootsTyped, BootFilesTyped
  <2>2. t[h].boot \in 1..MaxBoots
    BY <1>7, <2>1 DEF BootStates, SeenBoot, Unseen
  <2> QED BY <1>6, <1>7, <2>1, <2>2 DEF Recorded, BootsStay
<1>8. BootsRecorded'
  BY <1>2, <1>4, <1>7 DEF BootsRecorded, Recorded
<1> QED BY <1>5, <1>8 DEF BootInv

\* A reader changes nothing but itself.
LEMMA ReadStep ==
    ASSUME BootInv, ReadFirst \/ ReadNext
    PROVE  BootInv'
<1>1. /\ BootsTyped
      /\ UNCHANGED <<clock, boot, resets, bootMemory, checkpoint, bootJournal,
                     synced, pass, baseline>>
  BY DEF BootInv, ReadFirst, ReadNext
<1>2. reader'.phase \in {"reading", "done"}
  BY DEF ReadFirst, ReadNext, ReadOn
<1>3. BootsTyped'
  BY <1>1, <1>2 DEF BootsTyped, BootFilesTyped
<1>4. BootsStay
  BY <1>1 DEF BootsStay, OnRecord
<1> QED BY <1>1, <1>3, <1>4, BootsKept DEF BootInv

\* Every step of the watchdog's boot journal, its hosts and its readers keeps BootInv.
LEMMA BootStep ==
    ASSUME BootInv, [HistoryNext]_historyVars
    PROVE  BootInv'
<1>1. CASE \E h \in Hosts : HostObserved(h)
  BY <1>1, SeeStep, SeeBootStep, SeeBootFailsStep DEF HostObserved
<1>2. CASE UNCHANGED historyVars
  <2>1. BootsTyped'
    BY <1>2 DEF historyVars, BootInv, BootsTyped, BootFilesTyped
  <2>2. BootsStay
    BY <1>2 DEF historyVars, BootsStay, OnRecord
  <2> QED BY <1>2, <2>1, <2>2, BootsKept DEF historyVars, BootInv
<1> QED BY <1>1, <1>2, HistoryWorldStep, CollectStep, FinishStep, StartStep, ReadStep
           DEF HistoryNext

\* Journal, checkpoint, memory and the tick of BootJournal keep their types.
THEOREM HistoryTypeCorrect == HistorySpec => []HistoryTypeOK
<1>1. HistoryInit => BootInv
  BY BootInit
<1>2. BootInv /\ [HistoryNext]_historyVars => BootInv'
  BY BootStep
<1>3. BootInv => HistoryTypeOK
  <2> SUFFICES ASSUME BootInv PROVE HistoryTypeOK
    OBVIOUS
  <2>1. SeenBoot \subseteq [boot : 0..MaxBoots, seen : 0..MaxClock]
    BY BootBounds DEF SeenBoot, Unseen
  <2>2. {bootMemory.state, checkpoint.visible, checkpoint.durable}
          \subseteq [Hosts -> [boot : 0..MaxBoots, seen : 0..MaxClock]]
    BY <2>1 DEF BootInv, BootsTyped, BootFilesTyped, BootStates
  <2>3. pass.phase \in {"none", "collected", "observing"}
    BY DEF BootInv, BootsTyped, BootPasses
  <2>4. \A i \in 1..Len(resets) : resets[i] \in ResetAt
    BY DEF BootInv, BootsTyped
  <2>5. \A i \in 1..Len(bootJournal) : bootJournal[i] \in BootLine
    BY DEF BootInv, BootsTyped, BootFilesTyped
  <2> QED BY <2>2, <2>3, <2>4, <2>5
             DEF BootInv, BootsTyped, BootFilesTyped, HistoryTypeOK, BootLine, ResetAt
<1> QED BY <1>1, <1>2, <1>3, PTL DEF HistorySpec

\* BootJournal.observe appends a boot before it is remembered, and checkpoint writes only
\* what is remembered: whatever a kill or a power loss leaves, no change is skipped.
THEOREM NoBootSkipped == HistorySpec => []CheckpointIsBehindJournal
<1>1. HistoryInit => BootInv
  BY BootInit
<1>2. BootInv /\ [HistoryNext]_historyVars => BootInv'
  BY BootStep
<1>3. BootInv => CheckpointIsBehindJournal
  BY DEF BootInv, BootsRecorded, Recorded, CheckpointIsBehindJournal
<1> QED BY <1>1, <1>2, <1>3, PTL DEF HistorySpec

-----------------------------------------------------------------------------
(* Pages *)

\* The range of a function on a finite set is finite.
LEMMA RangeFinite ==
    ASSUME NEW S, IsFiniteSet(S), NEW f, DOMAIN f = S, f = [x \in S |-> f[x]]
    PROVE  IsFiniteSet({f[x] : x \in S})
<1> DEFINE T == {f[x] : x \in S}
<1>1. f \in Surjection(S, T)
  BY DEF Surjection
<1> HIDE DEF T
<1>2. IsFiniteSet(T)
  BY <1>1, FS_Surjection
<1> QED BY <1>2 DEF T

\* The numbers of a line.
LEMMA LineNumbers ==
    ASSUME NEW r \in BootLine
    PROVE  r.host \in Nat \ {0} /\ r.boot \in Nat /\ r.at \in Nat
<1>1. r.host \in Hosts /\ r.boot \in 1..MaxBoots /\ r.at \in 1..MaxClock
  BY DEF BootLine
<1>2. r.host \in Nat \ {0}
  BY <1>1, BootBounds
<1>3. r.boot \in Nat
  BY <1>1
<1>4. r.at \in Nat
  BY <1>1
<1> QED BY <1>2, <1>3, <1>4

\* Resets and boots are finitely many, and known by their time and identity.
LEMMA EntriesTyped ==
    ASSUME BootInv
    PROVE  Entries \in SUBSET Moment /\ IsFiniteSet(Entries)
<1> DEFINE Warm == {<<resets[i].at, i>> : i \in 1..Len(resets)}
           Boots == {<<r.at, BootId(r)>> : r \in {r \in BootEpisodes : ~Explained(r)}}
<1>1. resets \in Seq(ResetAt) /\ bootJournal \in Seq(BootLine)
  BY DEF BootInv, BootsTyped, BootFilesTyped
<1>2. Warm \in SUBSET Moment
  <2> SUFFICES ASSUME NEW i \in 1..Len(resets) PROVE <<resets[i].at, i>> \in Moment
    OBVIOUS
  <2>1. resets[i] \in ResetAt /\ i \in Nat
    BY <1>1
  <2>2. resets[i].at \in Nat
    BY <2>1, BootBounds DEF ResetAt
  <2> QED BY <2>1, <2>2 DEF Moment
<1>3. IsFiniteSet(Warm)
  <2>1. IsFiniteSet(1..Len(resets))
    BY <1>1, FS_Interval
  <2> DEFINE f == [i \in 1..Len(resets) |-> <<resets[i].at, i>>]
  <2>2. IsFiniteSet({f[i] : i \in 1..Len(resets)})
    <3>1. DOMAIN f = 1..Len(resets) /\ f = [i \in 1..Len(resets) |-> f[i]]
      OBVIOUS
    <3> HIDE DEF f
    <3> QED BY <2>1, <3>1, RangeFinite
  <2> QED BY <2>2
<1>4. BootEpisodes \subseteq BootLine
  BY <1>1 DEF BootEpisodes
<1>5. Boots \in SUBSET Moment
  <2> SUFFICES ASSUME NEW r \in BootLine PROVE <<r.at, BootId(r)>> \in Moment
    BY <1>4
  <2>1. r.host \in Nat \ {0} /\ r.boot \in Nat /\ r.at \in Nat
    BY LineNumbers
  <2>2. (r.host - 1) * MaxBoots \in Nat
    BY <2>1, BootBounds
  <2> QED BY <2>1, <2>2, BootBounds DEF BootId, Moment
<1>6. IsFiniteSet(Boots)
  <2>1. IsFiniteSet(1..Len(bootJournal))
    BY <1>1, FS_Interval
  <2>2. IsFiniteSet({bootJournal[i] : i \in 1..Len(bootJournal)})
    BY <1>1, <2>1, RangeFinite
  <2>3. BootEpisodes \subseteq {bootJournal[i] : i \in 1..Len(bootJournal)}
    BY DEF BootEpisodes
  <2>4. {r \in BootEpisodes : ~Explained(r)}
          \subseteq {bootJournal[i] : i \in 1..Len(bootJournal)}
    BY <2>3
  <2>5. IsFiniteSet({r \in BootEpisodes : ~Explained(r)})
    BY <2>2, <2>4, FS_Subset
  <2> DEFINE B == {r \in BootEpisodes : ~Explained(r)}
             f == [r \in B |-> <<r.at, BootId(r)>>]
  <2>6. IsFiniteSet({f[r] : r \in B})
    <3>1. DOMAIN f = B /\ f = [r \in B |-> f[r]]
      OBVIOUS
    <3> HIDE DEF f
    <3> QED BY <2>5, <3>1, RangeFinite
  <2> QED BY <2>6
<1>7. Entries = Warm \cup Boots
  BY DEF Entries
<1> QED BY <1>2, <1>3, <1>5, <1>6, <1>7, FS_Union

\* What was shown is in order, and what is still to be shown comes after it.
Shown(shown, expected, more) ==
    /\ shown \in Seq(Moment) /\ Sorted(shown)
    /\ more => shown # <<>>
    /\ \A e \in expected :
          \/ e \in ToSet(shown)
          \/ more /\ e \in Moment /\ Beyond(e, Last(shown))

\* After every page, what was there all the while was shown or is beyond the cursor.
ReaderInv ==
    reader.phase # "none" => Shown(reader.shown, reader.expected, reader.phase = "reading")

\* A page continues what was shown.
LEMMA PageShown ==
    ASSUME NEW left \in Seq(Moment), Sorted(left),
           NEW shown \in Seq(Moment), Sorted(shown),
           \A i \in 1..Len(shown), j \in 1..Len(left) : Newer(shown[i], left[j]),
           NEW expected, \A e \in expected : e \in ToSet(shown) \/ e \in ToSet(left),
           ReadOn(left, shown, expected)
    PROVE  ReaderInv' /\ reader'.phase \in {"reading", "done"}
<1> DEFINE size == IF Len(left) < PageSize THEN Len(left) ELSE PageSize
           page == SubSeq(left, 1, size)
           all == shown \o page
           more == Len(left) > PageSize
<1>1. /\ size \in Nat /\ size <= Len(left) /\ Len(left) \in Nat /\ Len(shown) \in Nat
      /\ more => size \in Nat \ {0} /\ size < Len(left)
      /\ ~more => size = Len(left)
  BY BootBounds
<1>2. /\ page \in Seq(Moment) /\ Len(page) = size
      /\ \A i \in 1..size : page[i] = left[i]
  BY <1>1
<1>3. /\ all \in Seq(Moment) /\ Len(all) = Len(shown) + size
      /\ \A i \in 1..Len(shown) : all[i] = shown[i]
      /\ \A i \in 1..size : all[Len(shown) + i] = left[i]
  <2> HIDE DEF size, page
  <2>1. /\ all \in Seq(Moment) /\ Len(all) = Len(shown) + size
        /\ \A i \in 1..Len(shown) + size :
             all[i] = IF i <= Len(shown) THEN shown[i] ELSE page[i - Len(shown)]
    BY <1>2, ConcatProperties
  <2>2. ASSUME NEW i \in 1..Len(shown) PROVE all[i] = shown[i]
    <3>1. i \in 1..Len(shown) + size /\ i <= Len(shown)
      BY <1>1
    <3> QED BY <2>1, <3>1
  <2>3. ASSUME NEW i \in 1..size PROVE all[Len(shown) + i] = left[i]
    <3>1. /\ Len(shown) + i \in 1..Len(shown) + size /\ ~(Len(shown) + i <= Len(shown))
          /\ Len(shown) + i - Len(shown) = i
      BY <1>1
    <3> QED BY <1>2, <2>1, <3>1
  <2> HIDE DEF all
  <2> QED BY <2>1, <2>2, <2>3
<1>4. reader' = [phase |-> IF more THEN "reading" ELSE "done", shown |-> all,
                 expected |-> expected]
  BY DEF ReadOn
<1> HIDE DEF size, page, all
<1>5. Sorted(all)
  <2> SUFFICES ASSUME NEW i \in 1..Len(all), NEW j \in 1..Len(all), i < j
               PROVE  Newer(all[i], all[j])
    BY DEF Sorted
  <2>1. CASE j <= Len(shown)
    <3>1. i \in 1..Len(shown) /\ j \in 1..Len(shown)
      BY <1>1, <1>3, <2>1
    <3>2. all[i] = shown[i] /\ all[j] = shown[j]
      BY <1>3, <3>1
    <3> QED BY <3>1, <3>2 DEF Sorted
  <2>2. CASE i <= Len(shown) /\ j > Len(shown)
    <3>1. j - Len(shown) \in 1..size /\ j - Len(shown) \in 1..Len(left)
      BY <1>1, <1>3, <2>2
    <3>2. all[j] = left[j - Len(shown)]
      BY <1>1, <1>3, <3>1
    <3>3. all[i] = shown[i] /\ i \in 1..Len(shown)
      BY <1>1, <1>3, <2>2
    <3> QED BY <3>1, <3>2, <3>3
  <2>3. CASE i > Len(shown)
    <3>1. /\ j - Len(shown) \in 1..size /\ j - Len(shown) \in 1..Len(left)
          /\ i - Len(shown) \in 1..size /\ i - Len(shown) \in 1..Len(left)
          /\ i - Len(shown) < j - Len(shown)
      BY <1>1, <1>3, <2>3
    <3>2. all[j] = left[j - Len(shown)] /\ all[i] = left[i - Len(shown)]
      BY <1>1, <1>3, <3>1
    <3> QED BY <3>1, <3>2 DEF Sorted
  <2> QED BY <1>1, <1>3, <2>1, <2>2, <2>3
<1>6. more => all # <<>>
  BY <1>1, <1>3
<1>7. ASSUME NEW e \in expected
      PROVE  e \in ToSet(all) \/ (more /\ e \in Moment /\ Beyond(e, Last(all)))
  <2>1. CASE e \in ToSet(shown)
    <3>1. PICK i \in 1..Len(shown) : e = shown[i]
      BY <2>1 DEF ToSet
    <3>2. i \in 1..Len(all) /\ all[i] = e
      BY <1>1, <1>3, <3>1
    <3>3. i \in DOMAIN all /\ all[i] = e
      BY <1>3, <3>2
    <3> QED BY <3>3 DEF ToSet
  <2>2. CASE e \in ToSet(left)
    <3>1. PICK j \in 1..Len(left) : e = left[j]
      BY <2>2 DEF ToSet
    <3>2. CASE j <= size
      <4>1. j \in 1..size /\ Len(shown) + j \in 1..Len(all) /\ all[Len(shown) + j] = e
        BY <1>1, <1>3, <3>1, <3>2
      <4> QED BY <1>3, <4>1 DEF ToSet
    <3>3. CASE j > size
      <4>1. more /\ size \in 1..Len(left) /\ size \in 1..size
        BY <1>1, <3>1, <3>3
      <4>2. Newer(left[size], left[j])
        BY <1>1, <3>3, <4>1 DEF Sorted
      <4>3. Last(all) = left[size]
        BY <1>1, <1>3, <4>1 DEF Last
      <4> QED BY <3>1, <4>1, <4>2, <4>3 DEF Beyond
    <3> QED BY <1>1, <3>2, <3>3
  <2> QED BY <2>1, <2>2
<1>8. reader'.phase = "reading" <=> more
  BY <1>4
<1> QED BY <1>3, <1>4, <1>5, <1>6, <1>7, <1>8 DEF ReaderInv, Shown

\* The first page is taken from all entries.
LEMMA FirstPage ==
    ASSUME BootInv, ReadFirst
    PROVE  ReaderInv'
<1>1. Entries \in SUBSET Moment /\ IsFiniteSet(Entries)
  BY EntriesTyped
<1>2. /\ Ordered(Entries) \in Seq(Entries) /\ Sorted(Ordered(Entries))
      /\ ToSet(Ordered(Entries)) = Entries
  BY <1>1, OrderedSorts
<1>3. Ordered(Entries) \in Seq(Moment)
  BY <1>1, <1>2
<1>4. <<>> \in Seq(Moment) /\ Sorted(<<>>) /\ Len(<<>>) = 0
  BY DEF Sorted
<1>5. ReadOn(Ordered(Entries), <<>>, Entries)
  BY DEF ReadFirst
<1> QED
  <2> DEFINE left == Ordered(Entries)
  <2>1. /\ left \in Seq(Moment) /\ Sorted(left) /\ ReadOn(left, <<>>, Entries)
        /\ \A e \in Entries : e \in ToSet(left)
    BY <1>2, <1>3, <1>5
  <2>2. \A i \in 1..Len(<<>>), j \in 1..Len(left) : Newer(<<>>[i], left[j])
    BY <1>4
  <2> HIDE DEF left
  <2> QED BY <1>4, <2>1, <2>2, PageShown

\* The entries beyond the cursor are those that were not shown.
LEMMA FurtherPage ==
    ASSUME BootInv, ReaderInv, ReadNext
    PROVE  ReaderInv'
<1> DEFINE shown == reader.shown
           cursor == Last(shown)
           further == {e \in Entries : Beyond(e, cursor)}
           expected == reader.expected \cap Entries
           left == Ordered(further)
<1>1. /\ shown \in Seq(Moment) /\ Sorted(shown) /\ shown # <<>>
      /\ \A e \in reader.expected : e \in ToSet(shown) \/ Beyond(e, cursor)
  BY DEF ReaderInv, Shown, ReadNext
<1>2. further \in SUBSET Moment /\ IsFiniteSet(further)
  BY EntriesTyped, FS_Subset
<1>3. left \in Seq(further) /\ Sorted(left) /\ ToSet(left) = further
  <2> HIDE DEF further
  <2> QED BY <1>2, OrderedSorts
<1>4. ReadOn(left, shown, expected)
  BY DEF ReadNext
<1>5. ASSUME NEW i \in 1..Len(shown), NEW j \in 1..Len(left)
      PROVE  Newer(shown[i], left[j])
  <2>1. left[j] \in further
    <3> HIDE DEF further, left
    <3> QED BY <1>3
  <2>2. Newer(cursor, left[j]) /\ left[j] \in Moment
    BY <1>2, <2>1 DEF Beyond
  <2>3. cursor = shown[Len(shown)] /\ Len(shown) \in 1..Len(shown) /\ cursor \in Moment
    BY <1>1 DEF Last
  <2>4. shown[i] = cursor \/ Newer(shown[i], cursor)
    BY <1>1, <2>3 DEF Sorted
  <2>5. shown[i] \in Moment
    BY <1>1
  <2> HIDE DEF cursor, left, shown
  <2> QED BY <2>2, <2>3, <2>4, <2>5, NewerTransitive
<1>6. \A e \in expected : e \in ToSet(shown) \/ e \in ToSet(left)
  BY <1>1, <1>3
<1>7. left \in Seq(Moment)
  <2> HIDE DEF further, left
  <2> QED BY <1>2, <1>3
<1> HIDE DEF shown, cursor, further, expected, left
<1> QED BY <1>1, <1>3, <1>4, <1>5, <1>6, <1>7, PageShown

\* handleGetRecoveryHistory shows a client that follows the cursors every entry that was
\* there all the while, once, whatever was added, moved or explained between the pages.
THEOREM PagesComplete == HistorySpec => []PagesAreComplete
<1>1. HistoryInit => BootInv /\ ReaderInv
  BY BootInit DEF HistoryInit, NoReader, ReaderInv
<1>2. BootInv /\ ReaderInv /\ [HistoryNext]_historyVars => BootInv' /\ ReaderInv'
  <2> SUFFICES ASSUME BootInv, ReaderInv, [HistoryNext]_historyVars
               PROVE  BootInv' /\ ReaderInv'
    OBVIOUS
  <2>1. BootInv'
    BY BootStep
  <2>2. CASE ReadFirst
    BY <2>1, <2>2, FirstPage
  <2>3. CASE ReadNext
    BY <2>1, <2>3, FurtherPage
  <2>4. CASE UNCHANGED reader
    BY <2>1, <2>4 DEF ReaderInv
  <2>5. ReadFirst \/ ReadNext \/ UNCHANGED reader
    BY DEF HistoryNext, historyVars, Boot, Reset, ClockTick, HostObserved, See, SeeBoot,
           SeeBootFails, Collect, ObserveBoots, Finish, FinishFails, WatchdogKilled,
           WatchdogPowerLoss, Restarted
  <2> QED BY <2>2, <2>3, <2>4, <2>5
<1>3. BootInv /\ ReaderInv => PagesAreComplete
  <2> SUFFICES ASSUME BootInv, ReaderInv PROVE PagesAreComplete
    OBVIOUS
  <2>1. ASSUME reader.phase # "none" PROVE IsInjective(reader.shown)
    <3>1. /\ reader.shown \in Seq(Moment) /\ Sorted(reader.shown)
          /\ DOMAIN reader.shown = 1..Len(reader.shown)
      BY <2>1 DEF ReaderInv, Shown
    <3> SUFFICES ASSUME NEW i \in 1..Len(reader.shown), NEW j \in 1..Len(reader.shown), i # j
                 PROVE  reader.shown[i] # reader.shown[j]
      BY <3>1 DEF IsInjective
    <3>2. Newer(reader.shown[i], reader.shown[j]) \/ Newer(reader.shown[j], reader.shown[i])
      BY <3>1 DEF Sorted
    <3>3. reader.shown[i] \in Moment /\ reader.shown[j] \in Moment
      BY <3>1
    <3> QED BY <3>2, <3>3 DEF Newer, Moment
  <2>2. ASSUME reader.phase = "done" PROVE reader.expected \subseteq ToSet(reader.shown)
    BY <2>2 DEF ReaderInv, Shown
  <2> QED BY <2>1, <2>2 DEF PagesAreComplete
<1> QED BY <1>1, <1>2, <1>3, PTL DEF HistorySpec
=============================================================================
