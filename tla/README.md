# Verification of NMC

TLA+ models of the parts of NMC whose mistakes are expensive and hard to test:
provider commands that create and destroy machines, power actions on physical
hosts, changes of running workloads, and the files that remember what was done.
Each module is translated from the source, model-checked by TLC on small
instances, and, where a property matters most, proved with TLAPS for every
value of the constants.

    tlc -config MCJobsSettled.cfg MCProviderComputeJobManager.tla
    tlapm ProviderComputeJobManagerProofs.tla

`PROJECT.json` lists components, runs, mutants, the map from definitions to
source lines, hazards, findings and theorems. `Fault:` marks an operator that
differs from the code on purpose: a mutant puts it in place of the definition it
precedes, and the run must then find its property violated.

## The system

NMC is a C++ server (`nmc_server`), a C++ command-line client (`nmc_client`), a
Rust daemon (`nmc_bmc_observer`) and Node.js operations scripts (`scripts/`).
The server answers HTTP requests on a pool of threads and drives Kubernetes,
virtual clusters, cloud providers, GitHub Actions and the board management
controllers (BMCs) of physical hosts. The daemon and the scripts call the
server through the client.

| component | state | operations | what makes it correct | module |
|---|---|---|---|---|
| provider job manager (`ProviderComputeJobManager`) | job table, queue, idempotency ledger, one state file | submit, worker loop, start, stop, load, persist, prune | a command is launched once per job and per key, over crashes and failed writes | `ProviderComputeJobManager`, `AtMostOnceLaunch` |
| controller actions, event subscriptions (`DeviceManagement`) | append-only audit file under `flock` | power action, subscription | one command per request id, durable intent first, host recoveries fenced | `ControllerActions` |
| BMC observer (`nmc_bmc_observer`) | state file and event log, enrolments | poll, enrol, reconcile, accept events | an event counts once, an uncertain enrolment is never repeated blindly | `BmcObserver` over `ControllerActions` |
| availability watchdog (`availability-watchdog.mjs`) | journal, streaks | tick, compact | never resubmits, one open incident, budget and cooldown | `AvailabilityWatchdog` |
| host boot journal, recovery history (`host-boot-journal.mjs`, `handleGetRecoveryHistory`) | journal and checkpoint; none | observe; read a page | no boot is skipped, pages are complete | `RecoveryHistory` |
| Deployment mutations (`K8sHandlers_Recovery`) | annotations of a Deployment, its resource version | restart, rollout, storage repair, OctoBot policy | what was checked is what is changed, success is true | `DeploymentMutations`, `AtomicDeployment` |
| GitHub dispatch (`APIRoutes_GitHubActions`) | task file | dispatch, status, cancel, result | one dispatch per task, a lost run is found | `GitHubDispatch` |
| state stores (`ServerStateStore`, `TraceyStateStore`) | dirty flag, event queue, worker | schedule, record, flush, stop, hydrate | the last state reaches disk, no event is dropped silently | `StateStore` |
| Tracey agents (`APIRoutes_TraceyRuntime`) | registry of agents | announcement, heartbeat, requirement, poll, list | an answer is the agent's own, addresses and liveness come right | `TraceyAgents` |
| the rest | see "Not modelled" | registries, CRUD, proxies, start-up, client, dashboard | | |

How they interact. The job manager calls provider commands on its own worker
threads. The watchdog and operators call the controller actions and the
Deployment mutations; each side keeps a file of its own as a fence, and the
server's audit sees the actions of all of them. The observer enrols itself
through the same audit file, which `BmcObserver` models by an instance of
`ControllerActions`. The watchdog's boot journal is read back by the server's
recovery history, and both are one module.

What is hard: two threads, two processes or two programs between a check and
its use; a process killed between an intent, its effect and its completion; a
write that fails before or after it became visible; power loss of what was not
synced; a client that retries, late or with another body; bounded tables that
forget; a copy that is written back after a network call; work that must end.

A convention of all modules: an end of the process inside a critical section is
the failing branch of the write it was in, followed by `Kill`. Files are modelled
by what a reader sees and by what a power loss may leave.

## Plan

1. `ProviderComputeJobManager` with the abstract `AtMostOnceLaunch`, proofs. Done.
2. `ControllerActions`, proofs. Done.
3. `AvailabilityWatchdog`. Done. A composition with `ControllerActions` was
   planned and left out: the server fences the watchdog by the request id, which
   `RequestCommandedOnce` proves for every caller, and the watchdog draws an id
   once, which `OneOpenIncident` proves.
4. `DeploymentMutations` with the abstract `AtomicDeployment`, proofs. Done.
5. `GitHubDispatch`, `StateStore`, `TraceyAgents`, `BmcObserver`,
   `RecoveryHistory`, proofs. Done.
6. `ServerFollowed`, which composes `BmcObserver` and `ControllerActions`. Done.
   What is left of the runs' properties is liveness, which stays with TLC.

No module but the MC modules is written for TLC alone: there are no RECURSIVE
operators, one action stands for one operation, and invariants are conjunctions
of named parts.

## Provider job manager

`ProviderComputeJobManager.tla` models `Core/ProviderComputeJobManager.cpp`. A
critical section of `mutex_` is one action. `Prepare` is what `submit` does
before the lock (validation, preflight, and the clock it will prune and stamp
with); `SubmitAccepted`, `SubmitRepeated`, `SubmitDeclined`,
`SubmitNotRecorded` and `SubmitUnavailable` are its outcomes. `Take`,
`TakeNotRecorded`, `Launch`, `Finish` and `WorkerExit` are the worker loop.
`Load`, `LoadFails`, `Start`, `StartFails`, `Stop` and `Exit` are construction
and destruction, which only `APIRoutes` calls, in its constructor and
destructor. `Kill` and `PowerLoss` end the process.

- `file` is what a reader of the state file sees; `survivors` are the images a
  power loss may leave. A failed write leaves both alone or fails after the
  rename (the directory sync), when the file is new and either image survives.
- `pruneLocked` runs inside every action that calls it. Equal completion times
  make its choice nondeterministic (`Victims`).
- A request is its deduplication key and its fingerprint.
- `Launch` is the provider command. A running job whose checks refuse it goes to
  `failed` without `Launch`.
- Histories: `ticket` (what was issued), `launches`, `disclaimed` (reported as
  never launched), `told` (which requests were answered with a job).
- A manager whose file could not be read is closed and empty: it "settles" no
  job's status in the file, which a later start does.

`AtMostOnceLaunch.tla` is the promise without queue, file or crash: a ticket per
job, at most one launch per ticket, none after a disclaimer, and two launches of
one key only a retention apart. `KeepsPromise` is the refinement.

| run | instance | shows |
|---|---|---|
| `jobs_interleaving` | 2 jobs, 2 keys, 1 body, 2 HTTP threads, 2 workers against a queue, a history and a ledger of 1, jobs pruned at once, keys kept for 1, clock from 1 to 2 | `KeepsPromise`, `LaunchIsOnRecord`, `LedgerCoversLaunches`, `AvailableIsDurable` |
| `jobs_settled` | 2 jobs, 1 key, 2 bodies, 1 HTTP thread, 2 workers, fairness, the clock stands still | `AnswersMatchRequest`, `AdmittedIsSettled`, `StopEnds` |

Bounds. The source has 2 workers, a queue of 32, a history of 128, a ledger of
1024, and retentions of 1 and 7 days. In `jobs_interleaving` each limit is
reached, a record outlives its job, and a key of time 1 expires at 2 and is
launched again, which is the boundary of `AtMostOnceLaunch` and of
`LedgerCoversLaunches`. The properties of `jobs_settled` do not depend on time:
nothing expires there. Two of a kind are enough for every property here: each
relates at most two jobs. Deadlock is checked in both runs.

Fairness. The supervisor restarts the process (`Load`), a created manager is
started, every worker that can enter its critical section does, every provider
command returns (its runner has a deadline) and `stop` joins its threads. No
fairness is assumed of clients, of the clock, of successful writes, or that a
kill stays away.

Proofs (`ProviderComputeJobManagerProofs.tla`). All the safety properties the
runs check, the refinement, and five that are only proved, because a run of
`KeepsPromise` would show them again: `TypeOK`, `LaunchedAtMostOnce`,
`OneLaunchPerKey`, `NoStrandedJob` and `OutcomeIsFinal` (`DisclaimedNeverLaunched`
is a lemma). None is inductive alone. `Inv` states that memory, every surviving
image and the history agree: what is queued or cancelled anywhere was never
launched (`RecordInv`); a disclaimed job is out of reach of every worker also
after a restart (`DisclaimInv`); every ledger record anywhere tells the truth
about its ticket (`LedgerInv`); and the key of a live job is covered by every
image that may survive (`CoverInv`), which gives `SeparateInv`, the distance
between two jobs of one key. It is needed in this form because a power loss
makes any surviving image the next memory. Assumed of the constants: bounds are
naturals, sentinels are not members, `Fingerprints` is not empty. Liveness is
model-checked only.

Left out: the clock never goes back. With a clock that does, the worker reads a
job that `pruneLocked` may have erased (line 390), if the history is full of jobs
that ended later; no property covers it.

## Controller actions

`ControllerActions.tla` models `performControllerAction`,
`handleEventSubscription`, `appendAuditRecord`, `findAuditRequest`,
`hostRecoveryHistoryBlocker` and `AuditLock` in `Core/DeviceManagement.cpp`, for
several server processes on one audit file. Within a process `actionMutex_`
admits one request at a time, so a server is one task.

- `Admit` takes the lock, searches the file, asks the history for a host
  recovery and appends the intent; `Execute` is the command, `NotSent` the
  outcome without one, `Complete` the completion, the answer and the release of
  the lock. `Replay` answers a completed request. `Inspect` reads the
  subscriptions before the lock; `PushAdmit`, `PushAgain`, `PushNotRecorded`,
  `PushRefused` and `Post` follow the subscription handler.
- `audit` is what a reader sees, `synced` the prefix no power loss takes back,
  `torn` a last line that does not parse and stops every reader. `AppendFails`
  leaves the file alone, tears it, or writes the record and does not sync it. A
  later successful sync covers earlier bytes of the file.
- An end of the process is `Abandon`, or the failing append when it dies while it
  appends. `Abandon` is also an exception that leaves the handler.
- The command may take effect whatever is reported of it. Redfish, IPMI and
  Turing Pi are one command. Checks of evidence, inventory and permission that
  can only refuse are left out: the model admits more requests than the code.
- `Reset` is the controller's: it forgets its subscriptions, and the next request
  finds none.
- The file exists durably at the start. A file at its limit or torn refuses all
  later requests until an operator repairs it, which is not modelled. `PowerLoss`
  is always possible, so deadlock checking shows little here.
- A last line that lacks exactly its newline would parse and be glued to the next
  record (DeviceManagement.cpp:794); the model tears lines visibly only. The
  glued line stops every later request, so nothing is sent twice.

| run | instance | shows |
|---|---|---|
| `control_actions` | 2 ids, 2 devices, 2 outages, all operations, 2 servers, file of 4 records, clock to 3 | `RequestCommandedOnce`, `IntentIsDurable`, `AnswersAgree`, `RecoveryFenced` |
| `control_permitted` | 2 ids, 1 device, 1 server | finding: `RecoveryPermitted` is violated |

Bounds. A file of four records is full in the middle of a request; with two
requests a host recovery follows a resolved and an unresolved command. Cooldown
1, day 2 and budget 1 stand for 1 hour, 24 hours and 2: each comparison is met at
its boundary.

The promises are in `docs/DEVICE_MANAGEMENT.md` (an exact retry returns the saved
result without contacting hardware; the lock spans deduplication and operation;
an intent reaches storage first) and `docs/RECOVERY.md`.

Finding. The intent of an event subscription has no `started_at_unix_ms`, which
`hostRecoveryHistoryBlocker` reads from every intent: after one subscription
every host recovery of every device is refused as malformed history, although
none of the bounds `docs/RECOVERY.md` lists is reached.

Observed without a run: the history is asked for `host_recovery` only
(DeviceManagement.cpp:2455), so two restarts under `outage_recovery` may follow
each other within the cooldown.

Proofs (`ControllerActionsProofs.tla`). `TypeCorrect`, `CommandedOnce`,
`IntentDurable`, `OneAnswer` and `RecoveriesFenced`. `Safe` is the first inductive invariant: only the
holder of the lock works on a request (`Locked`), a server about to send a command
has its intent in the synced prefix and nothing was sent for its id (`Intended`),
and every command rests on a synced intent. A request with a record is not new, so
a new one has no command; `AuditStep` shows that a step never loses a synced record
and adds at most one. `Answered` adds what makes answers agree: the records of an id
have one intent and one outcome (`AuditAgrees`), a power action in progress has no
completion and nobody heard of it (`TasksAgree`), and what was told rests on a synced
record (`ToldAgrees`), which is needed because a client may be answered from a
completion that a power loss takes back. Assumed of the constants: sentinels are not
members, bounds are naturals.

`RecoveriesFenced` needs `FenceInv`, which relates the commands to what the history
could see of them when it was asked. `Documents`: the intent of every command, and of
every server about to send one, is in the synced prefix as it was written. `Fenced`: a
host recovery that was sent, or is about to be, has a synced completion of every
earlier command to its device before its own intent, keeps its cooldown and differs in
intent, and the host recoveries of its day are fewer than the budget. The history
counts intents and the property counts commands: an injection from the second to the
first gives the budget. That no other server slips a command in between the history
and the sending follows from the lock.

## BMC observer

`BmcObserver.tla` models `tick`, `observe_controller`, `reconcile` and
`Store::{open, commit, accept_events}` of the daemon for one controller, and runs
the subscription handler of `ControllerActions` beside it (`Server == INSTANCE`,
with `event_push` as the only operation). `Begin`, `Gap`, `Observe`, `Ask`,
`AskFails`, `Deadline` and `Conclude` are one tick; `ServerStep` passes a step of
the server on and, where it ends the request, answers the caller, unless the
caller's deadline has passed (`Deadline`), after which the server works on.

- `Observe` draws an identifier only when there was no enrolment or a configured
  one is due for its check; the request is repeated with that identifier and the
  inventory revision of the first tick.
- A commit appends to the journal, renames the state and syncs the directory, and
  may fail at each (`FailedWrites`). Memory keeps an enrolment whose commit
  failed and forgets an event whose commit failed; both are as in the code.
- `disk.survivors` are the states a power loss may leave. Either side may be
  killed or lose its power, and the controller may forget its subscriptions.

Run `observer`: 2 identifiers, 2 servers, an audit file of 7 records, 2 events
against a window of 1 (512 in the code), one change of the inventory, one reset,
two faults. `UncertainIsRemembered`, `NoSecondSubscription` (an action property),
`AckedIsDurable`, `UncertainIsReconciled`. A window of one makes every new event
displace an old one; two faults let one program fail after the other did.

Fairness: the service is restarted and its loop goes on, the server answers. Faults
are finitely many; nothing is assumed of the controller or of senders.

`UncertainIsReconciled` has a condition, and needs it: an enrolment is repeated
with the revision of its first tick, so after a change of the inventory the server
refuses it with 409 for ever (DeviceManagement.cpp:2026) and no new identifier is
drawn, although `docs/DEVICE_MANAGEMENT.md:86` says that an uncertain creation is
reconciled using its original request ID.

Left out: rotation of the journal, the clock, the refusals of a batch (freshness,
credentials, rate, size), leftover temporary files, and several controllers,
which share a state file but no enrolment.

Proofs (`BmcObserverProofs.tla`): type correctness, `UncertainIsRemembered`,
`AckedIsDurable` and `NoSecondSubscription`, for any number of identifiers, servers,
events, windows, changes and faults. `ObserverInv` has three sides. Of the files
(`EventInv`): in every state that may be read after a crash the counted events are in
order of arrival and in the journal, and an event that was acknowledged is among them
or was followed by a whole window of others (`Sound`); this is carried event by event
through a batch that may stop anywhere. Of the server (`ServerInv`): who works on a
request holds the lock, what was told is on record, and a creation about to be sent
meets no subscription. Of the two together: a call is for the enrolment in memory
(`Calling`), nothing is asked before its intent is all that may be read from the disk
(`Enrolling`), and a request that was sent or is worked on and got no answer is the
uncertain enrolment of every state that may be read (`Remembered`), so there is at
most one. This form is needed because any surviving state may be the next memory.
`ServerFollowed` composes the two modules: the server beside the observer implements
`Server!Spec`, so the theorems about `ControllerActions` hold of it as well; it uses
`ObserverInv` for the identifiers the observer asks with. `UncertainIsReconciled` stays
with TLC.

## Availability watchdog

`AvailabilityWatchdog.tla` models `Watchdog.tick`, `assess`, `allowedByHistory`
and `Journal.{append, compact}` of `scripts/availability-watchdog.mjs`. The tick
stops at each await, so a tick is several actions: with an open incident
`Reconcile`, `ReconcileNotes` or `ReconcileFails`; otherwise `Hold`, `Observe` or
`Decide`, then the second collection (`Cancel`, `Confirm`, `ConfirmFails`), the
call (`Submit`) and its note (`RecordSubmission`, `SubmissionNotRecorded`).

- A collection is a view: for each target an outage is proven, recovery is
  proven, or neither. Views are inputs, the same for all that follows in a tick;
  at the end of time all targets are well.
- `Write` and `WriteFails` are `append` with the compaction it may begin with. A
  failed append leaves the file alone, stops within the compaction, tears a line
  (`damaged`, which keeps the next start down), or leaves the line visible and
  not synced; memory forgets it in all of them. A compaction writes the file
  anew and so removes a torn line.
- The 16 MiB bound of the file is a failing append. No time passes between the
  intent and the call: the code awaits nothing there.
- Histories: `failing`, for how long every collection of this process found a target
  failed, with no incident open; `sustained`, how many collections in a row found the
  target of the open incident well; `commands`, the calls.

| run | instance | shows |
|---|---|---|
| `watchdog` | a service and a host, 3 intents, compaction above 2 records, clock to 5, day and retention 3, cooldown 2, 2 faults | `OneOpenIncident`, `UnresolvedIsRemembered`, `WithinBudget`, `OnlyProvenOutages`, `CircuitCloses` |
| `watchdog_streak` | the same without faults | finding: `RecoveryIsSustained` is violated |

Bounds. Three intents are one more than the daily budget of 2, and intents are at
least one tick apart, so within a day of 3 there is room for the third. Cooldown and
budget decide separately: the cooldown of one target lets another one be acted on, and
a third intent within the day is refused although its target is not cooling down, and
allowed after it. The mutant of `WithinBudget` drops the budget. A journal of two
records is compacted while an incident is open. Deadlock is not checked: a damaged
journal keeps the watchdog down.

Fairness. The loop ticks for ever, systemd restarts the process, time passes, and
faults are finitely many. `CircuitCloses` fails without any of them, and is
conditional on a journal that parses.

Finding. `recoveryStreak` is reset by an unhealthy collection and by a restart,
never by the recovery it leads to: the next incident of the same process is closed
by its first healthy collection, where `docs/RECOVERY.md:160` asks for repeated
samples.

Not covered: one target that fails for ever keeps the others waiting behind its
open incident, which is what the code means; changes of the configuration while
an incident is open; a power loss that restores the journal from before a
compaction whose directory sync failed; archives older than the four that are
kept; a clock that goes back.

Proofs (`AvailabilityWatchdogProofs.tla`): type correctness, `OneOpenIncident`,
`UnresolvedIsRemembered`, `WithinBudget` and the action property `OnlyProvenOutages`,
for any number of targets, any policy and any number of faults. `CallInv` is inductive.
The files lose nothing durable but what an incident left in the archive with its
recovery (`FileInv`, `WriteKeeps`). Every call is accounted for: its intent is durable,
or it is settled and a day old; the calls have rising identifiers, and each was made
when all before it were settled (`CallsInOrder`). Between the durable intent and the
call the same holds of the request (`RequestPrepared`). The decision counts the intents
in memory; each call that still counts has one, its own, so a decision allows no more
calls than the budget (`BudgetIsKept`, an injection). `DecisionHolds` and
`StreakIsFailing` relate the streak to what every collection found. The incident that a
tick reconciles is the smallest identifier, which exists by well-foundedness. Assumed:
one sample at least, and cooldown <= day <= retention, which is what the bounds of the
configuration and of the compaction give. `CircuitCloses` stays with TLC.

## Deployment mutations

`DeploymentMutations.tla` models the conditional changes of one Deployment in
`Core/K8sHandlers_Recovery.cpp`: `handleRestartDeployment` with its two
preflights, the image rollout, the FPV storage repair and the OctoBot policy. Each
reads (`Read`), decides (`Permitted`, `Repeated`, `SameIntent`, `Expected`), and
sends a merge patch with the resource version it read (`Send`); Kubernetes takes it
or refuses it (`Accept`, `Refuse`), also after its server stopped waiting
(`Abandon`). A rollout to the image that is expected and there already is answered
with success and leaves no record (`AlreadyThere`). A server is one task because
`apiClientMutex` is held throughout. `Edit` and `Settle` are other writers and the
Deployment controller.

The storage repair accepts `aarnn-web-ui` and `aarnn-fpv-workers`. For the workers it
first reads the web UI (`ReadOwner`), whose opt-in label and volume claim decide;
their own label is not looked at. The owner is a second Deployment that others edit
(`EditOwner`), and the resource version of the patch does not cover it.

`AtomicDeployment.tla` is the promise: a request is checked and applied in one
step, against the Deployment as it is in that step, and leaves all else alone. The
repair of the workers is the exception, and the specification says so: it needs the
consent of their owner, given in an earlier step of the request and for the claim the
workers have when it takes effect. The owner may have withdrawn it, or changed its
claim, since. `ChecksHoldWhenApplied` is the refinement; `consents` is what servers
and patches in flight have read of the owner. `docs/RECOVERY.md` and
`docs/aarnn-fpv-storage-repair.md` ask for the owner's opt-in and one claim, and do
not say at which moment.

Run `deployment`: one Deployment of the three, 2 servers, 3 versions, 2 claims, one
patch in flight; for OctoBot a rollout, a restart and three policies of which two
name one predecessor, for the web UI two repairs that share an identifier and two
rollouts of which one asks for the image it expects, for the workers a repair:
`PoliciesChain`, `SuccessIsTrue`, `ChecksHoldWhenApplied`. Three versions are a
request, a foreign change and another request. The bounds stop the model, so
deadlock is not checked.

Proofs (`DeploymentMutationsProofs.tla`): type correctness, the refinement
(`HandlersCheck`), `SuccessIsTrue` and `PoliciesChain`, for all servers, requests and
bounds. The refinement rests on an invariant that a task which passed its checks
passed them on the Deployment and the claim it saw, and that a Deployment with the
version of one that was seen is that Deployment; only `ReadOwner` adds a consent.
`TruthInv` says that each request on record was applied, to this Deployment; the
chain of policies rests on predecessors that are spent once they were replaced. Two
assumptions on `Requests` are needed and are about clients: one identifier stands for
one policy, and a client that uses an identifier again changes something of what is
recorded of its intent (the storage repair does not record the image it pinned).

A known limit: only the last request of a kind is on record. A late repeat of an
earlier rollout is not recognised, and is applied again when the image it expects
is back (K8sHandlers_Recovery.cpp:2017), where `docs/RECOVERY.md:60` speaks of a
repeat without qualification. `SuccessIsTrue` covers what such a repeat is told.

Left out: container and bootstrap container names, Pods and hosts in the checks,
all of which may only refuse, and the read-only status, log and event routes.

## State stores

`StateStore.tla` models both `ServerStateStore` and `TraceyStateStore`; `store.kind`
says which: the Tracey store does not retry. Handlers change a registry under the
data mutex (`Change`) and schedule a snapshot later (`Schedule`); `Take`, `Build`,
`WriteFile`, `WriteFileFails`, `Commit`, `CommitFails` and `CommitAnswerLost` are
one flush of the worker; `Interval` and `RetryDelay` are its timed waits, as the
flags `due` and `held`; `Load` is the next start, which hydrates and schedules.
`stopRequested_` is read without its mutex when a batch failed: either value may be
seen (`SeenStop`).

Run `store`: both stores with and without PostgreSQL, queue and batch of 1, 3
events, one change, 2 failures: `BacklogIsBounded`, `NoEventVanishes`,
`EventsKeepOrder`, `CleanStopSaves`, `ChangesReachDisk`, `StopEnds`. With a queue
and a batch of one, a batch that comes back meets a full queue at once; the source
has 50000 and 512. The model stops at its bounds, so deadlock is not checked.

Fairness: handlers return, the worker runs, timed waits end. PostgreSQL may stay
out of reach for ever.

What the model shows of the code, and no property forbids: a failed write of the
file is not repeated before the next change (ServerStateStore.cpp:433), which the
properties except; and at the next start an equal or later time in PostgreSQL wins
over the file (line 231), times are taken before the change and often in whole
seconds, so the older of two snapshots of one second may win when PostgreSQL
missed the later one. The file is not synced, so a power loss is left out.

Proofs (`StateStoreProofs.tla`): type correctness and all four invariants, for
every limit. `BacklogIsBounded` needs that a worker outside a flush holds no batch
(`Resting`). `EventsKeepOrder` needs `InOrder`: batch and queue are one rising
sequence, and whatever of it is below a row of PostgreSQL is a row already, so a
batch that is inserted twice breaks no order. `CleanStopSaves` needs `Fresh`: until
the file has the state of the registries, a handler has to schedule, the snapshot is
dirty, or the worker is about to write. The proofs assume that the clock starts
within its bound (`Second <= MaxTime`).

## GitHub dispatch

`GitHubDispatch.tla` models the task file of `Core/APIRoutes_GitHubActions.cpp`.
`Dispatch` is everything up to the unlock (pruning, the record, the durable write);
`Queued`, `Unanswered` and `Rejected` the outcomes of the call; `Ask`, `Reconcile`,
`NotFound`, `Record`, `Fetch`, `Cancel`, `Finish` and `Leave` the look-up, status,
cancellation and result. Every copy is read and written back without a lock in
between (`Updated`), as in `updateTask`. `late` are dispatches whose caller heard
nothing; they arrive or vanish. A look-up sees the newest 100 runs of the workflow
(`Page`): other runs may push a task's run off it (`OtherRuns`), for good.

Run `github_dispatch`: 2 tasks, 2 threads, a file of one record, retention of one
period, 3 runs, 2 failures, clock to 4: `SubmittedOnce`, `RunIsTheTasks`, `TerminalIsOver`,
`RunIsFound`. A tick of the clock is a retention period: GitHub decides on a
dispatch, runs end, and a request spans at most one tick. One record makes the
second task wait for the expiry of the first. `RunIsFound` asks that a run is found
unless it left the page: a run that is started while 100 others begin is never found,
and its record stays `dispatch_unknown`, which nothing in the code prevents.

Fairness: a request ends, and clients ask for a task again and again (strong,
because the record may be pruned in between); failures are finitely many.

Observed: a copy read before its record expired and written after the task was
dispatched anew lets the new record expire early. Left out: the intents of
requests (another intent is refused), the cancellation flag, power loss (the
directory is not synced), and the source snapshot of a task.

Proofs (`GitHubDispatchProofs.tla`): type correctness, `RunIsTheTasks`,
`TerminalIsOver` and `SubmittedOnce`, for every number of tasks, threads, records
and runs. The first three follow from `Sound`: what a record or a copy says of its
run is true, and stays true when runs are added or end. `SubmittedOnce` needs `Once`:
the record of a task that is under way is at most one period old (`Kept`), so it is
not forgotten, no other dispatch of it begins (`Forgotten`), and what is under way is
alone and younger than every run of the task (`Alone`). They assume a retention of at
least one period (the code's is 30 days, a request is bounded by its timeouts) and
that the mark of a missing record is no record.

## Tracey agents

`TraceyAgents.tla` models the life of an agent's record in
`Core/APIRoutes_TraceyRuntime.cpp`: announcements over UDP, heartbeats,
requirements of managed resources, the marking of silent agents, and the polls of
the discovery thread, which copies addresses, waits for the network without
`dataMutex` and writes the copied address back. Ages stand for times. One thread
reads one datagram a round and makes its polls one after the other.

Run `tracey`: an agent that announces itself and one that sends heartbeats, 2
addresses, one move, one outdated address named by others, staleness after one
period, answers that say healthy or offline: `SnapshotIsOwn`, `AddressSettles`,
`ReturnsToService`, `DeadIsDisclosed`. A bound: others name a wrong address only
for the agent that announces itself (`Mistaken`), which the liveness properties are
about. One move suffices to let an agent take another's address while a poll is on
its way. `OfflineAfter` is 1 here and 3 in the code.

Fairness: the thread loops, its back-off is bounded, agents announce themselves
again and again, and UDP and the polled agents are fair-lossy (an announcement sent
for ever arrives for ever, an agent asked for ever answers for ever).

What the code relies on: a round of polls is shorter than the stale window. Success
is dated by the beginning of the round and polls are serial, so with many unreachable
agents the window can pass, and an agent that answers every poll is then listed as
offline; nothing in the code prevents it. The model lets a round take any time, and
`ReturnsToService` states its condition: from some time on the agent runs, says that it
is in service (an agent may answer `offline`, which is what is then listed), and rounds
end within the window (`Timely`). Without the last condition it fails.
A lost update of an address heals only by a later announcement; an old
address named by a peer keeps a dead agent alive until polls fail.

Proofs (`TraceyAgentsProofs.tla`): type correctness and `SnapshotIsOwn`, for every
set of agents and addresses and every bound.

Left out: link states, scores, logs, histories, compliance, control and deep-dive
requests, the adaptive assessment, several hints in one answer, restarts of the
server, invalid addresses.

## Host boot journal and recovery history

`RecoveryHistory.tla` models `BootJournal` of `scripts/host-boot-journal.mjs` as
the watchdog calls it (`Collect`, `ObserveBoots`, `See`, `SeeBoot`, `SeeBootFails`,
`Finish`, `FinishFails`) and `handleGetRecoveryHistory` of the server
(`ReadFirst`, `ReadNext`): the merge of audit and boot journal, the correlation of
boots with resets (`Explained`), the order and the cursor. Files grow while a
client pages through them. Its variables and its specification have names that
`AvailabilityWatchdog` does not use (`bootJournal`, `HistorySpec`), because one module
proves about both.

Run `history`: one host, 3 boots, 2 resets, 2 failures, clock to 2, pages of one
entry: `CheckpointIsBehindJournal`, `PagesAreComplete`, `BootIsReported`. Pages of
one entry make a cursor of every entry; a clock of two makes entries share a time.
The watchdog's ticks and, for each host, healthy collections are fair.

What the code does and no property forbids. A boot counts as explained when its
reset began after the host was last seen; the observer takes the end of its
collection for that time, and a host that is slow to go down is seen once more, so
the boot is listed as an incident of its own (DeviceManagement.cpp:2793, against
`docs/RECOVERY.md:202`). After a restart of the watchdog two boots may fall into one
window and the later one hides the earlier. A torn line is glued to the next one,
and the server then answers 503 for the whole history (DeviceManagement.cpp:2743):
every boot is unreadable until the file is repaired, although the comment at
host-boot-journal.mjs:5 says that an interruption can only replay the event.
`BootIsReported` excepts exactly this: whenever the file parses, every boot comes to be in it.
Without the exception it fails.
Server and watchdog are assumed to share a clock. Rotation at 1 MiB is left out,
with its race against a reader.

Proofs (second part of `AvailabilityWatchdogProofs.tla`): type correctness,
`CheckpointIsBehindJournal` and `PagesAreComplete`, for any number of hosts, boots,
resets and failures and pages of any size. `CheckpointIsBehindJournal` is not inductive:
memory is written over the checkpoint, and what a crash leaves of the checkpoint becomes
memory. `BootInv` therefore says of all three, memory and both images of the checkpoint,
that what they remember is in the synced lines or was the first boot seen, and no step
takes a line from those (`BootsStay`). `ReaderInv` carries the reading from page to page:
what was shown is strictly in order, and what was there all the while was shown or is
beyond the cursor. That a page is in order rests on `OrderedSorts`: the places of finitely
many entries are a bijection with 1..n, because an entry with k newer ones has place
k + 1. Assumed: at least one host, one entry a page, one boot and one tick of the clock.
`BootIsReported` stays with TLC.

## What is proved and what is only model-checked

Proved for every value of the constants: every invariant and every action property
that a passing run checks, both refinements of an abstract specification, the
composition of observer and server, and the type invariants of all components, which are not among the properties of the runs, to leave those for what
could go wrong. An invariant that a run checks is in most cases not inductive; the
section of its module names the one that is.

Only model-checked: the liveness properties (`AdmittedIsSettled`, both `StopEnds`,
`UncertainIsReconciled`, `CircuitCloses`, `ChangesReachDisk`, `RunIsFound`,
`AddressSettles`, `ReturnsToService`, `DeadIsDisclosed`, `BootIsReported`), since
fairness is about ENABLED, which is outside the prover. The two findings are traces
that TLC finds. What is proved is proved of the models: the bounds in their guards are
parameters, so a theorem holds for every bound, and the abstractions each section names
are those of the theorems too.

## Not modelled

The models cover the code that keeps state across requests and has guarantees a
reader could name. Most of the source is something else, which is why the map covers
a small share of its lines: handlers that pass one call on and format its answer
(`K8sHandlers`, virtual clusters, provider clients, domain proxies, release
operations), heuristics without a stated guarantee (Tracey scoring, the adaptive
assessment, the CVE index), presentation (dashboard, documentation), validation of
one input (OIDC, the device inventory, provider preflights), the command-line client,
and tests, deployment and build scripts. Records of domains, of the AI lab and of
virtual clusters are created, read, changed and deleted under one mutex; their path
to disk is `StateStore`. The BMC log guard is one sequential program whose guarantee
is the controller's reservation, which would be an assumption of a model. The central
authentication cache decides who may call, not what a call does.

Left out everywhere: request validation, wording, formats, logging and metrics.
