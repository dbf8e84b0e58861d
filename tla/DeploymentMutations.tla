------------------------- MODULE DeploymentMutations -------------------------
(***************************************************************************)
(* The conditional changes of one Deployment in Core/K8sHandlers_Recovery: *)
(* restart, image rollout, FPV storage repair and OctoBot policy.  Each    *)
(* reads the Deployment, decides, and sends a merge patch that carries the *)
(* resource version it read.                                               *)
(*                                                                         *)
(* A server runs one request at a time (apiClientMutex); several servers,  *)
(* operators and Kubernetes itself write the same Deployment.  A patch may *)
(* be applied after its server stopped waiting for it.  The repair of the  *)
(* FPV workers looks at a second Deployment, the web UI that owns their    *)
(* volume, before it reads theirs.                                         *)
(***************************************************************************)
EXTENDS Naturals, FiniteSets

CONSTANTS
    Servers,
    Requests,     \* what clients send: records of Request
    Images,
    Settings,     \* values of the environment a policy or a repair sets
    Claims,       \* persistent volume claims
    NoRequest,    \* no annotation, no task, no claim read
    MaxVersion,   \* bound on the resource version
    MaxFlight     \* bound on the patches in flight

Kinds == {"restart", "rollout", "policy", "storage"}

\* The Deployments whose storage is repaired, and the one that has a policy.
Repairable == {"aarnn-web-ui", "aarnn-fpv-workers"}
Names == Repairable \cup {"octobot"}

\* A request names a Deployment; on it, it is identified by its operation, its
\* request_id and its intent.  "expected" is expected_image, or
\* expected_request_id of a policy.
Request == [kind : Kinds, deployment : Names, id : {r.id : r \in Requests},
            change : {r.change : r \in Requests}, image : Images, setting : Settings,
            expected : {r.expected : r \in Requests}]

ASSUME RequestsAssumption ==
    /\ Requests \subseteq Request
    /\ NoRequest \notin Requests
    /\ \A r \in Requests : r.id # NoRequest
    /\ NoRequest \notin Claims

\* A client uses the identifier of a policy for one policy.
ASSUME PolicyIdAssumption ==
    \A r, q \in Requests : r.kind = "policy" /\ q.kind = "policy" /\ r.id = q.id => r = q

\* A client that uses an identifier again changes what is recorded of its
\* intent; a restart has no other intent than its identifier.
ASSUME IntentAssumption ==
    \A r, q \in Requests : r.kind = q.kind /\ r.deployment = q.deployment /\ r.id = q.id =>
        \/ r = q
        \/ r.kind # "restart" /\ r.change # q.change
        \/ r.kind = "rollout" /\ r.image # q.image
        \/ r.kind = "storage" /\ r.expected # q.expected

ASSUME BoundsAssumption == MaxVersion \in Nat /\ MaxFlight \in Nat \ {0}

\* What is read of the owner: its opt-in label and its claim.
Owner == [open : BOOLEAN, claim : Claims]

VARIABLES
    dep,       \* the Deployment in Kubernetes
    owner,     \* the web UI that owns the volume, when dep is the FPV workers
    task,      \* the request each server works on, and what it read
    flight,    \* patches sent and not yet answered by Kubernetes
    applied,   \* history: how often each request took effect
    told       \* history: the requests a client was told succeeded

vars == <<dep, owner, task, flight, applied, told>>

Idle == [phase |-> "idle", request |-> NoRequest, seen |-> NoRequest, claim |-> NoRequest]

Init ==
    /\ \E image \in Images, setting \in Settings, claim \in Claims, name \in Names :
          /\ dep = [name |-> name, version |-> 0, open |-> TRUE, stable |-> TRUE, image |-> image,
                    setting |-> setting, claim |-> claim, last |-> [k \in Kinds |-> NoRequest]]
          /\ owner = [open |-> TRUE, claim |-> claim]
    /\ task = [s \in Servers |-> Idle]
    /\ flight = {}
    /\ applied = [r \in Requests |-> 0]
    /\ told = {}

\* The request_id in the annotations of an operation.
LastId(d, kind) == IF d.last[kind] = NoRequest THEN NoRequest ELSE d.last[kind].id

-----------------------------------------------------------------------------
(* Decisions on the Deployment that was read.  Checks that can only refuse *)
(* (request syntax, Pods, hosts, container lists) are left out: any task   *)
(* may be refused (Abandon), and a refusal changes nothing.                *)

Repeated(d, r) == LastId(d, r.kind) = r.id

\* inspectDeploymentRecoveryState: the opt-in label and a finished rollout.
Eligible(d) == d.open /\ d.stable

RolloutPermitted(d, r) == d.open

SameRollout(d, r) ==
    LET was == d.last["rollout"] IN
    was.change = r.change /\ was.image = r.image /\ d.image = r.image

RolloutExpected(d, r) == d.image = r.expected

\* The image that is asked for is there already.
InPlace(d, r) == r.kind = "rollout" /\ d.image = r.image

\* The repair looks at the owner of the Deployment.
OwnerAsked(r) == r.kind = "storage" /\ r.deployment = "aarnn-fpv-workers"

\* The web UI is its own owner.  Of the workers the claim alone is compared, with
\* the one that was read of their owner; their own opt-in label is not looked at.
RepairPermitted(d, r, claim) ==
    /\ d.name \in Repairable
    /\ IF OwnerAsked(r) THEN d.claim = claim ELSE d.open

RepairChanges(d, r) == d.setting # r.setting \/ d.image # r.image

SameRepair(d, r) ==
    LET was == d.last["storage"] IN
    was.change = r.change /\ was.expected = r.expected /\ ~RepairChanges(d, r)

RepairExpected(d, r) == d.image = r.expected

PolicyPermitted(d, r) == d.name = "octobot" /\ d.open

SamePolicy(d, r) ==
    LET was == d.last["policy"] IN
    /\ d.setting = r.setting
    /\ was.expected = r.expected
    /\ was.change = r.change
    /\ was.setting = r.setting

\* Fault: the expected request identifier is not compared.
AnyPredecessor(d, r) == TRUE

PolicyExpected(d, r) == LastId(d, "policy") = r.expected

\* The labels are looked at before the annotations, except by a restart, whose
\* preflight looks at them afterwards.
Permitted(d, r, claim) ==
    /\ d.name = r.deployment
    /\ r.kind = "rollout" => RolloutPermitted(d, r)
    /\ r.kind = "storage" => RepairPermitted(d, r, claim)
    /\ r.kind = "policy" => PolicyPermitted(d, r)

\* Fault: the request identifier alone makes a repeat.
AnyIntent(d, r) == TRUE

\* The annotations, and the template where it is compared, are of this intent.
SameIntent(d, r) ==
    /\ r.kind = "rollout" => SameRollout(d, r)
    /\ r.kind = "storage" => SameRepair(d, r)
    /\ r.kind = "policy" => SamePolicy(d, r)

\* The precondition the request names.
Expected(d, r) ==
    /\ r.kind = "rollout" => RolloutExpected(d, r)
    /\ r.kind = "storage" => RepairExpected(d, r)
    /\ r.kind = "policy" => PolicyExpected(d, r)

-----------------------------------------------------------------------------
(* One request.  A refusal answers and changes nothing.                    *)

\* The owner is read, and must opt in, before the Deployment is.
ReadOwner(s, r) ==
    /\ task[s].phase = "idle"
    /\ OwnerAsked(r)
    /\ r.deployment = dep.name
    /\ owner.open
    /\ task' = [task EXCEPT ![s] =
          [phase |-> "owned", request |-> r, seen |-> NoRequest, claim |-> owner.claim]]
    /\ UNCHANGED <<dep, owner, flight, applied, told>>

\* Server s comes to read the Deployment for request r.
Turn(s, r) ==
    IF OwnerAsked(r) THEN task[s].phase = "owned" /\ task[s].request = r
    ELSE task[s].phase = "idle"

\* Already applied: the annotations carry this request.
Repeat(s, r) ==
    /\ Turn(s, r)
    /\ Permitted(dep, r, task[s].claim)
    /\ Repeated(dep, r)
    /\ SameIntent(dep, r)
    /\ told' = told \cup {r}
    /\ task' = [task EXCEPT ![s] = Idle]
    /\ UNCHANGED <<dep, owner, flight, applied>>

\* Success without a change, and without a record of the request.
AlreadyThere(s, r) ==
    /\ Turn(s, r)
    /\ Permitted(dep, r, task[s].claim)
    /\ ~Repeated(dep, r)
    /\ Expected(dep, r)
    /\ InPlace(dep, r)
    /\ told' = told \cup {r}
    /\ UNCHANGED <<dep, owner, task, flight, applied>>

Read(s, r) ==
    /\ Turn(s, r)
    /\ Permitted(dep, r, task[s].claim)
    /\ ~Repeated(dep, r)
    /\ Expected(dep, r)
    /\ ~InPlace(dep, r)
    /\ task' = [task EXCEPT ![s] =
          [phase |-> IF r.kind = "restart" THEN "read" ELSE "ready", request |-> r, seen |-> dep,
           claim |-> task[s].claim]]
    /\ UNCHANGED <<dep, owner, flight, applied, told>>

\* The first and the final preflight of a restart.  Each reads the Deployment
\* again and must find the version that was read at first.
Inspect(s) ==
    /\ task[s].phase \in {"read", "inspected"}
    /\ Eligible(dep)
    /\ dep.version = task[s].seen.version
    /\ task' = [task EXCEPT ![s].phase = IF @ = "read" THEN "inspected" ELSE "ready"]
    /\ UNCHANGED <<dep, owner, flight, applied, told>>

Send(s) ==
    /\ task[s].phase = "ready"
    /\ Cardinality(flight) < MaxFlight
    /\ flight' = flight \cup {[server |-> s, request |-> task[s].request, seen |-> task[s].seen,
                              claim |-> task[s].claim]}
    /\ task' = [task EXCEPT ![s].phase = "sent"]
    /\ UNCHANGED <<dep, owner, applied, told>>

\* Kubernetes accepted the patch and its answer arrived.
Reply(s) ==
    /\ task[s].phase = "accepted"
    /\ told' = told \cup {task[s].request}
    /\ task' = [task EXCEPT ![s] = Idle]
    /\ UNCHANGED <<dep, owner, flight, applied>>

\* The request is refused, its answer from Kubernetes does not arrive, or the
\* server ends.  A patch that was sent stays in flight.
Abandon(s) ==
    /\ task[s].phase # "idle"
    /\ task' = [task EXCEPT ![s] = Idle]
    /\ UNCHANGED <<dep, owner, flight, applied, told>>

-----------------------------------------------------------------------------
(* Kubernetes and its other writers.                                       *)

\* Fault: the patch carries no resource version.
Unconditional(p) == TRUE

Fresh(p) == p.seen.version = dep.version

\* What the body of a patch does to the template.  A merge patch replaces the
\* container lists by the ones that were read, with the change made in them; a
\* repair sends the whole template.
RestartPatch(p) == [dep EXCEPT !.stable = FALSE]

RolloutPatch(p) ==
    [dep EXCEPT !.stable = FALSE, !.image = p.request.image, !.setting = p.seen.setting]

RepairPatch(p) ==
    IF RepairChanges(p.seen, p.request)
    THEN [dep EXCEPT !.stable = FALSE, !.image = p.request.image, !.setting = p.request.setting,
                     !.claim = p.seen.claim]
    ELSE dep

PolicyPatch(p) ==
    IF p.seen.setting # p.request.setting
    THEN [dep EXCEPT !.stable = FALSE, !.image = p.seen.image, !.setting = p.request.setting]
    ELSE dep

TemplatePatched(p) ==
    CASE p.request.kind = "restart" -> RestartPatch(p)
      [] p.request.kind = "rollout" -> RolloutPatch(p)
      [] p.request.kind = "storage" -> RepairPatch(p)
      [] p.request.kind = "policy"  -> PolicyPatch(p)

Patched(p) == [TemplatePatched(p) EXCEPT !.version = @ + 1, !.last[p.request.kind] = p.request]

\* The task of its server still waits for this patch.
Awaited(p) ==
    LET t == task[p.server] IN t.phase = "sent" /\ t.request = p.request /\ t.seen = p.seen

Accept(p) ==
    /\ Fresh(p)
    /\ dep.version < MaxVersion
    /\ dep' = Patched(p)
    /\ flight' = flight \ {p}
    /\ applied' = [applied EXCEPT ![p.request] = @ + 1]
    /\ task' = IF Awaited(p) THEN [task EXCEPT ![p.server].phase = "accepted"] ELSE task
    /\ UNCHANGED <<owner, told>>

Refuse(p) ==
    /\ ~Fresh(p)
    /\ flight' = flight \ {p}
    /\ task' = IF Awaited(p) THEN [task EXCEPT ![p.server] = Idle] ELSE task
    /\ UNCHANGED <<dep, owner, applied, told>>

\* The Deployment controller finishes the rollout.
Settle ==
    /\ ~dep.stable
    /\ dep.version < MaxVersion
    /\ dep' = [dep EXCEPT !.version = @ + 1, !.stable = TRUE]
    /\ UNCHANGED <<owner, task, flight, applied, told>>

\* An operator, a Helm release or another handler changes the Deployment.  Its
\* claim is followed where it is compared.
Edit ==
    /\ dep.version < MaxVersion
    /\ \E image \in Images, setting \in Settings, open \in BOOLEAN, claim \in Claims :
          /\ claim # dep.claim => dep.name = "aarnn-fpv-workers"
          /\ dep' = [dep EXCEPT
                !.version = @ + 1, !.image = image, !.setting = setting, !.open = open, !.claim = claim,
                !.stable = @ /\ image = dep.image /\ setting = dep.setting /\ claim = dep.claim]
    /\ UNCHANGED <<owner, task, flight, applied, told>>

\* The same of the owner, which has a resource version of its own.
EditOwner ==
    /\ dep.name = "aarnn-fpv-workers"
    /\ owner' \in Owner
    /\ UNCHANGED <<dep, task, flight, applied, told>>

Next ==
    \/ \E s \in Servers : Inspect(s) \/ Send(s) \/ Reply(s) \/ Abandon(s)
    \/ \E s \in Servers, r \in Requests :
          ReadOwner(s, r) \/ Repeat(s, r) \/ AlreadyThere(s, r) \/ Read(s, r)
    \/ \E p \in flight : Accept(p) \/ Refuse(p)
    \/ Settle
    \/ Edit
    \/ EditOwner

Spec == Init /\ [][Next]_vars

-----------------------------------------------------------------------------
(* Properties.                                                             *)

Deployment ==
    [name : Names, version : 0..MaxVersion, open : BOOLEAN, stable : BOOLEAN, image : Images,
     setting : Settings, claim : Claims, last : [Kinds -> Requests \cup {NoRequest}]]

Task ==
    {Idle}
    \cup [phase : {"owned"}, request : Requests, seen : {NoRequest}, claim : Claims]
    \cup [phase : {"read", "inspected", "ready", "sent", "accepted"},
          request : Requests, seen : Deployment, claim : Claims \cup {NoRequest}]

Patches ==
    [server : Servers, request : Requests, seen : Deployment, claim : Claims \cup {NoRequest}]

\* What a task, a patch in flight and the Deployment consist of, with what the
\* handlers rely on throughout: an annotation is of its own operation, and only
\* a restart waits for a preflight.
TypeOK ==
    /\ dep \in Deployment
    /\ owner \in Owner
    /\ \A k \in Kinds : dep.last[k] # NoRequest => dep.last[k].kind = k
    /\ task \in [Servers -> Task]
    /\ \A s \in Servers : task[s].phase \in {"read", "inspected"} => task[s].request.kind = "restart"
    /\ flight \subseteq Patches
    /\ applied \in [Requests -> Nat]
    /\ told \subseteq Requests

Policies == {r \in Requests : r.kind = "policy"}

\* Of the policies that name the same predecessor one takes effect, once: a
\* replay after a newer policy fails instead of restoring the older one, and of
\* two clients that read the same predecessor one fails (docs/RECOVERY.md,
\* OctoBot policy).
PoliciesChain ==
    \A r, q \in Policies :
        applied[r] > 0 /\ applied[q] > 0 /\ r.expected = q.expected =>
            r = q /\ applied[r] = 1

\* A rollout that names one image as the expected and the requested one.
NoChangeAsked(r) == r.kind = "rollout" /\ r.expected = r.image

\* A client that was told of success, at once or on a repeat, asked for a change
\* that was made, and for its own intent, whichever answers were lost before, or
\* asked for no change at all.
SuccessIsTrue == \A r \in told : applied[r] > 0 \/ NoChangeAsked(r)

\* What servers and patches in flight have read of the owner.
Asks == {task[s] : s \in Servers} \cup flight
Consents == {<<a.request, a.claim>> : a \in {b \in Asks : b.claim # NoRequest}}

\* Every request takes effect against the Deployment it was checked on: its
\* opt-in, image, predecessor and finished rollout hold in the very step that
\* changes it, and that step changes nothing of another writer.  The opt-in and
\* the claim of another Deployment, the owner of the FPV workers, held earlier in
\* the request; they may have been withdrawn since.
Atomic == INSTANCE AtomicDeployment WITH
    deployment <- [name |-> dep.name, open |-> dep.open, stable |-> dep.stable, image |-> dep.image,
                   setting |-> dep.setting, claim |-> dep.claim, last |-> dep.last],
    consents <- Consents

ChecksHoldWhenApplied == Atomic!Spec
=============================================================================
