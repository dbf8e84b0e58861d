---------------------- MODULE DeploymentMutationsProofs ----------------------
(***************************************************************************)
(* Proofs about DeploymentMutations, for every set of servers and requests *)
(* and every bound.                                                        *)
(***************************************************************************)
EXTENDS DeploymentMutations, TLAPS

-----------------------------------------------------------------------------
(* Types *)

USE DEF Patches

LEMMA RequestTyped ==
    ASSUME NEW r \in Requests
    PROVE  r.kind \in Kinds /\ r.image \in Images /\ r.setting \in Settings /\ r.id # NoRequest
BY RequestsAssumption DEF Request

\* What a patch makes of a Deployment below the bound.
LEMMA PatchTyped ==
    ASSUME dep \in Deployment, dep.version < MaxVersion,
           NEW p \in Patches
    PROVE  /\ Patched(p) \in Deployment
           /\ Patched(p).version = dep.version + 1
           /\ Patched(p).last = [dep.last EXCEPT ![p.request.kind] = p.request]
<1> DEFINE r == p.request
           t == TemplatePatched(p)
<1>1. r \in Requests /\ p.seen \in Deployment
  OBVIOUS
<1>2. r.kind \in Kinds /\ r.image \in Images /\ r.setting \in Settings
  BY <1>1, RequestTyped
<1>3. t \in Deployment /\ t.version = dep.version /\ t.last = dep.last
  <2>1. RestartPatch(p) \in Deployment /\ RestartPatch(p).version = dep.version
        /\ RestartPatch(p).last = dep.last
    BY DEF RestartPatch, Deployment
  <2>2. RolloutPatch(p) \in Deployment /\ RolloutPatch(p).version = dep.version
        /\ RolloutPatch(p).last = dep.last
    BY <1>1, <1>2 DEF RolloutPatch, Deployment
  <2>3. RepairPatch(p) \in Deployment /\ RepairPatch(p).version = dep.version
        /\ RepairPatch(p).last = dep.last
    <3>1. p.seen.claim \in Claims
      BY <1>1 DEF Deployment
    <3> QED BY <1>2, <3>1 DEF RepairPatch, Deployment
  <2>4. PolicyPatch(p) \in Deployment /\ PolicyPatch(p).version = dep.version
        /\ PolicyPatch(p).last = dep.last
    BY <1>1, <1>2 DEF PolicyPatch, Deployment
  <2>5. t \in {RestartPatch(p), RolloutPatch(p), RepairPatch(p), PolicyPatch(p)}
    BY <1>2 DEF TemplatePatched, Kinds
  <2> QED BY <2>1, <2>2, <2>3, <2>4, <2>5
<1> HIDE DEF t
<1>4. Patched(p) = [t EXCEPT !.version = t.version + 1, !.last = [t.last EXCEPT ![r.kind] = r]]
  BY <1>3 DEF Patched, t, Deployment
<1>5. t.version + 1 \in 0..MaxVersion
  BY <1>3, BoundsAssumption DEF Deployment
<1>6. [t.last EXCEPT ![r.kind] = r] \in [Kinds -> Requests \cup {NoRequest}]
  BY <1>1, <1>2, <1>3 DEF Deployment
<1> QED BY <1>3, <1>4, <1>5, <1>6 DEF Deployment

THEOREM TypeCorrect == Spec => []TypeOK
<1>1. Init => TypeOK
  BY BoundsAssumption DEF Init, TypeOK, Deployment, Owner, Task, Idle
<1>2. TypeOK /\ [Next]_vars => TypeOK'
  <2> SUFFICES ASSUME TypeOK, [Next]_vars PROVE TypeOK'
    OBVIOUS
  <2> USE DEF TypeOK
  <2>1. ASSUME NEW s \in Servers, Inspect(s) PROVE TypeOK'
    BY <2>1 DEF Inspect, Task, Idle
  <2>2. ASSUME NEW s \in Servers, Send(s) PROVE TypeOK'
    BY <2>2 DEF Send, Task, Idle
  <2>3. ASSUME NEW s \in Servers, Reply(s) PROVE TypeOK'
    BY <2>3 DEF Reply, Task, Idle
  <2>4. ASSUME NEW s \in Servers, Abandon(s) PROVE TypeOK'
    BY <2>4 DEF Abandon, Task, Idle
  <2>5. ASSUME NEW s \in Servers, NEW r \in Requests, Repeat(s, r) PROVE TypeOK'
    BY <2>5 DEF Repeat, Task, Idle
  <2>6. ASSUME NEW s \in Servers, NEW r \in Requests, Read(s, r) PROVE TypeOK'
    <3>1. task[s].claim \in Claims \cup {NoRequest}
      BY DEF Task, Idle
    <3>2. task'[s] = [phase |-> IF r.kind = "restart" THEN "read" ELSE "ready", request |-> r,
                      seen |-> dep, claim |-> task[s].claim]
      BY <2>6 DEF Read, Task, Idle
    <3>3. task'[s] \in Task
      BY <3>1, <3>2 DEF Task
    <3> QED BY <2>6, <3>2, <3>3 DEF Read
  <2>7. ASSUME NEW p \in flight, Accept(p) PROVE TypeOK'
    <3>1. p \in Patches
      OBVIOUS
    <3>2. p.request.kind \in Kinds /\ p.server \in Servers /\ p.request \in Requests
      BY <3>1, RequestTyped
    <3>3. /\ dep' \in Deployment
          /\ dep'.last = [dep.last EXCEPT ![p.request.kind] = p.request]
      BY <2>7, <3>1, PatchTyped DEF Accept
    <3>4. \A k \in Kinds : dep'.last[k] # NoRequest => dep'.last[k].kind = k
      BY <3>2, <3>3 DEF Deployment
    <3>5. /\ task' \in [Servers -> Task]
          /\ \A s \in Servers :
                task'[s].phase \in {"read", "inspected"} => task'[s].request.kind = "restart"
      BY <2>7, <3>2 DEF Accept, Awaited, Task, Idle
    <3> QED BY <2>7, <3>2, <3>3, <3>4, <3>5 DEF Accept
  <2>8. ASSUME NEW p \in flight, Refuse(p) PROVE TypeOK'
    BY <2>8 DEF Refuse, Task, Idle
  <2>9. CASE Settle
    <3>1. dep.version + 1 \in 0..MaxVersion
      BY <2>9, BoundsAssumption DEF Settle, Deployment
    <3>2. dep' \in Deployment /\ dep'.last = dep.last
      BY <2>9, <3>1 DEF Settle, Deployment
    <3> QED BY <2>9, <3>2 DEF Settle
  <2>10. CASE Edit
    <3>1. dep.version + 1 \in 0..MaxVersion
      BY <2>10, BoundsAssumption DEF Edit, Deployment
    <3>2. PICK image \in Images, setting \in Settings, open \in BOOLEAN, claim \in Claims :
          /\ claim # dep.claim => dep.name = "aarnn-fpv-workers"
          /\ dep' = [dep EXCEPT
                !.version = @ + 1, !.image = image, !.setting = setting, !.open = open, !.claim = claim,
                !.stable = @ /\ image = dep.image /\ setting = dep.setting /\ claim = dep.claim]
      BY <2>10 DEF Edit
    <3>3. (dep.stable /\ image = dep.image /\ setting = dep.setting /\ claim = dep.claim) \in BOOLEAN
      OBVIOUS
    <3>4. dep' \in Deployment /\ dep'.last = dep.last
      BY <3>1, <3>2, <3>3 DEF Deployment
    <3> QED BY <2>10, <3>4 DEF Edit
  <2>11. CASE UNCHANGED vars
    BY <2>11 DEF vars
  <2>12. ASSUME NEW s \in Servers, NEW r \in Requests, ReadOwner(s, r) PROVE TypeOK'
    BY <2>12 DEF ReadOwner, Task, Owner
  <2>13. ASSUME NEW s \in Servers, NEW r \in Requests, AlreadyThere(s, r) PROVE TypeOK'
    BY <2>13 DEF AlreadyThere
  <2>14. CASE EditOwner
    BY <2>14 DEF EditOwner
  <2> QED BY <2>1, <2>2, <2>3, <2>4, <2>5, <2>6, <2>7, <2>8, <2>9, <2>10, <2>11, <2>12, <2>13, <2>14
          DEF Next
<1> QED BY <1>1, <1>2, PTL DEF Spec

-----------------------------------------------------------------------------
(* What was checked, while the Deployment is still the one that was read.  *)

\* A Deployment that was read is older than the present one, or is it.
Current(d, now) == d.version <= now.version /\ (d.version = now.version => d = now)

Checked(d, r, claim) == Permitted(d, r, claim) /\ ~Repeated(d, r) /\ Expected(d, r)

Passed(d, r, claim) == Checked(d, r, claim) /\ (r.kind = "restart" => Eligible(d))

\* What server s read, once it read the Deployment.
TaskCurrent(t, now) ==
    t.phase \notin {"idle", "owned"} =>
        /\ Current(t.seen, now)
        /\ Checked(t.seen, t.request, t.claim)
        /\ t.phase \in {"inspected", "ready", "sent"} => Passed(t.seen, t.request, t.claim)
        /\ OwnerAsked(t.request) => t.claim # NoRequest

TasksCurrent == \A s \in Servers : TaskCurrent(task[s], dep)

FlightCurrent ==
    \A p \in flight :
        /\ Current(p.seen, dep)
        /\ Passed(p.seen, p.request, p.claim)
        /\ OwnerAsked(p.request) => p.claim # NoRequest

CurrentInv == TasksCurrent /\ FlightCurrent

\* Every write of the Deployment gives it a version it never had.
LEMMA WriteAges ==
    ASSUME TypeOK, CurrentInv, dep'.version = dep.version + 1
    PROVE  /\ \A s \in Servers : TaskCurrent(task[s], dep')
           /\ \A p \in flight : Current(p.seen, dep')
<1>1. dep.version \in Nat /\ \A p \in flight : p.seen.version \in Nat
  BY BoundsAssumption DEF TypeOK, Deployment
<1>2. \A s \in Servers : task[s].phase \notin {"idle", "owned"} => task[s].seen.version \in Nat
  BY BoundsAssumption DEF TypeOK, Deployment, Task, Idle
<1>3. \A s \in Servers :
         task[s].phase \notin {"idle", "owned"} => Current(task[s].seen, dep')
  BY <1>1, <1>2 DEF CurrentInv, TasksCurrent, TaskCurrent, Current
<1> QED BY <1>1, <1>3 DEF CurrentInv, TasksCurrent, TaskCurrent, FlightCurrent, Current

\* A task that goes on, is answered or ends keeps what was checked.
LEMMA TaskGoesOn ==
    ASSUME TypeOK, CurrentInv, NEW s \in Servers, UNCHANGED dep,
           \A t \in Servers \ {s} : task'[t] = task[t],
           TaskCurrent(task'[s], dep)
    PROVE  TasksCurrent'
BY DEF CurrentInv, TasksCurrent

LEMMA CurrentInit == Init => CurrentInv
BY DEF Init, CurrentInv, TasksCurrent, TaskCurrent, FlightCurrent, Idle

LEMMA CurrentStep == TypeOK /\ CurrentInv /\ [Next]_vars => CurrentInv'
<1> SUFFICES ASSUME TypeOK, CurrentInv, [Next]_vars PROVE CurrentInv'
  OBVIOUS
<1>1. ASSUME NEW s \in Servers, Inspect(s) PROVE CurrentInv'
  <2>1. /\ task[s].phase \in {"read", "inspected"} /\ task \in [Servers -> Task]
        /\ TaskCurrent(task[s], dep)
    BY <1>1 DEF Inspect, TypeOK, CurrentInv, TasksCurrent
  <2>2. task[s].seen = dep /\ Eligible(dep)
    BY <1>1, <2>1 DEF Inspect, TaskCurrent, Current
  <2>3. /\ task'[s].seen = task[s].seen /\ task'[s].request = task[s].request
        /\ task'[s].claim = task[s].claim /\ task'[s].phase \in {"inspected", "ready"}
        /\ \A t \in Servers \ {s} : task'[t] = task[t]
    BY <1>1, <2>1 DEF Inspect, Task, Idle
  <2>4. TaskCurrent(task'[s], dep)
    BY <2>1, <2>2, <2>3 DEF TaskCurrent, Passed
  <2>5. TasksCurrent'
    BY <1>1, <2>3, <2>4, TaskGoesOn DEF Inspect
  <2> QED BY <1>1, <2>5 DEF Inspect, CurrentInv, FlightCurrent
<1>2. ASSUME NEW s \in Servers, Send(s) PROVE CurrentInv'
  <2>1. task[s].phase = "ready" /\ task \in [Servers -> Task] /\ TaskCurrent(task[s], dep)
    BY <1>2 DEF Send, TypeOK, CurrentInv, TasksCurrent
  <2>2. /\ task'[s].seen = task[s].seen /\ task'[s].request = task[s].request
        /\ task'[s].claim = task[s].claim /\ task'[s].phase = "sent"
        /\ \A t \in Servers \ {s} : task'[t] = task[t]
    BY <1>2, <2>1 DEF Send, Task, Idle
  <2>3. TaskCurrent(task'[s], dep)
    BY <2>1, <2>2 DEF TaskCurrent
  <2>4. TasksCurrent'
    BY <1>2, <2>2, <2>3, TaskGoesOn DEF Send
  <2>5. FlightCurrent'
    BY <1>2, <2>1 DEF Send, CurrentInv, FlightCurrent, TaskCurrent
  <2> QED BY <2>4, <2>5 DEF CurrentInv
<1>3. ASSUME NEW s \in Servers,
             \/ Reply(s) \/ Abandon(s)
             \/ \E r \in Requests : ReadOwner(s, r) \/ Repeat(s, r)
      PROVE  CurrentInv'
  <2>1. /\ task'[s].phase \in {"idle", "owned"} /\ \A t \in Servers \ {s} : task'[t] = task[t]
        /\ UNCHANGED <<dep, flight>>
    BY <1>3 DEF Reply, Abandon, ReadOwner, Repeat, TypeOK, Idle
  <2>2. TasksCurrent'
    BY <2>1, TaskGoesOn DEF TaskCurrent
  <2> QED BY <2>1, <2>2 DEF CurrentInv, FlightCurrent
<1>4. ASSUME NEW s \in Servers, NEW r \in Requests, AlreadyThere(s, r) PROVE CurrentInv'
  BY <1>4 DEF AlreadyThere, CurrentInv, TasksCurrent, FlightCurrent
<1>5. ASSUME NEW s \in Servers, NEW r \in Requests, Read(s, r) PROVE CurrentInv'
  <2>1. task[s] \in Task
    BY DEF TypeOK
  <2>2. /\ task'[s].seen = dep /\ task'[s].request = r /\ task'[s].claim = task[s].claim
        /\ task'[s].phase = IF r.kind = "restart" THEN "read" ELSE "ready"
        /\ \A t \in Servers \ {s} : task'[t] = task[t]
        /\ UNCHANGED <<dep, flight>>
    BY <1>5, <2>1 DEF Read, TypeOK, Task, Idle
  <2>3. OwnerAsked(r) => task[s].claim # NoRequest
    BY <1>5, <2>1, RequestsAssumption DEF Read, Turn, Task, Idle
  <2>4. Checked(dep, r, task[s].claim) /\ Current(dep, dep)
    BY <1>5, BoundsAssumption DEF Read, Checked, Current, TypeOK, Deployment
  <2>5. TaskCurrent(task'[s], dep)
    BY <2>2, <2>3, <2>4 DEF TaskCurrent, Passed
  <2>6. TasksCurrent'
    BY <2>2, <2>5, TaskGoesOn
  <2> QED BY <2>2, <2>6 DEF CurrentInv, FlightCurrent
<1>6. ASSUME NEW p \in flight, Accept(p) PROVE CurrentInv'
  <2>1. p \in Patches
    BY DEF TypeOK
  <2>2. dep'.version = dep.version + 1
    BY <1>6, <2>1, PatchTyped DEF Accept, TypeOK
  <2>3. \A s \in Servers : TaskCurrent(task'[s], dep')
    <3> SUFFICES ASSUME NEW s \in Servers PROVE TaskCurrent(task'[s], dep')
      OBVIOUS
    <3>1. TaskCurrent(task[s], dep')
      BY <2>2, WriteAges
    <3>2. \/ task'[s] = task[s]
          \/ /\ task[s].phase = "sent" /\ task'[s].phase = "accepted"
             /\ task'[s].seen = task[s].seen /\ task'[s].request = task[s].request
             /\ task'[s].claim = task[s].claim
      BY <1>6, <2>1 DEF Accept, Awaited, TypeOK, Task, Idle
    <3> QED BY <3>1, <3>2 DEF TaskCurrent
  <2>4. TasksCurrent'
    BY <2>3 DEF TasksCurrent
  <2>5. FlightCurrent'
    BY <1>6, <2>2, WriteAges DEF Accept, CurrentInv, FlightCurrent
  <2> QED BY <2>4, <2>5 DEF CurrentInv
<1>7. ASSUME NEW p \in flight, Refuse(p) PROVE CurrentInv'
  <2>1. \A s \in Servers : task'[s] = task[s] \/ task'[s].phase = "idle"
    BY <1>7 DEF Refuse, TypeOK, Idle
  <2>2. TasksCurrent'
    BY <1>7, <2>1 DEF Refuse, CurrentInv, TasksCurrent, TaskCurrent
  <2> QED BY <1>7, <2>2 DEF Refuse, CurrentInv, FlightCurrent
<1>8. CASE Settle \/ Edit
  <2>1. dep'.version = dep.version + 1 /\ UNCHANGED <<task, flight>>
    BY <1>8 DEF Settle, Edit, TypeOK, Deployment
  <2> QED BY <2>1, WriteAges DEF CurrentInv, TasksCurrent, FlightCurrent
<1>9. CASE UNCHANGED vars
  BY <1>9 DEF vars, CurrentInv, TasksCurrent, FlightCurrent
<1>10. CASE EditOwner
  BY <1>10 DEF EditOwner, CurrentInv, TasksCurrent, FlightCurrent
<1> QED BY <1>1, <1>2, <1>3, <1>4, <1>5, <1>6, <1>7, <1>8, <1>9, <1>10 DEF Next

-----------------------------------------------------------------------------
(* Checks hold when a request takes effect.                                *)

\* Kubernetes accepts a patch only while everything that was checked holds.
LEMMA AcceptedPassed ==
    ASSUME TypeOK, CurrentInv, NEW p \in flight, Accept(p)
    PROVE  /\ p.seen = dep /\ Passed(dep, p.request, p.claim)
           /\ OwnerAsked(p.request) => p.claim # NoRequest
BY DEF Accept, Fresh, CurrentInv, FlightCurrent, Current

\* A patch on the Deployment that was read changes what its request names.
LEMMA PatchChanges ==
    ASSUME TypeOK, CurrentInv, NEW p \in flight, Accept(p)
    PROVE  LET r == p.request IN
           /\ dep'.name = dep.name /\ dep'.open = dep.open /\ dep'.claim = dep.claim
           /\ dep'.last = [dep.last EXCEPT ![r.kind] = r]
           /\ dep'.image = IF r.kind \in {"rollout", "storage"} THEN r.image ELSE dep.image
           /\ dep'.setting = IF r.kind \in {"policy", "storage"} THEN r.setting ELSE dep.setting
           /\ dep'.stable => dep.stable
<1> DEFINE r == p.request
           t == TemplatePatched(p)
<1>1. p.seen = dep /\ p \in Patches
  BY AcceptedPassed DEF TypeOK
<1>2. r \in Requests /\ r.kind \in Kinds /\ dep \in Deployment
  BY <1>1, RequestTyped DEF TypeOK
<1>3. /\ t.name = dep.name /\ t.open = dep.open /\ t.claim = dep.claim
      /\ t.image = IF r.kind \in {"rollout", "storage"} THEN r.image ELSE dep.image
      /\ t.setting = IF r.kind \in {"policy", "storage"} THEN r.setting ELSE dep.setting
      /\ t.stable => dep.stable
      /\ DOMAIN t = DOMAIN dep
  <2>1. CASE r.kind = "restart"
    BY <1>1, <1>2, <2>1 DEF TemplatePatched, RestartPatch, Deployment
  <2>2. CASE r.kind = "rollout"
    BY <1>1, <1>2, <2>2 DEF TemplatePatched, RolloutPatch, Deployment
  <2>3. CASE r.kind = "storage"
    BY <1>1, <1>2, <2>3 DEF TemplatePatched, RepairPatch, RepairChanges, Deployment
  <2>4. CASE r.kind = "policy"
    BY <1>1, <1>2, <2>4 DEF TemplatePatched, PolicyPatch, Deployment
  <2> QED BY <1>2, <2>1, <2>2, <2>3, <2>4 DEF Kinds
<1> HIDE DEF t
<1>4. dep' = [t EXCEPT !.version = @ + 1, !.last[r.kind] = r]
  BY DEF Accept, Patched, t
<1>5. dep'.last = [dep.last EXCEPT ![r.kind] = r]
  BY <1>1, <1>2, PatchTyped DEF Accept, TypeOK
<1>6. /\ dep'.name = t.name /\ dep'.open = t.open /\ dep'.claim = t.claim
      /\ dep'.image = t.image /\ dep'.setting = t.setting /\ dep'.stable = t.stable
  BY <1>2, <1>3, <1>4 DEF Deployment
<1> QED BY <1>3, <1>5, <1>6

\* Only a read of the owner adds to what the servers know of it.
LEMMA NoNewConsents ==
    ASSUME \A a \in Asks' : a.claim # NoRequest =>
              \E b \in Asks : b.claim = a.claim /\ b.request = a.request
    PROVE  Consents' \subseteq Consents
BY DEF Consents

\* Every request takes effect against the Deployment it was checked on, and
\* changes nothing of another writer: the handlers implement one step that checks
\* and writes.  What a repair of the FPV workers asks of their owner was granted in
\* an earlier step, for the claim they have in this one.
THEOREM HandlersCheck == Spec => ChecksHoldWhenApplied
<1> DEFINE shown == [name |-> dep.name, open |-> dep.open, stable |-> dep.stable,
                     image |-> dep.image, setting |-> dep.setting, claim |-> dep.claim,
                     last |-> dep.last]
<1>1. Init => Atomic!Init
  <2> SUFFICES ASSUME Init PROVE Atomic!Init
    OBVIOUS
  <2>1. PICK image \in Images, setting \in Settings, claim \in Claims, name \in Names :
           /\ dep = [name |-> name, version |-> 0, open |-> TRUE, stable |-> TRUE, image |-> image,
                     setting |-> setting, claim |-> claim, last |-> [k \in Kinds |-> NoRequest]]
           /\ owner = [open |-> TRUE, claim |-> claim]
    BY DEF Init
  <2>2. shown = [name |-> name, open |-> TRUE, stable |-> TRUE, image |-> image,
                 setting |-> setting, claim |-> claim,
                 last |-> [k \in {"restart", "rollout", "policy", "storage"} |-> NoRequest]]
    BY <2>1 DEF Kinds
  <2>3. applied = [r \in Requests |-> 0]
    BY DEF Init
  <2>4. Consents = {}
    BY DEF Init, Consents, Asks, Idle
  <2> QED BY <2>1, <2>2, <2>3, <2>4 DEF Atomic!Init, Atomic!Repairable, Names, Repairable
<1>2. TypeOK /\ CurrentInv /\ [Next]_vars => [Atomic!Next]_(Atomic!vars)
  <2> SUFFICES ASSUME TypeOK, CurrentInv, [Next]_vars PROVE Atomic!Next \/ UNCHANGED Atomic!vars
    OBVIOUS
  <2>1. ASSUME UNCHANGED applied, dep'.last = dep.last, dep'.name = dep.name,
               Consents' \subseteq Consents
        PROVE  Atomic!Next
    BY <2>1 DEF Atomic!Next, Atomic!Elsewhere
  <2>2. ASSUME NEW p \in flight, Accept(p) PROVE Atomic!Next
    <3> DEFINE r == p.request
    <3>1. p \in Patches /\ r \in Requests /\ r.kind \in Kinds
      BY RequestTyped DEF TypeOK
    <3>2. Passed(dep, r, p.claim) /\ (OwnerAsked(r) => p.claim # NoRequest)
      BY <2>2, AcceptedPassed
    <3>3. OwnerAsked(r) => <<r, dep.claim>> \in Consents
      BY <3>2 DEF Passed, Checked, Permitted, RepairPermitted, OwnerAsked, Consents, Asks
    <3>4. Atomic!Allowed(shown, r)
      BY <3>1, <3>2, <3>3 DEF Atomic!Allowed, Atomic!IdOf, Atomic!Repairable, Repairable, OwnerAsked,
         Passed, Checked, Permitted, Repeated, Expected, Eligible, RolloutPermitted,
         RepairPermitted, PolicyPermitted, RolloutExpected, RepairExpected, PolicyExpected, LastId,
         Kinds
    <3>5. Atomic!After(shown, r, shown')
      BY <2>2, PatchChanges DEF Atomic!After
    <3>6. Consents' \subseteq Consents
      <4>1. \A s \in Servers : task'[s].claim = task[s].claim /\ task'[s].request = task[s].request
        BY <2>2, <3>1 DEF Accept, Awaited, TypeOK, Task, Idle
      <4>2. flight' \subseteq flight
        BY <2>2 DEF Accept
      <4> QED BY <4>1, <4>2, NoNewConsents DEF Asks
    <3>7. applied' = [applied EXCEPT ![r] = @ + 1] /\ UNCHANGED owner
      BY <2>2 DEF Accept
    <3>8. Atomic!Apply(r)
      BY <3>4, <3>5, <3>6, <3>7 DEF Atomic!Apply
    <3> QED BY <3>1, <3>8 DEF Atomic!Next
  <2>3. ASSUME NEW s \in Servers, NEW r \in Requests, ReadOwner(s, r) PROVE Atomic!Next
    <3>1. /\ task' = [task EXCEPT ![s] = [phase |-> "owned", request |-> r, seen |-> NoRequest,
                                           claim |-> owner.claim]]
          /\ task[s] = Idle
      BY <2>3 DEF ReadOwner, TypeOK, Task, Idle
    <3>2. owner.claim # NoRequest
      BY RequestsAssumption DEF TypeOK, Owner
    <3>3. \A t \in Servers : t # s => task'[t] = task[t]
      BY <3>1 DEF TypeOK
    <3>4. task'[s].request = r /\ task'[s].claim = owner.claim
      BY <3>1 DEF TypeOK
    <3>5. Consents' = Consents \cup {<<r, owner.claim>>}
      <4>1. \A a \in Asks' : a = task'[s] \/ a \in Asks
        BY <2>3, <3>3 DEF ReadOwner, Asks
      <4>2. \A a \in Asks : a = Idle \/ a \in Asks'
        BY <2>3, <3>1, <3>3 DEF ReadOwner, Asks
      <4>3. task'[s] \in Asks'
        BY DEF Asks
      <4>4. Idle.claim = NoRequest
        BY DEF Idle
      <4> QED BY <3>2, <3>4, <4>1, <4>2, <4>3, <4>4 DEF Consents
    <3> QED BY <2>3, <3>5 DEF ReadOwner, Atomic!Next, Atomic!Consent
  <2>4. CASE Settle \/ Edit \/ EditOwner \/ UNCHANGED vars
    <3>1. UNCHANGED <<task, flight, applied>> /\ dep'.last = dep.last /\ dep'.name = dep.name
      BY <2>4 DEF Settle, Edit, EditOwner, vars, TypeOK, Deployment
    <3> QED BY <2>1, <3>1, NoNewConsents DEF Asks
  <2>5. ASSUME NEW s \in Servers,
               \/ Inspect(s) \/ Send(s) \/ Reply(s) \/ Abandon(s)
               \/ \E r \in Requests : Repeat(s, r) \/ AlreadyThere(s, r) \/ Read(s, r)
        PROVE  Atomic!Next
    <3>1. UNCHANGED <<dep, applied>>
      BY <2>5 DEF Inspect, Send, Reply, Abandon, Repeat, AlreadyThere, Read
    <3>2. task[s] \in Task /\ \A t \in Servers : t # s => task'[t] = task[t]
      BY <2>5 DEF Inspect, Send, Reply, Abandon, Repeat, AlreadyThere, Read, TypeOK
    <3>3. \/ task'[s].claim = NoRequest
          \/ (task'[s].claim = task[s].claim /\ task'[s].request = task[s].request)
      <4>1. ASSUME NEW r \in Requests, Read(s, r)
            PROVE  task'[s].claim = task[s].claim /\ task'[s].request = r
        BY <4>1, <3>2 DEF Read, TypeOK, Task, Idle
      <4>2. ASSUME NEW r \in Requests, Read(s, r), OwnerAsked(r)
            PROVE  task'[s].claim = task[s].claim /\ task'[s].request = task[s].request
        BY <4>1, <4>2 DEF Read, Turn
      <4>3. ASSUME NEW r \in Requests, Read(s, r), ~OwnerAsked(r) PROVE task'[s].claim = NoRequest
        BY <3>2, <4>1, <4>3 DEF Read, Turn, Task, Idle
      <4>4. CASE ~\E r \in Requests : Read(s, r)
        BY <2>5, <3>2, <4>4 DEF Inspect, Send, Reply, Abandon, Repeat, AlreadyThere, TypeOK, Task,
           Idle
      <4> QED BY <4>2, <4>3, <4>4
    <3>4. \A p \in flight' :
             p \in flight \/ (p.claim = task[s].claim /\ p.request = task[s].request)
      BY <2>5 DEF Inspect, Send, Reply, Abandon, Repeat, AlreadyThere, Read
    <3>5. Consents' \subseteq Consents
      BY <3>2, <3>3, <3>4, NoNewConsents DEF Asks
    <3> QED BY <2>1, <3>1, <3>5
  <2>6. ASSUME NEW p \in flight, Refuse(p) PROVE Atomic!Next
    <3>1. \A t \in Servers : task'[t] = task[t] \/ task'[t].claim = NoRequest
      BY <2>6 DEF Refuse, TypeOK, Idle
    <3>2. flight' \subseteq flight /\ UNCHANGED <<dep, applied>>
      BY <2>6 DEF Refuse
    <3> QED BY <2>1, <3>1, <3>2, NoNewConsents DEF Asks
  <2> QED BY <2>2, <2>3, <2>4, <2>5, <2>6 DEF Next
<1> QED BY <1>1, <1>2, TypeCorrect, CurrentInit, CurrentStep, PTL
        DEF Spec, ChecksHoldWhenApplied, Atomic!Spec

-----------------------------------------------------------------------------
(* Answers                                                                 *)

\* What the annotations name was applied to this Deployment, and what a client was told, or will
\* be told by a task whose patch was accepted, was applied.
TruthInv ==
    /\ \A k \in Kinds : dep.last[k] # NoRequest =>
          applied[dep.last[k]] > 0 /\ dep.last[k].deployment = dep.name
    /\ \A s \in Servers : task[s].phase = "accepted" => applied[task[s].request] > 0
    /\ SuccessIsTrue

LEMMA TruthInit == Init => TruthInv
BY DEF Init, TruthInv, SuccessIsTrue, Idle

\* A repeat with the recorded intent is the request that was recorded.
LEMMA RepeatIsRecorded ==
    ASSUME TypeOK, TruthInv, NEW s \in Servers, NEW r \in Requests, Repeat(s, r)
    PROVE  dep.last[r.kind] = r
<1>1. r.kind \in Kinds /\ r.id # NoRequest
  BY RequestTyped
<1>2. /\ dep.last[r.kind] # NoRequest /\ dep.last[r.kind].id = r.id
      /\ dep.last[r.kind] \in Requests /\ dep.last[r.kind].kind = r.kind
      /\ dep.last[r.kind].deployment = r.deployment
  BY <1>1 DEF Repeat, Permitted, Repeated, LastId, TypeOK, Deployment, TruthInv
<1>3. CASE r.kind = "restart"
  BY <1>2, <1>3, IntentAssumption
<1>4. CASE r.kind = "rollout"
  BY <1>2, <1>4, IntentAssumption DEF Repeat, SameIntent, SameRollout
<1>5. CASE r.kind = "storage"
  BY <1>2, <1>5, IntentAssumption DEF Repeat, SameIntent, SameRepair
<1>6. CASE r.kind = "policy"
  BY <1>2, <1>6, PolicyIdAssumption
<1> QED BY <1>1, <1>3, <1>4, <1>5, <1>6 DEF Kinds

LEMMA TruthStep == TypeOK /\ CurrentInv /\ TruthInv /\ [Next]_vars => TruthInv'
<1> SUFFICES ASSUME TypeOK, CurrentInv, TruthInv, [Next]_vars PROVE TruthInv'
  OBVIOUS
<1>1. ASSUME NEW s \in Servers,
             \/ Inspect(s) \/ Send(s) \/ Abandon(s)
             \/ \E r \in Requests : ReadOwner(s, r) \/ Read(s, r)
      PROVE  TruthInv'
  <2>1. \A t \in Servers : task'[t].phase = "accepted" => task'[t] = task[t]
    BY <1>1 DEF Inspect, Send, Abandon, ReadOwner, Read, TypeOK, Task, Idle
  <2> QED BY <1>1, <2>1 DEF Inspect, Send, Abandon, ReadOwner, Read, TruthInv, SuccessIsTrue
<1>2. ASSUME NEW s \in Servers, Reply(s) PROVE TruthInv'
  <2>1. \A t \in Servers : task'[t].phase = "accepted" => task'[t] = task[t]
    BY <1>2 DEF Reply, TypeOK, Idle
  <2> QED BY <1>2, <2>1 DEF Reply, TruthInv, SuccessIsTrue
<1>3. ASSUME NEW s \in Servers, NEW r \in Requests, Repeat(s, r) PROVE TruthInv'
  <2>1. applied[r] > 0
    BY <1>3, RepeatIsRecorded, RequestTyped, RequestsAssumption DEF TruthInv
  <2>2. \A t \in Servers : task'[t].phase = "accepted" => task'[t] = task[t]
    BY <1>3 DEF Repeat, TypeOK, Idle
  <2> QED BY <1>3, <2>1, <2>2 DEF Repeat, TruthInv, SuccessIsTrue
<1>4. ASSUME NEW s \in Servers, NEW r \in Requests, AlreadyThere(s, r) PROVE TruthInv'
  <2>1. NoChangeAsked(r)
    BY <1>4 DEF AlreadyThere, InPlace, Expected, RolloutExpected, NoChangeAsked
  <2> QED BY <1>4, <2>1 DEF AlreadyThere, TruthInv, SuccessIsTrue
<1>5. ASSUME NEW p \in flight, Accept(p) PROVE TruthInv'
  <2>1. p \in Patches
        /\ p.request.kind \in Kinds
    BY RequestTyped DEF TypeOK
  <2>2. /\ applied'[p.request] > 0
        /\ \A r \in Requests : applied[r] > 0 => applied'[r] > 0
    BY <1>5, <2>1 DEF Accept, TypeOK
  <2>3. \A k \in Kinds : dep'.last[k] # NoRequest =>
           applied'[dep'.last[k]] > 0 /\ dep'.last[k].deployment = dep'.name
    <3>1. /\ dep'.last = [dep.last EXCEPT ![p.request.kind] = p.request]
          /\ dep'.name = dep.name /\ p.request.deployment = dep.name
      BY <1>5, PatchChanges, AcceptedPassed DEF Passed, Checked, Permitted
    <3> QED BY <2>1, <2>2, <3>1 DEF TruthInv, TypeOK, Deployment
  <2>4. \A s \in Servers : task'[s].phase = "accepted" => applied'[task'[s].request] > 0
    <3> SUFFICES ASSUME NEW s \in Servers, task'[s].phase = "accepted"
                 PROVE  applied'[task'[s].request] > 0
      OBVIOUS
    <3>1. CASE task'[s] = task[s]
      <4>1. task[s].request \in Requests
        BY <3>1 DEF TypeOK, Task, Idle
      <4> QED BY <2>2, <3>1, <4>1 DEF TruthInv
    <3>2. CASE task'[s] # task[s]
      BY <1>5, <2>1, <2>2, <3>2 DEF Accept, Awaited, TypeOK, Task, Idle
    <3> QED BY <3>1, <3>2
  <2> QED BY <1>5, <2>2, <2>3, <2>4 DEF Accept, TruthInv, SuccessIsTrue, TypeOK
<1>6. ASSUME NEW p \in flight, Refuse(p) PROVE TruthInv'
  <2>1. \A t \in Servers : task'[t].phase = "accepted" => task'[t] = task[t]
    BY <1>6 DEF Refuse, TypeOK, Idle
  <2> QED BY <1>6, <2>1 DEF Refuse, TruthInv, SuccessIsTrue
<1>7. CASE Settle \/ Edit \/ EditOwner
  <2>1. dep'.last = dep.last /\ dep'.name = dep.name /\ UNCHANGED <<task, applied, told>>
    BY <1>7 DEF Settle, Edit, EditOwner, TypeOK, Deployment
  <2> QED BY <2>1 DEF TruthInv, SuccessIsTrue
<1>8. CASE UNCHANGED vars
  BY <1>8 DEF vars, TruthInv, SuccessIsTrue
<1> QED BY <1>1, <1>2, <1>3, <1>4, <1>5, <1>6, <1>7, <1>8 DEF Next

\* A client that was told of success asked for a change that was made, and for
\* its own intent, or asked for the image that was there.
THEOREM SuccessTold == Spec => []SuccessIsTrue
<1>1. TruthInv => SuccessIsTrue
  BY DEF TruthInv
<1> QED BY <1>1, TypeCorrect, CurrentInit, CurrentStep, TruthInit, TruthStep, PTL DEF Spec

-----------------------------------------------------------------------------
(* Policies                                                                *)

\* Nobody can name the predecessor of an applied policy again: it is not the
\* latest one, and it will not be, because the predecessor was applied itself.
Spent ==
    \A r \in Policies : applied[r] > 0 =>
        /\ r.expected # LastId(dep, "policy")
        /\ r.expected = NoRequest \/ \E q \in Policies : applied[q] > 0 /\ q.id = r.expected

ChainInv == Spent /\ PoliciesChain

LEMMA ChainInit == Init => ChainInv
BY DEF Init, ChainInv, Spent, PoliciesChain, Policies

LEMMA ChainStays ==
    ASSUME ChainInv, UNCHANGED applied, dep'.last = dep.last
    PROVE  ChainInv'
BY DEF ChainInv, Spent, PoliciesChain, LastId

\* A change of another kind leaves the annotations of the policy alone.
LEMMA OtherKindApplied ==
    ASSUME TypeOK, CurrentInv, ChainInv, NEW p \in flight, Accept(p), p.request.kind # "policy"
    PROVE  ChainInv'
<1>1. p.request \in Requests /\ p.request.kind \in Kinds
  BY RequestTyped DEF TypeOK
<1>2. LastId(dep', "policy") = LastId(dep, "policy")
  BY <1>1, PatchChanges DEF LastId, TypeOK, Deployment, Kinds
<1>3. \A r \in Policies : applied'[r] = applied[r]
  BY <1>1 DEF Accept, Policies, TypeOK
<1> QED BY <1>2, <1>3 DEF ChainInv, Spent, PoliciesChain, Policies

LEMMA PolicyApplied ==
    ASSUME TypeOK, CurrentInv, TruthInv, ChainInv,
           NEW p \in flight, Accept(p), p.request.kind = "policy"
    PROVE  ChainInv'
<1> DEFINE r == p.request
           before == LastId(dep, "policy")
<1>1. r \in Policies /\ r.id # NoRequest
  BY RequestTyped DEF TypeOK, Policies
<1>2. before = r.expected /\ before # r.id
  BY AcceptedPassed DEF Passed, Checked, Expected, PolicyExpected, Repeated
<1>3. LastId(dep', "policy") = r.id
  <2>1. dep'.last["policy"] = r
    BY <1>1, PatchChanges DEF TypeOK, Deployment, Kinds
  <2> QED BY <1>1, <2>1, RequestsAssumption DEF LastId, Policies
<1>4. /\ applied'[r] = applied[r] + 1
      /\ \A q \in Policies : q # r => applied'[q] = applied[q]
      /\ \A q \in Policies : applied[q] \in Nat
  BY <1>1 DEF Accept, Policies, TypeOK
<1>5. \A q \in Policies : applied[q] > 0 => q.expected # r.expected
  BY <1>2 DEF ChainInv, Spent
<1>6. applied[r] = 0
  BY <1>1, <1>4, <1>5
<1>7. \A q \in Policies : applied[q] > 0 => q.expected # r.id
  <2> SUFFICES ASSUME NEW q \in Policies, applied[q] > 0, q.expected = r.id PROVE FALSE
    OBVIOUS
  <2>1. PICK o \in Policies : applied[o] > 0 /\ o.id = r.id
    BY <1>1 DEF ChainInv, Spent
  <2>2. o = r
    BY <1>1, <2>1, PolicyIdAssumption DEF Policies
  <2> QED BY <1>6, <2>1, <2>2
<1>8. before = NoRequest \/ \E q \in Policies : applied[q] > 0 /\ q.id = before
  <2>1. CASE dep.last["policy"] = NoRequest
    BY <2>1 DEF LastId
  <2>2. CASE dep.last["policy"] # NoRequest
    <3>1. dep.last["policy"] \in Policies /\ applied[dep.last["policy"]] > 0
      BY <2>2 DEF TypeOK, TruthInv, Deployment, Kinds, Policies
    <3> QED BY <2>2, <3>1 DEF LastId
  <2> QED BY <2>1, <2>2
<1>9. Spent'
  <2> SUFFICES ASSUME NEW q \in Policies, applied'[q] > 0
               PROVE  /\ q.expected # LastId(dep', "policy")
                      /\ \/ q.expected = NoRequest
                         \/ \E o \in Policies : applied'[o] > 0 /\ o.id = q.expected
    BY DEF Spent, Policies
  <2>1. CASE q = r
    BY <1>1, <1>2, <1>3, <1>4, <1>8, <2>1
  <2>2. CASE q # r
    BY <1>1, <1>3, <1>4, <1>7, <2>2 DEF ChainInv, Spent
  <2> QED BY <2>1, <2>2
<1>10. PoliciesChain'
  BY <1>1, <1>4, <1>5, <1>6 DEF ChainInv, PoliciesChain, Policies
<1> QED BY <1>9, <1>10 DEF ChainInv

LEMMA ChainStep ==
    TypeOK /\ CurrentInv /\ TruthInv /\ ChainInv /\ [Next]_vars => ChainInv'
<1> SUFFICES ASSUME TypeOK, CurrentInv, TruthInv, ChainInv, [Next]_vars PROVE ChainInv'
  OBVIOUS
<1>1. ASSUME NEW p \in flight, Accept(p) PROVE ChainInv'
  BY <1>1, OtherKindApplied, PolicyApplied
<1>2. ASSUME NEW s \in Servers, Inspect(s) \/ Send(s) \/ Reply(s) \/ Abandon(s) PROVE ChainInv'
  BY <1>2, ChainStays DEF Inspect, Send, Reply, Abandon
<1>3. ASSUME NEW s \in Servers, NEW r \in Requests,
             ReadOwner(s, r) \/ Repeat(s, r) \/ AlreadyThere(s, r) \/ Read(s, r)
      PROVE  ChainInv'
  BY <1>3, ChainStays DEF ReadOwner, Repeat, AlreadyThere, Read
<1>4. ASSUME NEW p \in flight, Refuse(p) PROVE ChainInv'
  BY <1>4, ChainStays DEF Refuse
<1>5. CASE Settle \/ Edit \/ EditOwner
  BY <1>5, ChainStays DEF Settle, Edit, EditOwner, TypeOK, Deployment
<1>6. CASE UNCHANGED vars
  BY <1>6, ChainStays DEF vars
<1> QED BY <1>1, <1>2, <1>3, <1>4, <1>5, <1>6 DEF Next

\* Of the policies that name one predecessor one takes effect, once.
THEOREM PolicyChain == Spec => []PoliciesChain
<1>1. ChainInv => PoliciesChain
  BY DEF ChainInv
<1> QED BY <1>1, TypeCorrect, CurrentInit, CurrentStep, TruthInit, TruthStep, ChainInit, ChainStep,
        PTL DEF Spec
=============================================================================
