-------------------------- MODULE AtomicDeployment --------------------------
(***************************************************************************)
(* What the typed Deployment operations promise: a request is checked and  *)
(* applied in one step, against the Deployment as it is in that step,      *)
(* whoever else writes to it (docs/RECOVERY.md: the resource version is a  *)
(* conditional write; docs/SECURITY.md: compare-and-swap preconditions).   *)
(*                                                                         *)
(* The storage of the FPV workers is owned by another Deployment.  What is *)
(* asked of the owner is asked in an earlier step: its consent, to one     *)
(* request and for the claim it used then.                                 *)
(***************************************************************************)
EXTENDS Naturals

CONSTANTS Requests, Images, Settings, Claims, NoRequest

VARIABLES
    deployment,   \* opt-in, rollout state, image, setting, claim and last requests
    owner,        \* opt-in and claim of the owner
    consents,     \* requests the owner consented to, each with the claim of then
    applied       \* applied[r]: how often request r took effect

vars == <<deployment, owner, consents, applied>>

Repairable == {"aarnn-web-ui", "aarnn-fpv-workers"}

IdOf(last) == IF last = NoRequest THEN NoRequest ELSE last.id

\* The request may take effect on this Deployment: it opts in itself, or, where
\* the storage of the workers is repaired, its owner did and has the same claim.
Allowed(d, r) ==
    /\ d.name = r.deployment
    /\ IF r.kind = "storage" /\ d.name = "aarnn-fpv-workers"
       THEN <<r, d.claim>> \in consents
       ELSE d.open
    /\ IdOf(d.last[r.kind]) # r.id
    /\ r.kind = "restart" => d.stable
    /\ r.kind \in {"rollout", "storage"} => d.image = r.expected
    /\ r.kind = "storage" => d.name \in Repairable
    /\ r.kind = "policy" => d.name = "octobot" /\ IdOf(d.last["policy"]) = r.expected

\* The Deployment after it took effect: nothing is changed but what it names.
After(d, r, e) ==
    /\ e.name = d.name /\ e.open = d.open /\ e.claim = d.claim
    /\ e.last = [d.last EXCEPT ![r.kind] = r]
    /\ e.image = IF r.kind \in {"rollout", "storage"} THEN r.image ELSE d.image
    /\ e.setting = IF r.kind \in {"policy", "storage"} THEN r.setting ELSE d.setting
    /\ e.stable => d.stable

Init ==
    /\ deployment \in
          [name : Repairable \cup {"octobot"}, open : BOOLEAN, stable : BOOLEAN, image : Images,
           setting : Settings, claim : Claims,
           last : {[k \in {"restart", "rollout", "policy", "storage"} |-> NoRequest]}]
    /\ owner \in [open : BOOLEAN, claim : Claims]
    /\ consents = {}
    /\ applied = [r \in Requests |-> 0]

Consent(r) ==
    /\ owner.open
    /\ consents' = consents \cup {<<r, owner.claim>>}
    /\ UNCHANGED <<deployment, owner, applied>>

Apply(r) ==
    /\ Allowed(deployment, r)
    /\ After(deployment, r, deployment')
    /\ applied' = [applied EXCEPT ![r] = @ + 1]
    /\ consents' \subseteq consents
    /\ UNCHANGED owner

\* Others change the Deployment or its owner, but not the requests recorded on
\* it; a request ends, and with it what it was granted.
Elsewhere ==
    /\ deployment'.last = deployment.last
    /\ deployment'.name = deployment.name
    /\ consents' \subseteq consents
    /\ UNCHANGED applied

Next == Elsewhere \/ \E r \in Requests : Consent(r) \/ Apply(r)

Spec == Init /\ [][Next]_vars
=============================================================================
