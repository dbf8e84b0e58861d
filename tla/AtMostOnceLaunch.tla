-------------------------- MODULE AtMostOnceLaunch --------------------------
(***************************************************************************)
(* What the provider job manager promises about provider commands, with no *)
(* queue, worker, file or crash: a ticket is issued for every job, a       *)
(* command is launched once for a ticket at most, never for one that was   *)
(* disclaimed, and never for two tickets of one key within Retention.      *)
(***************************************************************************)
EXTENDS Naturals

CONSTANTS JobIds, Keys, NoKey, Fingerprints, Retention, NoTicket

VARIABLES ticket, launches, disclaimed

vars == <<ticket, launches, disclaimed>>

Init ==
    /\ ticket = [j \in JobIds |-> NoTicket]
    /\ launches = [j \in JobIds |-> 0]
    /\ disclaimed = {}

Ticket == [key : Keys \cup {NoKey}, fingerprint : Fingerprints, created : Nat, admitted : Nat]

\* Some ticket is issued for j, and may be disclaimed at once.
Issue(j) ==
    /\ ticket[j] = NoTicket
    /\ ticket'[j] \in Ticket
    /\ ticket' = [ticket EXCEPT ![j] = ticket'[j]]
    /\ disclaimed' \in {disclaimed, disclaimed \cup {j}}
    /\ UNCHANGED launches

\* Clients are told that no command was launched for these jobs.
Disclaim(J) ==
    /\ \A j \in J : launches[j] = 0
    /\ disclaimed' = disclaimed \cup J
    /\ UNCHANGED <<ticket, launches>>

\* One of the tickets was issued when the other's key had been forgotten.
Apart(t, u) ==
    \/ t.created + Retention <= u.admitted
    \/ u.created + Retention <= t.admitted

Launch(j) ==
    /\ ticket[j] # NoTicket
    /\ launches[j] = 0
    /\ j \notin disclaimed
    /\ \A i \in JobIds :
          (i # j /\ launches[i] > 0 /\ ticket[i].key = ticket[j].key /\ ticket[j].key # NoKey)
          => Apart(ticket[i], ticket[j])
    /\ launches' = [launches EXCEPT ![j] = 1]
    /\ UNCHANGED <<ticket, disclaimed>>

Next ==
    \/ \E j \in JobIds : Issue(j)
    \/ \E J \in SUBSET JobIds : Disclaim(J)
    \/ \E j \in JobIds : Launch(j)

Spec == Init /\ [][Next]_vars
=============================================================================
