---------------------------- MODULE TraceyAgents ----------------------------
(***************************************************************************)
(* Core/APIRoutes_TraceyRuntime: the registry of Tracey agents.  One       *)
(* thread reads their announcements from a UDP socket, marks silent agents *)
(* stale and polls the status address of each; heartbeats and provisioning *)
(* requests of other threads change the same records while a poll waits    *)
(* for the network without the lock.                                       *)
(***************************************************************************)
EXTENDS Naturals, FiniteSets

CONSTANTS
    Agents,        \* agents
    Announcing,    \* those that announce themselves; others are heard of otherwise
    Beating,       \* those that send heartbeats
    Mistaken,      \* those that others may name a wrong address for
    Addresses,     \* status addresses they may be reached at
    Nowhere,       \* no address; no agent
    Statuses,      \* what a running agent may report of itself
    StaleAfter,    \* full periods of silence that make an agent stale
    OfflineAfter,  \* failed polls in a row that make an agent offline (3)
    Start,         \* where agents answer at first
    MaxMessages,   \* bound on announcements on their way
    MaxMoves,      \* bound on starts, moves and stops of agents
    MaxOutdated    \* bound on addresses named by others that are wrong

ASSUME TraceyAssumption ==
    /\ Announcing \cup Beating \cup Mistaken \subseteq Agents
    /\ Nowhere \notin Agents \cup Addresses
    /\ Statuses \subseteq {"healthy", "degraded", "offline"}
    /\ Start \in [Agents -> Addresses \cup {Nowhere}]
    /\ \A bound \in {OfflineAfter, MaxMessages} : bound \in Nat \ {0}
    /\ \A bound \in {StaleAfter, MaxMoves, MaxOutdated} : bound \in Nat

VARIABLES
    record,     \* traceyAgents, with ages in place of the times they hold
    poll,       \* what the discovery thread does
    home,       \* where each agent answers
    messages,   \* announcements on their way
    moves,      \* starts, moves and stops so far
    outdated    \* wrong addresses named by others so far

vars == <<record, poll, home, messages, moves, outdated>>

\* Ages count periods up to the first one that is too old.
Never == StaleAfter + 2

Older(age) == IF age > StaleAfter THEN age ELSE age + 1

Fresher(age, other) == IF age < other THEN age ELSE other

\* Status "none" is a record that does not exist.
NoRecord ==
    [status |-> "none", addr |-> Nowhere, heard |-> Never, failures |-> 0,
     snapshot |-> Nowhere]

NoCall == [phase |-> "none"]

Listening == [phase |-> "listening"]

Init ==
    /\ record = [a \in Agents |-> NoRecord]
    /\ poll = Listening
    /\ home = Start
    /\ messages = {}
    /\ moves = 0
    /\ outdated = 0

-----------------------------------------------------------------------------
(* What a record says.                                                     *)

Stale(r) == r.heard = StaleAfter + 1

\* handleListTraceyAgents: the status it lists, after it marked stale agents.
Listed(r) == IF Stale(r) THEN "offline" ELSE r.status

-----------------------------------------------------------------------------
(* Changes of one record.                                                  *)

Named(r) == IF r.status = "none" THEN [r EXCEPT !.status = "unknown"] ELSE r

\* Fault: the first address an agent names is kept.
AtFirst(r, addr) == IF r.addr = Nowhere THEN [r EXCEPT !.addr = addr] ELSE r

At(r, addr) == IF addr = Nowhere THEN r ELSE [r EXCEPT !.addr = addr]

\* ingestTraceyDiscoveryAnnouncement.
Announced(r, addr) == At([Named(r) EXCEPT !.heard = 0], addr)

\* handleTraceyHeartbeat; metrics replace the ones of the last poll.
Beaten(r, addr, status, metrics) ==
    At([r EXCEPT !.status = IF status # "none" THEN status
                            ELSE IF @ = "none" THEN "healthy" ELSE @,
                 !.heard = 0,
                 !.snapshot = IF metrics THEN Nowhere ELSE @], addr)

\* upsertTraceyRequirementLocked.
Required(r, addr) == At(Named(r), addr)

\* markTraceyStaleAgents.
Marked(r) == IF Stale(r) THEN [r EXCEPT !.status = "offline"] ELSE r

\* Fault: a failed poll counts as a sign of life.
FailedAsSign(r, addr, discard) ==
    [r EXCEPT !.addr = addr, !.status = "degraded", !.heard = 0,
              !.snapshot = IF discard THEN Nowhere ELSE @]

\* markFailure: the address that was polled is written back.
Failed(r, addr, discard) ==
    LET failures == IF r.failures < OfflineAfter THEN r.failures + 1 ELSE r.failures
    IN  [r EXCEPT !.addr = addr, !.failures = failures,
                  !.status = IF failures = OfflineAfter THEN "offline" ELSE "degraded",
                  !.snapshot = IF discard THEN Nowhere ELSE @]

\* Fault: an agent that is offline stays so until a heartbeat.
SucceededUnlessOffline(r, addr, age, status, from) ==
    [r EXCEPT !.status = IF @ = "offline" THEN @ ELSE status,
              !.failures = 0, !.heard = Fresher(age, @), !.addr = addr, !.snapshot = from]

\* pollTraceyStatus after an answer of the agent that was asked; the time is
\* that of the beginning of the round.
Succeeded(r, addr, age, status, from) ==
    [r EXCEPT !.status = status, !.failures = 0,
              !.heard = Fresher(age, @), !.addr = addr, !.snapshot = from]

\* pollTraceyStatus: another agent's address in the answer.
Hinted(r, addr, age) ==
    [Named(r) EXCEPT !.addr = addr, !.heard = Fresher(age, @)]

-----------------------------------------------------------------------------
(* The agents and what they send.                                          *)

Running(a) == home[a] # Nowhere

\* An agent starts, moves to a free address or stops.
Move(a, to) ==
    /\ moves < MaxMoves
    /\ to # home[a]
    /\ to # Nowhere => \A b \in Agents : home[b] # to
    /\ home' = [home EXCEPT ![a] = to]
    /\ moves' = moves + 1
    /\ UNCHANGED <<record, poll, messages, outdated>>

Send(a) ==
    /\ Running(a)
    /\ Cardinality(messages) < MaxMessages
    /\ messages' = messages \cup {[agent |-> a, addr |-> home[a]]}
    /\ UNCHANGED <<record, poll, home, moves, outdated>>

\* Someone names an address for an agent: the right one, or one of the past.
Names(a, addr) ==
    IF addr \in {home[a], Nowhere}
      THEN UNCHANGED outdated
      ELSE a \in Mistaken /\ outdated < MaxOutdated /\ outdated' = outdated + 1

-----------------------------------------------------------------------------
(* Threads of the HTTP server, each under dataMutex.                       *)

Heartbeat(a, addr, status, metrics) ==
    /\ Running(a)
    /\ record' = [record EXCEPT ![a] = Beaten(@, addr, status, metrics)]
    /\ UNCHANGED <<poll, home, messages, moves, outdated>>

\* A managed resource is created and names its agent.
Require(a, addr) ==
    /\ Names(a, addr)
    /\ record' = [record EXCEPT ![a] = Required(@, addr)]
    /\ UNCHANGED <<poll, home, messages, moves>>

MarkStale == [a \in Agents |-> Marked(record[a])]

\* A list or a fleet view is asked for.
List ==
    /\ record' = MarkStale
    /\ UNCHANGED <<poll, home, messages, moves, outdated>>

-----------------------------------------------------------------------------
(* runTraceyDiscoveryLoop.                                                 *)

\* A datagram was lost, or it is too old or unsigned and dropped.
Lose(m) ==
    /\ poll.phase = "listening"
    /\ messages' = messages \ {m}
    /\ UNCHANGED <<record, poll, home, moves, outdated>>

\* One datagram is read in a round of the loop.
Announce(m) ==
    /\ poll.phase = "listening"
    /\ record' = [record EXCEPT ![m.agent] = Announced(@, m.addr)]
    /\ messages' = messages \ {m}
    /\ UNCHANGED <<poll, home, moves, outdated>>

\* Maintenance, once a second: the polls that are due are copied with their
\* addresses and made one after the other.  Which are due is left open.
Maintain(due) ==
    /\ poll.phase = "listening"
    /\ \A a \in due : record[a].addr # Nowhere
    /\ record' = MarkStale
    /\ poll' = [phase |-> "polling", age |-> 0, call |-> NoCall,
                pending |-> {[agent |-> a, addr |-> record[a].addr] : a \in due}]
    /\ UNCHANGED <<home, messages, moves, outdated>>

Polling(phase) == poll.phase = "polling" /\ poll.call.phase = phase

\* A status request is on its way; dataMutex is free.
Ask(p) ==
    /\ Polling("none")
    /\ p \in poll.pending
    /\ poll' = [poll EXCEPT !.pending = @ \ {p},
                            !.call = [phase |-> "asked", agent |-> p.agent, addr |-> p.addr]]
    /\ UNCHANGED <<record, home, messages, moves, outdated>>

\* The agent at the address answers, with its status or a posture that stands
\* for one: an incident is "offline".
Answer(b, status) ==
    /\ Polling("asked")
    /\ home[b] = poll.call.addr
    /\ poll' = [poll EXCEPT !.call = [phase |-> "answered", agent |-> @.agent,
                                     addr |-> @.addr, from |-> b, status |-> status]]
    /\ UNCHANGED <<record, home, messages, moves, outdated>>

Polled(new) ==
    /\ record' = new
    /\ poll' = [poll EXCEPT !.call = NoCall]
    /\ UNCHANGED <<home, messages, moves>>

\* No answer, or none that can be read.
Unanswered ==
    /\ Polling("asked")
    /\ LET call == poll.call IN
       Polled([record EXCEPT ![call.agent] = Failed(@, call.addr, FALSE)])
    /\ UNCHANGED outdated

\* Fault: every answer is taken for the agent's that was asked.
AnyIdentity(call) == call.from \in Agents

Identified(call) == call.from = call.agent

\* Another agent answered.
Misidentified ==
    /\ Polling("answered")
    /\ ~Identified(poll.call)
    /\ LET call == poll.call IN
       Polled([record EXCEPT ![call.agent] = Failed(@, call.addr, TRUE)])
    /\ UNCHANGED outdated

Stored ==
    LET call == poll.call IN
    [record EXCEPT ![call.agent] = Succeeded(@, call.addr, poll.age, call.status, call.from)]

Accept ==
    /\ Polling("answered")
    /\ Identified(poll.call)
    /\ Polled(Stored)
    /\ UNCHANGED outdated

\* It also tells where a peer is.
AcceptWithPeer(peer, addr) ==
    /\ Polling("answered")
    /\ Identified(poll.call)
    /\ peer # poll.call.agent
    /\ Names(peer, addr)
    /\ Polled([Stored EXCEPT ![peer] = Hinted(@, addr, poll.age)])

\* All polls of a round are made.
Listen ==
    /\ Polling("none")
    /\ poll.pending = {}
    /\ poll' = Listening
    /\ UNCHANGED <<record, home, messages, moves, outdated>>

-----------------------------------------------------------------------------
\* A period passes.
Tick ==
    /\ record' = [a \in Agents |-> [record[a] EXCEPT !.heard = Older(@)]]
    /\ poll' = IF poll.phase = "polling" THEN [poll EXCEPT !.age = Older(@)] ELSE poll
    /\ UNCHANGED <<home, messages, moves, outdated>>

Polls ==
    \/ \E p \in poll.pending : Ask(p)
    \/ \E b \in Agents, status \in Statuses : Answer(b, status)
    \/ Unanswered
    \/ Misidentified
    \/ Accept
    \/ \E peer \in Agents, addr \in Addresses : AcceptWithPeer(peer, addr)
    \/ Listen

Next ==
    \/ \E a \in Agents, to \in Addresses \cup {Nowhere} : Move(a, to)
    \/ \E a \in Announcing : Send(a)
    \/ \E m \in messages : Lose(m) \/ Announce(m)
    \/ \E a \in Beating, status \in Statuses \cup {"none"}, metrics \in BOOLEAN :
         \E addr \in {home[a], Nowhere} : Heartbeat(a, addr, status, metrics)
    \/ \E a \in Agents, addr \in Addresses \cup {Nowhere} : Require(a, addr)
    \/ List
    \/ \E due \in SUBSET Agents : Maintain(due)
    \/ poll.phase = "polling" /\ Polls
    \/ Tick

Spec == Init /\ [][Next]_vars

\* The discovery thread runs and time passes; running agents announce
\* themselves, their datagrams arrive again and again, an agent whose poll is
\* due is polled and the agent at a polled address answers again and again.
FairSpec ==
    /\ Spec
    /\ SF_vars(Tick)
    /\ WF_vars(poll.phase = "polling" /\ Polls)
    /\ \A a \in Announcing :
         /\ WF_vars(Send(a))
         /\ SF_vars(\E m \in messages : m.agent = a /\ m.addr = home[a] /\ Announce(m))
         /\ SF_vars(\E m \in messages : Lose(m) \/ Announce(m))
         /\ SF_vars(\E due \in SUBSET Agents : a \in due /\ Maintain(due))
         /\ SF_vars(Polling("asked") /\ poll.call.agent = a /\ \E status \in Statuses : Answer(a, status))

-----------------------------------------------------------------------------
\* Every record is one of the registry's, and a call is one of its phases.
TypeOK ==
    /\ record \in [Agents -> [status : {"none", "unknown", "healthy", "degraded", "offline"},
                              addr : Addresses \cup {Nowhere}, heard : 0 .. Never,
                              failures : 0 .. OfflineAfter, snapshot : Agents \cup {Nowhere}]]
    /\ poll.phase \in {"listening", "polling"}
    /\ poll.phase = "polling" =>
         /\ poll.age \in 0 .. StaleAfter + 1
         /\ poll.call.phase \in {"none", "asked", "answered"}
         /\ poll.pending \subseteq [agent : Agents, addr : Addresses]
    /\ home \in [Agents -> Addresses \cup {Nowhere}]
    /\ messages \subseteq [agent : Agents, addr : Addresses]

\* A snapshot kept for an agent is one the agent itself answered with, although
\* agents take over each other's addresses during a poll.
SnapshotIsOwn == \A a \in Agents : record[a].snapshot \in {a, Nowhere}

\* An agent that stays at one address is in the end polled there: neither a
\* late poll, nor an old datagram, nor a peer's word brings an old address back.
AddressSettles ==
    \A a \in Announcing, x \in Addresses :
      <>[](home[a] = x) => <>[](record[a].addr = x)

\* A round of polls is within the stale window: its answers are dated by its
\* beginning, and nothing in the code bounds how long it takes.
Timely == poll.phase = "polling" => poll.age <= StaleAfter

\* An agent does not answer that it is "offline".
InService(a) ==
    Polling("answered") /\ poll.call.from = a => poll.call.status # "offline"

\* An agent that runs and calls itself healthy or degraded is listed so again and
\* again, whatever it was marked before, unless rounds of polls outlast the stale
\* window again and again: then even an agent that answers every poll may be
\* listed as "offline" for ever.
ReturnsToService ==
    \A a \in Announcing :
      <>[](Running(a) /\ InService(a) /\ Timely)
        => []<>(Listed(record[a]) \in {"healthy", "degraded"})

\* An agent that has stopped, or never ran, is in the end listed as offline, if
\* it was ever heard of.
DeadIsDisclosed ==
    \A a \in Announcing :
      <>[]~Running(a) =>
        <>[](record[a].heard # Never => Listed(record[a]) = "offline")
=============================================================================
