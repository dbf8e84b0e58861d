-------------------------- MODULE TraceyAgentsProofs --------------------------
(***************************************************************************)
(* Proofs about TraceyAgents, for every set of agents and addresses and    *)
(* every bound.                                                            *)
(***************************************************************************)
EXTENDS TraceyAgents, TLAPS

-----------------------------------------------------------------------------
(* Types *)

AgentRecord ==
    [status : {"none", "unknown", "healthy", "degraded", "offline"},
     addr : Addresses \cup {Nowhere}, heard : 0 .. Never,
     failures : 0 .. OfflineAfter, snapshot : Agents \cup {Nowhere}]

Call ==
    {NoCall} \cup [phase : {"asked"}, agent : Agents, addr : Addresses]
             \cup [phase : {"answered"}, agent : Agents, addr : Addresses, from : Agents,
                   status : Statuses]

Poll ==
    {Listening} \cup [phase : {"polling"}, age : 0 .. StaleAfter + 1, call : Call,
                      pending : SUBSET [agent : Agents, addr : Addresses]]

\* What TypeOK leaves out: what a call consists of, and where agents answer.
Typed ==
    /\ record \in [Agents -> AgentRecord]
    /\ poll \in Poll
    /\ home \in [Agents -> Addresses \cup {Nowhere}]
    /\ messages \subseteq [agent : Agents, addr : Addresses]

LEMMA TypedIsTypeOK == Typed => TypeOK
BY DEF Typed, TypeOK, AgentRecord, Poll, Call, Listening, NoCall

LEMMA AddressChanges ==
    ASSUME NEW r \in AgentRecord, NEW addr \in Addresses \cup {Nowhere}
    PROVE  At(r, addr) \in AgentRecord /\ At(r, addr).snapshot = r.snapshot
BY DEF At, AgentRecord

LEMMA Bounds ==
    /\ StaleAfter \in Nat /\ OfflineAfter \in Nat
    /\ Statuses \subseteq {"healthy", "degraded", "offline"}
    /\ 0 \in 0 .. StaleAfter + 1 /\ 0 \in 0 .. Never /\ 0 \in 0 .. OfflineAfter
BY TraceyAssumption DEF Never

LEMMA MarkChanges ==
    ASSUME NEW r \in AgentRecord
    PROVE  Marked(r) \in AgentRecord /\ Marked(r).snapshot = r.snapshot
<1>1. [r EXCEPT !.status = "offline"] \in AgentRecord
  BY DEF AgentRecord
<1>2. [r EXCEPT !.status = "offline"].snapshot = r.snapshot
  BY DEF AgentRecord
<1> QED BY <1>1, <1>2 DEF Marked

LEMMA NameChanges ==
    ASSUME NEW r \in AgentRecord
    PROVE  Named(r) \in AgentRecord /\ Named(r).snapshot = r.snapshot /\ Named(r).heard = r.heard
BY DEF Named, AgentRecord

LEMMA AgeChanges ==
    ASSUME NEW r \in AgentRecord
    PROVE  /\ [r EXCEPT !.heard = Older(r.heard)] \in AgentRecord
           /\ [r EXCEPT !.heard = Older(r.heard)].snapshot = r.snapshot
<1>1. Older(r.heard) \in 0 .. Never
  BY Bounds DEF AgentRecord, Never, Older
<1> QED BY <1>1 DEF AgentRecord

LEMMA AnnouncementChanges ==
    ASSUME NEW r \in AgentRecord, NEW addr \in Addresses
    PROVE  Announced(r, addr) \in AgentRecord /\ Announced(r, addr).snapshot = r.snapshot
<1> DEFINE n == Named(r)
           m == [n EXCEPT !.heard = 0]
<1>1. n \in AgentRecord /\ n.snapshot = r.snapshot
  BY NameChanges
<1> HIDE DEF n
<1>2. m \in AgentRecord /\ m.snapshot = n.snapshot
  BY Bounds, <1>1 DEF AgentRecord
<1>3. Announced(r, addr) = At(m, addr)
  BY DEF Announced, n
<1> HIDE DEF m
<1> QED BY <1>1, <1>2, <1>3, AddressChanges

LEMMA RequirementChanges ==
    ASSUME NEW r \in AgentRecord, NEW addr \in Addresses \cup {Nowhere}
    PROVE  Required(r, addr) \in AgentRecord /\ Required(r, addr).snapshot = r.snapshot
BY NameChanges, AddressChanges DEF Required

LEMMA FresherBounded ==
    ASSUME NEW r \in AgentRecord, NEW age \in 0 .. StaleAfter + 1
    PROVE  Fresher(age, r.heard) \in 0 .. Never
BY Bounds DEF AgentRecord, Fresher, Never

LEMMA HintChanges ==
    ASSUME NEW r \in AgentRecord, NEW addr \in Addresses, NEW age \in 0 .. StaleAfter + 1
    PROVE  Hinted(r, addr, age) \in AgentRecord /\ Hinted(r, addr, age).snapshot = r.snapshot
<1> DEFINE n == Named(r)
           h == Fresher(age, n.heard)
<1>1. n \in AgentRecord /\ n.snapshot = r.snapshot
  BY NameChanges
<1>2. h \in 0 .. Never
  BY <1>1, FresherBounded
<1>3. Hinted(r, addr, age) = [n EXCEPT !.addr = addr, !.heard = h]
  BY DEF Hinted
<1> HIDE DEF n, h
<1> QED BY <1>1, <1>2, <1>3 DEF AgentRecord

\* A heartbeat and a failed poll keep the snapshot or drop it.
LEMMA BeatChanges ==
    ASSUME NEW r \in AgentRecord, NEW addr \in Addresses \cup {Nowhere},
           NEW status \in Statuses \cup {"none"}, NEW metrics \in BOOLEAN
    PROVE  /\ Beaten(r, addr, status, metrics) \in AgentRecord
           /\ Beaten(r, addr, status, metrics).snapshot \in {r.snapshot, Nowhere}
<1> DEFINE st == IF status # "none" THEN status
                 ELSE IF r.status = "none" THEN "healthy" ELSE r.status
           sn == IF metrics THEN Nowhere ELSE r.snapshot
           b == [r EXCEPT !.status = st, !.heard = 0, !.snapshot = sn]
<1>1. st \in {"none", "unknown", "healthy", "degraded", "offline"}
  BY Bounds DEF AgentRecord
<1>2. sn \in Agents \cup {Nowhere} /\ sn \in {r.snapshot, Nowhere}
  BY DEF AgentRecord
<1>3. Beaten(r, addr, status, metrics) = At(b, addr)
  BY DEF Beaten
<1> HIDE DEF st, sn
<1>4. b \in AgentRecord /\ b.snapshot = sn
  BY Bounds, <1>1, <1>2 DEF AgentRecord
<1> HIDE DEF b
<1> QED BY <1>2, <1>3, <1>4, AddressChanges

LEMMA FailureChanges ==
    ASSUME NEW r \in AgentRecord, NEW addr \in Addresses, NEW discard \in BOOLEAN
    PROVE  /\ Failed(r, addr, discard) \in AgentRecord
           /\ Failed(r, addr, discard).snapshot \in {r.snapshot, Nowhere}
<1> DEFINE fs == IF r.failures < OfflineAfter THEN r.failures + 1 ELSE r.failures
           st == IF fs = OfflineAfter THEN "offline" ELSE "degraded"
           sn == IF discard THEN Nowhere ELSE r.snapshot
<1>1. fs \in 0 .. OfflineAfter
  BY Bounds DEF AgentRecord
<1>2. st \in {"none", "unknown", "healthy", "degraded", "offline"}
  OBVIOUS
<1>3. sn \in Agents \cup {Nowhere} /\ sn \in {r.snapshot, Nowhere}
  BY DEF AgentRecord
<1>4. Failed(r, addr, discard) =
        [r EXCEPT !.addr = addr, !.failures = fs, !.status = st, !.snapshot = sn]
  BY DEF Failed
<1> HIDE DEF fs, st, sn
<1> QED BY <1>1, <1>2, <1>3, <1>4 DEF AgentRecord

\* Only an answer brings a snapshot, which is then of the agent that answered.
LEMMA SuccessChanges ==
    ASSUME NEW r \in AgentRecord, NEW addr \in Addresses, NEW age \in 0 .. StaleAfter + 1,
           NEW status \in Statuses, NEW from \in Agents
    PROVE  /\ Succeeded(r, addr, age, status, from) \in AgentRecord
           /\ Succeeded(r, addr, age, status, from).snapshot = from
<1> DEFINE h == Fresher(age, r.heard)
<1>1. h \in 0 .. Never
  BY FresherBounded
<1>2. status \in {"none", "unknown", "healthy", "degraded", "offline"}
  BY Bounds
<1>3. Succeeded(r, addr, age, status, from) =
        [r EXCEPT !.status = status, !.failures = 0, !.heard = h, !.addr = addr,
                  !.snapshot = from]
  BY DEF Succeeded
<1> HIDE DEF h
<1> QED BY Bounds, <1>1, <1>2, <1>3 DEF AgentRecord

\* No step puts anything else into the registry, on its way, or into a call.
LEMMA TypedStep == Typed /\ [Next]_vars => Typed'
<1> SUFFICES ASSUME Typed, [Next]_vars PROVE Typed'
  OBVIOUS
<1> USE DEF Typed
<1>1. ASSUME NEW a \in Agents, NEW to \in Addresses \cup {Nowhere}, Move(a, to)
      PROVE  Typed'
  BY <1>1 DEF Move
<1>2. ASSUME NEW a \in Announcing, Send(a) PROVE Typed'
  <2>1. a \in Agents /\ home[a] \in Addresses
    BY <1>2, TraceyAssumption DEF Send, Running
  <2> QED BY <1>2, <2>1 DEF Send
<1>3. ASSUME NEW m \in messages, Lose(m) PROVE Typed'
  BY <1>3 DEF Lose
<1>4. ASSUME NEW m \in messages, Announce(m) PROVE Typed'
  <2>1. m.agent \in Agents /\ m.addr \in Addresses
    OBVIOUS
  <2>2. Announced(record[m.agent], m.addr) \in AgentRecord
    BY <2>1, AnnouncementChanges
  <2> QED BY <1>4, <2>1, <2>2 DEF Announce
<1>5. ASSUME NEW a \in Beating, NEW status \in Statuses \cup {"none"}, NEW metrics \in BOOLEAN,
             NEW addr \in {home[a], Nowhere}, Heartbeat(a, addr, status, metrics)
      PROVE  Typed'
  <2>1. a \in Agents /\ addr \in Addresses \cup {Nowhere}
    BY TraceyAssumption
  <2>2. Beaten(record[a], addr, status, metrics) \in AgentRecord
    BY <2>1, BeatChanges
  <2> QED BY <1>5, <2>1, <2>2 DEF Heartbeat
<1>6. ASSUME NEW a \in Agents, NEW addr \in Addresses \cup {Nowhere}, Require(a, addr)
      PROVE  Typed'
  <2>1. Required(record[a], addr) \in AgentRecord
    BY RequirementChanges
  <2> QED BY <1>6, <2>1 DEF Require
<1>7. MarkStale \in [Agents -> AgentRecord]
  BY MarkChanges DEF MarkStale
<1>8. CASE List
  BY <1>7, <1>8 DEF List
<1>9. ASSUME NEW due \in SUBSET Agents, Maintain(due) PROVE Typed'
  <2>1. {[agent |-> a, addr |-> record[a].addr] : a \in due}
          \in SUBSET [agent : Agents, addr : Addresses]
    BY <1>9 DEF Maintain, AgentRecord
  <2>2. 0 \in 0 .. StaleAfter + 1 /\ NoCall \in Call
    BY TraceyAssumption DEF Call
  <2>3. poll' \in Poll
    BY <1>9, <2>1, <2>2 DEF Maintain, Poll
  <2> QED BY <1>7, <1>9, <2>3 DEF Maintain
<1>10. ASSUME poll.phase = "polling", Polls PROVE Typed'
  <2>1. poll \in [phase : {"polling"}, age : 0 .. StaleAfter + 1, call : Call,
                   pending : SUBSET [agent : Agents, addr : Addresses]]
    BY <1>10 DEF Poll, Listening
  <2>2. ASSUME NEW p \in poll.pending, Ask(p) PROVE Typed'
    <3>1. [phase |-> "asked", agent |-> p.agent, addr |-> p.addr] \in Call
      BY <2>1 DEF Call
    <3>2. poll' \in Poll
      BY <2>1, <2>2, <3>1 DEF Ask, Poll
    <3> QED BY <2>2, <3>2 DEF Ask
  <2>3. ASSUME poll.call.phase = "asked" PROVE poll.call \in [phase : {"asked"}, agent : Agents, addr : Addresses]
    BY <2>1, <2>3 DEF Call, NoCall
  <2>4. ASSUME poll.call.phase = "answered"
        PROVE  poll.call \in [phase : {"answered"}, agent : Agents, addr : Addresses, from : Agents,
                          status : Statuses]
    BY <2>1, <2>4 DEF Call, NoCall
  <2>5. ASSUME NEW b \in Agents, NEW status \in Statuses, Answer(b, status) PROVE Typed'
    <3>1. [phase |-> "answered", agent |-> poll.call.agent, addr |-> poll.call.addr, from |-> b,
           status |-> status] \in Call
      BY <2>3, <2>5 DEF Answer, Polling, Call
    <3>2. poll' \in Poll
      BY <2>1, <2>5, <3>1 DEF Answer, Poll
    <3> QED BY <2>5, <3>2 DEF Answer
  <2>6. [poll EXCEPT !.call = NoCall] \in Poll
    BY <2>1 DEF Poll, Call
  <2>7. ASSUME NEW new \in [Agents -> AgentRecord], Polled(new) PROVE Typed'
    BY <2>6, <2>7 DEF Polled
  <2>8. CASE Unanswered
    <3>1. poll.call.agent \in Agents /\ poll.call.addr \in Addresses
      BY <2>3, <2>8 DEF Unanswered, Polling
    <3>2. Failed(record[poll.call.agent], poll.call.addr, FALSE) \in AgentRecord
      BY <3>1, FailureChanges
    <3> QED BY <2>7, <2>8, <3>1, <3>2 DEF Unanswered
  <2>9. CASE Misidentified
    <3>1. poll.call.agent \in Agents /\ poll.call.addr \in Addresses
      BY <2>4, <2>9 DEF Misidentified, Polling
    <3>2. Failed(record[poll.call.agent], poll.call.addr, TRUE) \in AgentRecord
      BY <3>1, FailureChanges
    <3> QED BY <2>7, <2>9, <3>1, <3>2 DEF Misidentified
  <2>10. ASSUME Polling("answered")
         PROVE  Stored \in [Agents -> AgentRecord]
    <3>1. poll.call.agent \in Agents /\ poll.call.addr \in Addresses /\ poll.call.from \in Agents
          /\ poll.call.status \in Statuses
      BY <2>4, <2>10 DEF Polling
    <3>2. poll.age \in 0 .. StaleAfter + 1
      BY <2>1
    <3>3. Succeeded(record[poll.call.agent], poll.call.addr, poll.age, poll.call.status,
                    poll.call.from) \in AgentRecord
      BY <3>1, <3>2, SuccessChanges
    <3> QED BY <3>1, <3>3 DEF Stored
  <2>11. CASE Accept
    BY <2>7, <2>10, <2>11 DEF Accept
  <2>12. ASSUME NEW peer \in Agents, NEW addr \in Addresses, AcceptWithPeer(peer, addr)
         PROVE  Typed'
    <3>1. Stored \in [Agents -> AgentRecord]
      BY <2>10, <2>12 DEF AcceptWithPeer
    <3>2. poll.age \in 0 .. StaleAfter + 1
      BY <2>1
    <3>3. Hinted(Stored[peer], addr, poll.age) \in AgentRecord
      BY <3>1, <3>2, HintChanges
    <3>4. [Stored EXCEPT ![peer] = Hinted(Stored[peer], addr, poll.age)]
            \in [Agents -> AgentRecord]
      BY <3>1, <3>3
    <3> QED BY <2>7, <2>12, <3>4 DEF AcceptWithPeer
  <2>13. CASE Listen
    BY <2>13 DEF Listen, Poll
  <2> QED BY <1>10, <2>2, <2>5, <2>8, <2>9, <2>11, <2>12, <2>13 DEF Polls
<1>11. CASE Tick
  <2>1. record' \in [Agents -> AgentRecord]
    <3>1. \A a \in Agents : [record[a] EXCEPT !.heard = Older(record[a].heard)] \in AgentRecord
      BY AgeChanges
    <3> QED BY <1>11, <3>1 DEF Tick
  <2>2. poll' \in Poll
    <3>1. CASE poll.phase # "polling"
      BY <1>11, <3>1 DEF Tick
    <3>2. CASE poll.phase = "polling"
      <4>1. poll \in [phase : {"polling"}, age : 0 .. StaleAfter + 1, call : Call,
                       pending : SUBSET [agent : Agents, addr : Addresses]]
        BY <3>2 DEF Poll, Listening
      <4>2. Older(poll.age) \in 0 .. StaleAfter + 1
        BY <4>1, TraceyAssumption DEF Older
      <4> QED BY <1>11, <3>2, <4>1, <4>2 DEF Tick, Poll
    <3> QED BY <3>1, <3>2
  <2> QED BY <1>11, <2>1, <2>2 DEF Tick
<1>12. CASE UNCHANGED vars
  BY <1>12 DEF vars
<1> QED BY <1>1, <1>2, <1>3, <1>4, <1>5, <1>6, <1>8, <1>9, <1>10, <1>11, <1>12 DEF Next

LEMMA TypedInvariant == Spec => []Typed
<1>1. Init => Typed
  BY TraceyAssumption DEF Init, Typed, AgentRecord, NoRecord, Never, Poll
<1> QED BY <1>1, TypedStep, PTL DEF Spec

\* Every record, poll and datagram is what the code keeps in its place.
THEOREM TypeCorrect == Spec => []TypeOK
BY TypedInvariant, TypedIsTypeOK, PTL

-----------------------------------------------------------------------------
(* Snapshots *)

\* A step that changes no snapshot but into none or into the agent's own keeps
\* every snapshot the agent's own.
LEMMA SnapshotStep == Typed /\ SnapshotIsOwn /\ [Next]_vars => SnapshotIsOwn'
<1> SUFFICES ASSUME Typed, SnapshotIsOwn, [Next]_vars,
                    NEW a \in Agents
             PROVE  record'[a].snapshot \in {a, Nowhere}
  BY DEF SnapshotIsOwn
<1>1. record \in [Agents -> AgentRecord] /\ record[a].snapshot \in {a, Nowhere}
  BY DEF Typed, SnapshotIsOwn
<1>2. CASE UNCHANGED record
  BY <1>1, <1>2
<1>3. ASSUME NEW m \in messages, Announce(m) PROVE record'[a].snapshot \in {a, Nowhere}
  <2>1. m.agent \in Agents /\ m.addr \in Addresses
    BY DEF Typed
  <2>2. Announced(record[m.agent], m.addr).snapshot = record[m.agent].snapshot
    BY <1>1, <2>1, AnnouncementChanges
  <2> QED BY <1>1, <1>3, <2>1, <2>2 DEF Announce
<1>4. ASSUME NEW b \in Beating, NEW status \in Statuses \cup {"none"}, NEW metrics \in BOOLEAN,
             NEW addr \in {home[b], Nowhere}, Heartbeat(b, addr, status, metrics)
      PROVE  record'[a].snapshot \in {a, Nowhere}
  <2>1. b \in Agents /\ addr \in Addresses \cup {Nowhere}
    BY TraceyAssumption DEF Typed
  <2>2. Beaten(record[b], addr, status, metrics).snapshot \in {record[b].snapshot, Nowhere}
    BY <1>1, <2>1, BeatChanges
  <2> QED BY <1>1, <1>4, <2>1, <2>2 DEF Heartbeat
<1>5. ASSUME NEW b \in Agents, NEW addr \in Addresses \cup {Nowhere}, Require(b, addr)
      PROVE  record'[a].snapshot \in {a, Nowhere}
  <2>1. Required(record[b], addr).snapshot = record[b].snapshot
    BY <1>1, RequirementChanges
  <2> QED BY <1>1, <1>5, <2>1 DEF Require
<1>6. ASSUME record' = MarkStale PROVE record'[a].snapshot \in {a, Nowhere}
  <2>1. Marked(record[a]).snapshot = record[a].snapshot
    BY <1>1, MarkChanges
  <2> QED BY <1>1, <1>6, <2>1 DEF MarkStale
<1>7. CASE Tick
  <2>1. [record[a] EXCEPT !.heard = Older(record[a].heard)].snapshot = record[a].snapshot
    BY <1>1, AgeChanges
  <2> QED BY <1>1, <1>7, <2>1 DEF Tick
<1>8. ASSUME poll.phase = "polling", Polls PROVE record'[a].snapshot \in {a, Nowhere}
  <2>1. /\ poll.call \in Call /\ poll.age \in 0 .. StaleAfter + 1
    BY <1>8 DEF Typed, Poll, Listening
  <2>2. ASSUME Polling("asked") \/ Polling("answered")
        PROVE  poll.call.agent \in Agents /\ poll.call.addr \in Addresses
    BY <2>1, <2>2 DEF Polling, Call, NoCall
  <2>3. ASSUME Polling("answered") PROVE poll.call.from \in Agents /\ poll.call.status \in Statuses
    BY <2>1, <2>3 DEF Polling, Call, NoCall
  <2>4. ASSUME NEW discard \in BOOLEAN, Polling("asked") \/ Polling("answered"),
               record' = [record EXCEPT ![poll.call.agent] = Failed(@, poll.call.addr, discard)]
        PROVE  record'[a].snapshot \in {a, Nowhere}
    <3>1. Failed(record[poll.call.agent], poll.call.addr, discard).snapshot
            \in {record[poll.call.agent].snapshot, Nowhere}
      BY <1>1, <2>2, <2>4, FailureChanges
    <3> QED BY <1>1, <2>2, <2>4, <3>1
  <2>5. CASE Unanswered
    <3>1. record' = [record EXCEPT ![poll.call.agent] = Failed(@, poll.call.addr, FALSE)]
      BY <2>5 DEF Unanswered, Polled
    <3> QED BY <2>4, <2>5, <3>1 DEF Unanswered
  <2>6. CASE Misidentified
    <3>1. record' = [record EXCEPT ![poll.call.agent] = Failed(@, poll.call.addr, TRUE)]
      BY <2>6 DEF Misidentified, Polled
    <3> QED BY <2>4, <2>6, <3>1 DEF Misidentified
  <2>7. ASSUME Polling("answered"), Identified(poll.call)
        PROVE  /\ Stored \in [Agents -> AgentRecord]
               /\ \A b \in Agents : b # poll.call.agent => Stored[b] = record[b]
               /\ Stored[poll.call.agent].snapshot = poll.call.agent
    <3>1. poll.call.agent \in Agents /\ poll.call.addr \in Addresses
          /\ poll.call.from = poll.call.agent
      BY <2>2, <2>7 DEF Identified
    <3> DEFINE new == Succeeded(record[poll.call.agent], poll.call.addr, poll.age,
                                poll.call.status, poll.call.from)
    <3>2. new \in AgentRecord /\ new.snapshot = poll.call.agent
      BY <1>1, <2>1, <2>3, <2>7, <3>1, SuccessChanges
    <3>3. Stored = [record EXCEPT ![poll.call.agent] = new]
      BY DEF Stored
    <3> HIDE DEF new
    <3> QED BY <1>1, <3>1, <3>2, <3>3
  <2>8. CASE Accept
    <3>1. record' = Stored /\ Polling("answered") /\ Identified(poll.call)
      BY <2>8 DEF Accept, Polled
    <3> QED BY <1>1, <2>7, <3>1
  <2>9. ASSUME NEW peer \in Agents, NEW addr \in Addresses, AcceptWithPeer(peer, addr)
        PROVE  record'[a].snapshot \in {a, Nowhere}
    <3>1. /\ record' = [Stored EXCEPT ![peer] = Hinted(@, addr, poll.age)]
          /\ Polling("answered") /\ Identified(poll.call)
      BY <2>9 DEF AcceptWithPeer, Polled
    <3>2. Stored \in [Agents -> AgentRecord]
      BY <2>7, <3>1
    <3>3. Hinted(Stored[peer], addr, poll.age).snapshot = Stored[peer].snapshot
      BY <2>1, <3>2, HintChanges
    <3>4. record'[a].snapshot = Stored[a].snapshot
      BY <3>1, <3>2, <3>3
    <3> QED BY <1>1, <2>7, <3>1, <3>4
  <2>10. CASE \/ \E p \in poll.pending : Ask(p)
              \/ \E b \in Agents, status \in Statuses : Answer(b, status)
              \/ Listen
    BY <1>2, <2>10 DEF Ask, Answer, Listen
  <2> QED BY <1>8, <2>5, <2>6, <2>8, <2>9, <2>10 DEF Polls
<1>9. CASE List
  BY <1>6, <1>9 DEF List
<1>10. ASSUME NEW due \in SUBSET Agents, Maintain(due) PROVE record'[a].snapshot \in {a, Nowhere}
  BY <1>6, <1>10 DEF Maintain
<1>11. ASSUME \/ \E b \in Agents, to \in Addresses \cup {Nowhere} : Move(b, to)
              \/ \E b \in Announcing : Send(b)
              \/ \E m \in messages : Lose(m)
              \/ UNCHANGED vars
       PROVE  record'[a].snapshot \in {a, Nowhere}
  BY <1>2, <1>11 DEF Move, Send, Lose, vars
<1> QED BY <1>3, <1>4, <1>5, <1>7, <1>8, <1>9, <1>10, <1>11 DEF Next

\* A snapshot kept for an agent is one the agent itself answered with, however
\* many agents take over each other's addresses during a poll.
THEOREM SnapshotOwned == Spec => []SnapshotIsOwn
<1>1. Init => SnapshotIsOwn
  BY DEF Init, SnapshotIsOwn, NoRecord
<1> QED BY <1>1, TypedInvariant, SnapshotStep, PTL DEF Spec
=============================================================================
