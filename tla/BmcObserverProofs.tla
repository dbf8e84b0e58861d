-------------------------- MODULE BmcObserverProofs --------------------------
(***************************************************************************)
(* Proofs about BmcObserver, for any number of servers, events and request *)
(* identifiers, any window and any number of faults, resets and changes of *)
(* the inventory.                                                          *)
(***************************************************************************)
EXTENDS BmcObserver, FiniteSetTheorems, SequenceTheorems, TLAPS

-----------------------------------------------------------------------------
(* The events of a batch *)

LEMMA BatchIs ==
    ASSUME NEW b \in Batches
    PROVE  /\ b \in Seq(Events) /\ Len(b) \in 1..2
           /\ \A i \in 1..Len(b) : b[i] \in Events
           /\ Len(b) = 2 => b[1] # b[2]
<1>1. PICK n \in 1..2 : b \in [1..n -> Events]
  BY DEF Batches
<1>2. IsInjective(b)
  BY DEF Batches
<1>3. b \in Seq(Events) /\ Len(b) = n
  BY <1>1
<1>4. DOMAIN b = 1..n
  BY <1>1
<1>5. n = 2 => b[1] # b[2]
  BY <1>2, <1>4 DEF IsInjective
<1> QED BY <1>3, <1>5

\* The largest of what a fold over two elements meets.
LEMMA LargestOfTwo == Max({1}) = 1 /\ Max({2}) = 2 /\ Max({1, 2}) = 2
BY DEF Max

\* The fold over a batch counts its events in turn.
LEMMA AfterNone ==
    ASSUME NEW b \in Batches
    PROVE  After(b, 0) = mem
<1> DEFINE Folds(g) == g = [s \in SUBSET {} |->
                              IF s = {} THEN mem ELSE Count(g[s \ {Max(s)}], <<>>[Max(s)])]
           iter == CHOOSE g : Folds(g)
<1>1. SubSeq(b, 1, 0) = <<>> /\ DOMAIN <<>> = {}
  BY BatchIs
<1>2. FoldLeft(Count, mem, <<>>) = iter[{}]
  BY <1>1 DEF FoldLeft, MapThenFoldSet
<1>3. Folds([s \in SUBSET {} |-> mem])
  OBVIOUS
<1>4. Folds(iter)
  <2> HIDE DEF Folds
  <2> QED BY <1>3
<1>5. iter[{}] = mem
  <2> HIDE DEF iter
  <2> QED BY <1>4
<1> QED BY <1>1, <1>2, <1>5 DEF After

LEMMA AfterOne ==
    ASSUME NEW b \in Batches
    PROVE  After(b, 1) = Count(mem, b[1])
<1> DEFINE Folds(g) == g = [s \in SUBSET {1} |->
                              IF s = {} THEN mem ELSE Count(g[s \ {Max(s)}], <<b[1]>>[Max(s)])]
           iter == CHOOSE g : Folds(g)
           fold == [s \in SUBSET {1} |-> IF s = {} THEN mem ELSE Count(mem, b[1])]
<1>1. SubSeq(b, 1, 1) = <<b[1]>> /\ DOMAIN <<b[1]>> = {1}
  <2>1. b \in Seq(Events) /\ 1 \in 1..Len(b) /\ b[1] \in Events
    BY BatchIs
  <2>2. /\ SubSeq(b, 1, 1) \in Seq(Events) /\ Len(SubSeq(b, 1, 1)) = 1
        /\ SubSeq(b, 1, 1)[1] = b[1]
    BY <2>1
  <2>3. /\ <<b[1]>> \in Seq(Events) /\ Len(<<b[1]>>) = 1 /\ <<b[1]>>[1] = b[1]
    BY <2>1
  <2>4. SubSeq(b, 1, 1) = <<b[1]>>
    <3> DEFINE p == SubSeq(b, 1, 1)
               q == <<b[1]>>
    <3>1. /\ p \in Seq(Events) /\ q \in Seq(Events) /\ Len(p) = Len(q)
          /\ \A i \in 1..Len(p) : p[i] = q[i]
      BY <2>2, <2>3
    <3> HIDE DEF p, q
    <3>2. p = q
      BY <3>1, SeqEqual
    <3> QED BY <3>2 DEF p, q
  <2>5. DOMAIN <<b[1]>> = 1..1
    BY <2>3
  <2> QED BY <2>4, <2>5
<1>2. FoldLeft(Count, mem, <<b[1]>>) = iter[{1}]
  BY <1>1 DEF FoldLeft, MapThenFoldSet
<1>3. Folds(fold)
  <2>1. \A s \in SUBSET {1} : s = {} \/ s = {1}
    OBVIOUS
  <2>2. <<b[1]>>[Max({1})] = b[1] /\ {1} \ {Max({1})} = {}
    BY LargestOfTwo
  <2>3. fold[{}] = mem
    OBVIOUS
  <2>4. \A s \in SUBSET {1} :
           fold[s] = IF s = {} THEN mem ELSE Count(fold[s \ {Max(s)}], <<b[1]>>[Max(s)])
    BY <2>1, <2>2, <2>3
  <2> QED BY <2>4
<1>4. Folds(iter)
  <2> HIDE DEF Folds, fold
  <2> QED BY <1>3
<1>5. iter[{1}] = Count(mem, b[1])
  <2>1. iter[{}] = mem
    <3> HIDE DEF iter
    <3> QED BY <1>4
  <2>2. iter[{1}] = Count(iter[{1} \ {Max({1})}], <<b[1]>>[Max({1})])
    <3> HIDE DEF iter
    <3> QED BY <1>4
  <2>3. {1} \ {Max({1})} = {} /\ <<b[1]>>[Max({1})] = b[1]
    BY LargestOfTwo
  <2> HIDE DEF iter
  <2> QED BY <2>1, <2>2, <2>3
<1> QED BY <1>1, <1>2, <1>5 DEF After

LEMMA AfterTwo ==
    ASSUME NEW b \in Batches, Len(b) = 2
    PROVE  After(b, 2) = Count(Count(mem, b[1]), b[2])
<1> DEFINE Folds(g) == g = [s \in SUBSET {1, 2} |->
                              IF s = {} THEN mem ELSE Count(g[s \ {Max(s)}], b[Max(s)])]
           iter == CHOOSE g : Folds(g)
           fold == [s \in SUBSET {1, 2} |->
                      IF s = {} THEN mem
                      ELSE IF s = {1} THEN Count(mem, b[1])
                      ELSE IF s = {2} THEN Count(mem, b[2])
                      ELSE Count(Count(mem, b[1]), b[2])]
<1>1. SubSeq(b, 1, 2) = b /\ DOMAIN b = {1, 2}
  BY BatchIs
<1>2. FoldLeft(Count, mem, b) = iter[{1, 2}]
  BY <1>1 DEF FoldLeft, MapThenFoldSet
<1>3. Folds(fold)
  <2>1. \A s \in SUBSET {1, 2} : s = {} \/ s = {1} \/ s = {2} \/ s = {1, 2}
    OBVIOUS
  <2>2. /\ {1} \ {Max({1})} = {} /\ {2} \ {Max({2})} = {} /\ {1, 2} \ {Max({1, 2})} = {1}
        /\ b[Max({1})] = b[1] /\ b[Max({2})] = b[2] /\ b[Max({1, 2})] = b[2]
    BY LargestOfTwo
  <2>3. /\ fold[{}] = mem /\ fold[{1}] = Count(mem, b[1]) /\ fold[{2}] = Count(mem, b[2])
        /\ fold[{1, 2}] = Count(Count(mem, b[1]), b[2])
    OBVIOUS
  <2>4. \A s \in SUBSET {1, 2} :
           fold[s] = IF s = {} THEN mem ELSE Count(fold[s \ {Max(s)}], b[Max(s)])
    <3> SUFFICES ASSUME NEW s \in SUBSET {1, 2}
                 PROVE  fold[s] = IF s = {} THEN mem ELSE Count(fold[s \ {Max(s)}], b[Max(s)])
      OBVIOUS
    <3> HIDE DEF fold
    <3>1. CASE s = {}
      BY <2>3, <3>1
    <3>2. CASE s = {1}
      BY <2>2, <2>3, <3>2
    <3>3. CASE s = {2}
      BY <2>2, <2>3, <3>3
    <3>4. CASE s = {1, 2}
      BY <2>2, <2>3, <3>4
    <3> QED BY <2>1, <3>1, <3>2, <3>3, <3>4
  <2>5. fold = [s \in SUBSET {1, 2} |-> fold[s]]
    OBVIOUS
  <2> QED BY <2>4, <2>5
<1>4. Folds(iter)
  <2> HIDE DEF Folds, fold
  <2> QED BY <1>3
<1>5. iter[{1, 2}] = Count(Count(mem, b[1]), b[2])
  <2>1. /\ {1} \ {Max({1})} = {} /\ {1, 2} \ {Max({1, 2})} = {1}
        /\ b[Max({1})] = b[1] /\ b[Max({1, 2})] = b[2]
    BY LargestOfTwo
  <2>2. /\ iter[{}] = mem
        /\ iter[{1}] = Count(iter[{1} \ {Max({1})}], b[Max({1})])
        /\ iter[{1, 2}] = Count(iter[{1, 2} \ {Max({1, 2})}], b[Max({1, 2})])
    <3> HIDE DEF iter
    <3> QED BY <1>4
  <2> HIDE DEF iter
  <2> QED BY <2>1, <2>2
<1> QED BY <1>1, <1>2, <1>5 DEF After

LEMMA AfterIs ==
    ASSUME NEW b \in Batches
    PROVE  /\ After(b, 0) = mem
           /\ After(b, 1) = Count(After(b, 0), b[1])
           /\ Len(b) = 2 => After(b, 2) = Count(After(b, 1), b[2])
BY AfterNone, AfterOne, AfterTwo

-----------------------------------------------------------------------------
(* What counting an event does to a state *)

SeenSeqs == {q \in Seq(Events) : Len(q) <= Window /\ IsInjective(q)}

States == [enrollment : Enrollment, seen : SeenSeqs]

StateTyped(s) == s \in States

\* The states, as the types name them.
LEMMA StatesTyped ==
    \A s : StateTyped(s) <=> s \in State /\ IsInjective(s.seen)
<1>1. SeenSeqs = {q \in UNION {[1..n -> Events] : n \in 0..Window} : IsInjective(q)}
  <2>1. ASSUME NEW q \in Seq(Events), Len(q) <= Window
        PROVE  q \in UNION {[1..n -> Events] : n \in 0..Window}
    <3>1. Len(q) \in 0..Window /\ q \in [1..Len(q) -> Events]
      BY <2>1, ObserverAssumption
    <3> QED BY <3>1
  <2>2. ASSUME NEW n \in 0..Window, NEW q \in [1..n -> Events]
        PROVE  q \in Seq(Events) /\ Len(q) <= Window
    BY ObserverAssumption
  <2> QED BY <2>1, <2>2 DEF SeenSeqs
<1> QED BY <1>1 DEF StateTyped, States, State

\* Every event of q is among those that came after each of its predecessors.
Ordered(q, since) == \A k \in 1..Len(q) : \A p \in 1..(k - 1) : q[k] \in since[q[p]]

Passed(since, e) == Cardinality(since[e]) >= Window

\* The events that came after each event, once f is counted.
Since(since, f) == [e \in Events |-> IF e = f THEN {} ELSE since[e] \cup {f}]

SinceTyped(since) == since \in [Events -> SUBSET Events] /\ \A e \in Events : IsFiniteSet(since[e])

LEMMA CountSeen ==
    ASSUME NEW s, StateTyped(s), NEW f \in Events, f \in ToSet(s.seen)
    PROVE  Count(s, f) = s
BY DEF Count

\* The window's events are distinct, so that an event that leaves it was followed by as
\* many others as the window holds.
LEMMA CountFresh ==
    ASSUME NEW s, StateTyped(s), NEW f \in Events, f \notin ToSet(s.seen),
           NEW old, SinceTyped(old), Ordered(s.seen, old),
           NEW since, SinceTyped(since), \A e \in Events \ {f} : old[e] \cup {f} \subseteq since[e]
    PROVE  /\ StateTyped(Count(s, f)) /\ Count(s, f).enrollment = s.enrollment
           /\ Ordered(Count(s, f).seen, since)
           /\ f \in ToSet(Count(s, f).seen)
           /\ ToSet(Count(s, f).seen) \subseteq ToSet(s.seen) \cup {f}
           /\ \A e \in ToSet(s.seen) : e \in ToSet(Count(s, f).seen) \/ Passed(since, e)
<1> DEFINE q == s.seen
           n == Len(q)
           r == Append(q, f)
           t == IF n = Window THEN Tail(r) ELSE r
<1>0. /\ q \in Seq(Events) /\ n \in Nat /\ n <= Window /\ IsInjective(q)
      /\ Window \in Nat \ {0} /\ DOMAIN q = 1..n
      /\ \A i \in 1..n : q[i] \in Events /\ q[i] # f
      /\ \A i, k \in 1..n : q[i] = q[k] => i = k
  <2>1. q \in Seq(Events) /\ n <= Window /\ IsInjective(q)
    BY DEF StateTyped, States, SeenSeqs
  <2>2. DOMAIN q = 1..n /\ n \in Nat
    BY <2>1
  <2> QED BY <2>1, <2>2, ObserverAssumption DEF ToSet, IsInjective
<1>1. /\ r \in Seq(Events) /\ Len(r) = n + 1 /\ r[n + 1] = f
      /\ \A i \in 1..n : r[i] = q[i]
  BY <1>0
<1>2. \A i, k \in 1..(n + 1) : r[i] = r[k] => i = k
  BY <1>0, <1>1
<1>3. \A k \in 1..(n + 1) : \A p \in 1..(k - 1) : r[k] \in since[r[p]]
  <2> SUFFICES ASSUME NEW k \in 1..(n + 1), NEW p \in 1..(k - 1)
               PROVE  r[k] \in since[r[p]]
    OBVIOUS
  <2>1. p \in 1..n /\ r[p] = q[p] /\ q[p] \in Events \ {f}
    BY <1>0, <1>1
  <2>2. CASE k = n + 1
    BY <1>1, <2>1, <2>2
  <2>3. CASE k \in 1..n
    <3>1. q[k] \in old[q[p]]
      BY <2>3 DEF Ordered
    <3> QED BY <1>1, <2>1, <2>3, <3>1
  <2> QED BY <1>0, <2>2, <2>3
<1>4. Count(s, f) = [s EXCEPT !.seen = t]
  BY DEF Count
<1>5. Count(s, f).seen = t /\ Count(s, f).enrollment = s.enrollment
      /\ (t \in SeenSeqs => StateTyped(Count(s, f)))
  BY <1>4 DEF StateTyped, States
<1>6. CASE n # Window
  <2>1. t = r /\ DOMAIN r = 1..(n + 1)
    BY <1>1, <1>6
  <2>2. t \in SeenSeqs
    <3>1. r \in Seq(Events) /\ Len(r) <= Window
      BY <1>0, <1>1, <1>6
    <3>2. IsInjective(r)
      <4> HIDE DEF r
      <4> QED BY <1>2, <2>1 DEF IsInjective
    <3> QED BY <2>1, <3>1, <3>2 DEF SeenSeqs
  <2>3. ToSet(t) = ToSet(q) \cup {f}
    <3>1. \A x \in ToSet(t) : x \in ToSet(q) \cup {f}
      BY <1>0, <1>1, <2>1 DEF ToSet
    <3>2. \A x \in ToSet(q) \cup {f} : x \in ToSet(t)
      BY <1>0, <1>1, <2>1 DEF ToSet
    <3> QED BY <3>1, <3>2
  <2>4. Ordered(t, since)
    BY <1>1, <1>3, <2>1 DEF Ordered
  <2> QED BY <1>5, <2>2, <2>3, <2>4
<1>7. CASE n = Window
  <2>1. /\ t = Tail(r) /\ t \in Seq(Events) /\ Len(t) = n
        /\ \A i \in 1..n : t[i] = r[i + 1]
    BY <1>0, <1>1, <1>7
  <2>2. DOMAIN t = 1..n
    BY <2>1
  <2>3. t \in SeenSeqs
    <3>1. ASSUME NEW i \in 1..n, NEW k \in 1..n, t[i] = t[k]
          PROVE  i = k
      <4>1. r[i + 1] = r[k + 1] /\ i + 1 \in 1..(n + 1) /\ k + 1 \in 1..(n + 1)
        BY <1>0, <2>1, <3>1
      <4>2. i + 1 = k + 1
        BY <1>2, <4>1
      <4> QED BY <1>0, <4>2
    <3>2. IsInjective(t)
      <4> HIDE DEF t
      <4> QED BY <2>2, <3>1 DEF IsInjective
    <3> QED BY <1>0, <2>1, <3>2 DEF SeenSeqs
  <2>4. Ordered(t, since)
    <3> SUFFICES ASSUME NEW k \in 1..n, NEW p \in 1..(k - 1)
                 PROVE  t[k] \in since[t[p]]
      BY <2>1 DEF Ordered
    <3>1. k + 1 \in 1..(n + 1) /\ p + 1 \in 1..((k + 1) - 1) /\ p \in 1..n
      BY <1>0
    <3> QED BY <1>3, <2>1, <3>1
  <2>5. f = t[n] /\ n \in 1..n
    BY <1>0, <1>1, <1>7, <2>1
  <2>6. ToSet(t) \subseteq ToSet(q) \cup {f} /\ f \in ToSet(t)
    <3>1. f \in ToSet(t)
      BY <2>2, <2>5 DEF ToSet
    <3>2. ASSUME NEW i \in 1..n PROVE t[i] \in ToSet(q) \cup {f}
      <4>1. t[i] = r[i + 1] /\ i + 1 \in 1..(n + 1)
        BY <1>0, <2>1
      <4>2. CASE i + 1 = n + 1
        BY <1>1, <4>1, <4>2
      <4>3. CASE i + 1 \in 1..n
        BY <1>0, <1>1, <4>1, <4>3 DEF ToSet
      <4> QED BY <1>0, <4>1, <4>2, <4>3
    <3> QED BY <2>2, <3>1, <3>2 DEF ToSet
  <2>7. \A i \in 2..n : q[i] \in ToSet(t)
    <3> SUFFICES ASSUME NEW i \in 2..n PROVE q[i] \in ToSet(t)
      OBVIOUS
    <3>1. i - 1 \in 1..n /\ t[i - 1] = r[i] /\ r[i] = q[i]
      BY <1>0, <1>1, <2>1
    <3> QED BY <2>2, <3>1 DEF ToSet
  <2>8. Passed(since, q[1])
    <3> DEFINE after == [i \in 1..n |-> r[i + 1]]
    <3>1. q[1] \in Events \ {f} /\ IsFiniteSet(since[q[1]])
      BY <1>0, <1>7 DEF SinceTyped
    <3>2. after \in [1..n -> since[q[1]]]
      <4> SUFFICES ASSUME NEW i \in 1..n PROVE r[i + 1] \in since[q[1]]
        OBVIOUS
      <4>1. i + 1 \in 1..(n + 1) /\ 1 \in 1..((i + 1) - 1) /\ r[1] = q[1]
        BY <1>0, <1>1
      <4> QED BY <1>3, <4>1
    <3>3. after \in Injection(1..n, since[q[1]])
      <4>1. \A i, k \in 1..n : after[i] = after[k] => i = k
        BY <1>0, <1>2
      <4> QED BY <3>2, <4>1 DEF Injection, IsInjective
    <3>4. Cardinality(1..n) <= Cardinality(since[q[1]])
      <4> HIDE DEF after
      <4> QED BY <3>1, <3>3, FS_Injection
    <3>5. Cardinality(1..n) = n
      BY <1>0, FS_Interval
    <3> QED BY <1>7, <3>4, <3>5 DEF Passed
  <2>9. \A e \in ToSet(q) : e \in ToSet(t) \/ Passed(since, e)
    <3> SUFFICES ASSUME NEW i \in 1..n PROVE q[i] \in ToSet(t) \/ Passed(since, q[i])
      BY <1>0 DEF ToSet
    <3> QED BY <1>0, <2>7, <2>8
  <2> QED BY <1>5, <2>3, <2>4, <2>6, <2>9
<1> QED BY <1>6, <1>7

-----------------------------------------------------------------------------
(* States that agree with what was answered *)

\* The same, when the commit of f failed.
SinceFailed(since, f) == [e \in Events |-> IF e = f THEN since[e] ELSE since[e] \cup {f}]

\* The states that may be read next: their events are in the journal and in the order of
\* arrival, and an acknowledged event is among them or was followed by a window of others.
Sound(states, lines, since, ack) ==
    /\ SinceTyped(since)
    /\ \A s \in states :
          /\ StateTyped(s) /\ Ordered(s.seen, since)
          /\ ToSet(s.seen) \subseteq lines
    /\ \A e \in ack :
          /\ e \in Events /\ e \in lines
          /\ \A s \in states : e \in ToSet(s.seen) \/ Passed(since, e)

LEMMA SoundLess ==
    ASSUME NEW states, NEW lines, NEW since, NEW ack, Sound(states, lines, since, ack),
           NEW fewer \in SUBSET states, NEW more, lines \subseteq more
    PROVE  Sound(fewer, more, since, ack)
BY DEF Sound

LEMMA SinceGrows ==
    ASSUME NEW since, SinceTyped(since), NEW f \in Events
    PROVE  /\ SinceTyped(Since(since, f)) /\ SinceTyped(SinceFailed(since, f))
           /\ \A e \in Events \ {f} : /\ since[e] \cup {f} \subseteq Since(since, f)[e]
                                     /\ since[e] \cup {f} \subseteq SinceFailed(since, f)[e]
           /\ \A e \in Events : since[e] \subseteq SinceFailed(since, f)[e]
<1>1. \A e \in Events : since[e] \subseteq Events /\ IsFiniteSet(since[e])
  BY DEF SinceTyped
<1>2. ASSUME NEW e \in Events
      PROVE  IsFiniteSet(since[e] \cup {f}) /\ IsFiniteSet({})
  BY <1>1, FS_AddElement, FS_EmptySet
<1>3. SinceTyped(Since(since, f))
  BY <1>1, <1>2 DEF SinceTyped, Since
<1>4. SinceTyped(SinceFailed(since, f))
  BY <1>1, <1>2 DEF SinceTyped, SinceFailed
<1> QED BY <1>3, <1>4 DEF Since, SinceFailed

LEMMA PassedGrows ==
    ASSUME NEW old, NEW since, SinceTyped(since), NEW e \in Events,
           old[e] \subseteq since[e], Passed(old, e)
    PROVE  Passed(since, e)
<1>1. IsFiniteSet(since[e])
  BY DEF SinceTyped
<1>2. Cardinality(old[e]) <= Cardinality(since[e])
      /\ Cardinality(old[e]) \in Nat /\ Cardinality(since[e]) \in Nat
  BY <1>1, FS_Subset, FS_CardinalityType
<1> QED BY <1>2, ObserverAssumption DEF Passed

LEMMA OrderedGrows ==
    ASSUME NEW q \in SeenSeqs, NEW old, Ordered(q, old), NEW since,
           \A e \in Events : old[e] \subseteq since[e]
    PROVE  Ordered(q, since)
<1>1. SUFFICES ASSUME NEW k \in 1..Len(q), NEW p \in 1..(k - 1)
               PROVE  q[k] \in since[q[p]]
  BY DEF Ordered
<1>2. q \in Seq(Events)
  BY DEF SeenSeqs
<1>3. p \in 1..Len(q) /\ q[p] \in Events
  BY <1>2
<1> QED BY <1>3 DEF Ordered

\* A commit leaves one state to be read.
LEMMA CommitSound ==
    ASSUME NEW states, NEW lines, NEW since, NEW ack, Sound(states, lines, since, ack),
           NEW m \in states, NEW f \in Events, f \notin ToSet(m.seen)
    PROVE  /\ Sound({Count(m, f)}, lines \cup {f}, Since(since, f), ack \cup {f})
           /\ Count(m, f).enrollment = m.enrollment
<1> DEFINE next == Since(since, f)
           c == Count(m, f)
<1>1. /\ SinceTyped(since) /\ StateTyped(m) /\ Ordered(m.seen, since)
      /\ ToSet(m.seen) \subseteq lines
  BY DEF Sound
<1>2. SinceTyped(next) /\ \A e \in Events \ {f} : since[e] \cup {f} \subseteq next[e]
  BY <1>1, SinceGrows
<1>3. /\ StateTyped(c) /\ c.enrollment = m.enrollment /\ Ordered(c.seen, next)
      /\ f \in ToSet(c.seen) /\ ToSet(c.seen) \subseteq ToSet(m.seen) \cup {f}
      /\ \A e \in ToSet(m.seen) : e \in ToSet(c.seen) \/ Passed(next, e)
  <2> HIDE DEF next, c
  <2> QED BY <1>1, <1>2, CountFresh DEF c
<1>4. ASSUME NEW e \in ack, e # f
      PROVE  e \in ToSet(c.seen) \/ Passed(next, e)
  <2>1. e \in Events /\ (e \in ToSet(m.seen) \/ Passed(since, e))
    BY DEF Sound
  <2>2. since[e] \subseteq next[e]
    BY <1>2, <1>4, <2>1
  <2> QED BY <1>2, <1>3, <2>1, <2>2, PassedGrows
<1>5. \A e \in ack : e \in Events /\ e \in lines
  BY DEF Sound
<1> HIDE DEF next, c
<1>6. Sound({c}, lines \cup {f}, next, ack \cup {f})
  BY <1>1, <1>2, <1>3, <1>4, <1>5 DEF Sound
<1> QED BY <1>3, <1>6 DEF next, c

\* A failed commit may leave its state to be read, beside the others.
LEMMA FailSound ==
    ASSUME NEW states, NEW lines, NEW since, NEW ack, Sound(states, lines, since, ack),
           NEW m \in states, NEW f \in Events, f \notin ToSet(m.seen)
    PROVE  /\ Sound(states \cup {Count(m, f)}, lines \cup {f}, SinceFailed(since, f), ack)
           /\ Sound(states, lines, SinceFailed(since, f), ack)
           /\ Count(m, f).enrollment = m.enrollment
<1> DEFINE next == SinceFailed(since, f)
           c == Count(m, f)
<1>1. /\ SinceTyped(since) /\ StateTyped(m) /\ Ordered(m.seen, since)
      /\ ToSet(m.seen) \subseteq lines
  BY DEF Sound
<1>2. /\ SinceTyped(next) /\ \A e \in Events \ {f} : since[e] \cup {f} \subseteq next[e]
      /\ \A e \in Events : since[e] \subseteq next[e]
  BY <1>1, SinceGrows
<1>3. /\ StateTyped(c) /\ c.enrollment = m.enrollment /\ Ordered(c.seen, next)
      /\ f \in ToSet(c.seen) /\ ToSet(c.seen) \subseteq ToSet(m.seen) \cup {f}
      /\ \A e \in ToSet(m.seen) : e \in ToSet(c.seen) \/ Passed(next, e)
  <2> HIDE DEF next
  <2>1. SinceTyped(next) /\ \A e \in Events \ {f} : since[e] \cup {f} \subseteq next[e]
    BY <1>2
  <2> QED BY <1>1, <2>1, CountFresh
<1> HIDE DEF next, c
<1>4. ASSUME NEW e \in ack
      PROVE  /\ e \in Events /\ e \in lines
             /\ \A s \in states \cup {c} : e \in ToSet(s.seen) \/ Passed(next, e)
  <2>1. e \in Events /\ e \in lines /\ \A s \in states : e \in ToSet(s.seen) \/ Passed(since, e)
    BY DEF Sound
  <2>2. Passed(since, e) => Passed(next, e)
    BY <1>2, <2>1, PassedGrows
  <2> QED BY <1>3, <2>1, <2>2
<1>5. ASSUME NEW s \in states
      PROVE  StateTyped(s) /\ Ordered(s.seen, next) /\ ToSet(s.seen) \subseteq lines
  <2>1. StateTyped(s) /\ Ordered(s.seen, since) /\ ToSet(s.seen) \subseteq lines
    BY DEF Sound
  <2>2. s.seen \in SeenSeqs
    BY <2>1 DEF StateTyped, States
  <2> QED BY <1>2, <2>1, <2>2, OrderedGrows
<1>6. Sound(states, lines, next, ack)
  BY <1>2, <1>4, <1>5 DEF Sound
<1>7. Sound(states \cup {c}, lines \cup {f}, next, ack)
  BY <1>1, <1>2, <1>3, <1>4, <1>5 DEF Sound
<1> QED BY <1>3, <1>6, <1>7 DEF next, c

DiskTyped(d) ==
    /\ d \in [state : States, survivors : SUBSET States, journal : SUBSET Events]
    /\ d.state \in d.survivors

\* What any commit of a state m on a disk d leaves.
LEMMA CommitWrites ==
    ASSUME NEW d, DiskTyped(d), NEW m \in States, NEW es \in SUBSET Events
    PROVE  /\ DiskTyped(Written(d, m, es))
           /\ Written(d, m, es).survivors = {m}
           /\ Written(d, m, es).journal = d.journal \cup es
           /\ \A w \in FailedWrites(d, m, es) :
                 /\ DiskTyped(w)
                 /\ w.survivors \subseteq d.survivors \cup {m}
                 /\ d.journal \subseteq w.journal
                 /\ w.survivors \subseteq d.survivors \/ w.journal = d.journal \cup es
<1>1. /\ DiskTyped(Written(d, m, es))
      /\ Written(d, m, es).survivors = {m}
      /\ Written(d, m, es).journal = d.journal \cup es
  BY DEF Written, DiskTyped
<1>2. ASSUME NEW w \in FailedWrites(d, m, es)
      PROVE  /\ DiskTyped(w)
             /\ w.survivors \subseteq d.survivors \cup {m}
             /\ d.journal \subseteq w.journal
             /\ w.survivors \subseteq d.survivors \/ w.journal = d.journal \cup es
  <2>1. CASE w = d
    BY <2>1
  <2>2. CASE w = [d EXCEPT !.journal = @ \cup es]
    BY <2>2 DEF DiskTyped
  <2>3. CASE w = [d EXCEPT !.state = m, !.survivors = @ \cup {m}, !.journal = @ \cup es]
    BY <2>3 DEF DiskTyped
  <2> QED BY <1>2, <2>1, <2>2, <2>3 DEF FailedWrites
<1> QED BY <1>1, <1>2

\* A commit that moves no event.
LEMMA NothingCommitted ==
    ASSUME NEW d, DiskTyped(d), NEW m \in States
    PROVE  /\ DiskTyped(Written(d, m, {}))
           /\ Written(d, m, {}).survivors = {m}
           /\ Written(d, m, {}).journal = d.journal \cup {}
BY DEF Written, DiskTyped

EventInv ==
    /\ mem \in States /\ DiskTyped(disk) /\ acked \subseteq Events
    /\ Sound(disk.survivors \cup {mem}, disk.journal, seenSince, acked)

\* A commit of another observation or enrolment moves no event.
LEMMA OtherCommit ==
    ASSUME EventInv, NEW m \in States, m.seen = mem.seen,
           NEW d \in {Written(disk, m, {})} \cup FailedWrites(disk, m, {})
    PROVE  /\ DiskTyped(d) /\ d.survivors \subseteq disk.survivors \cup {m}
           /\ Sound(d.survivors \cup {m}, d.journal, seenSince, acked)
<1>1. /\ DiskTyped(d) /\ d.survivors \subseteq disk.survivors \cup {m}
      /\ disk.journal \subseteq d.journal
  BY CommitWrites DEF EventInv
<1>2. Sound(disk.survivors \cup {mem} \cup {m}, disk.journal, seenSince, acked)
  <2>1. StateTyped(m)
    BY DEF StateTyped
  <2> QED BY <2>1 DEF EventInv, Sound
<1>3. d.survivors \cup {m} \in SUBSET (disk.survivors \cup {mem} \cup {m})
  BY <1>1
<1> QED BY <1>1, <1>2, <1>3, SoundLess

-----------------------------------------------------------------------------
(* accept_events, event by event *)

BatchEvents(b, n) == {b[i] : i \in 1..n}

\* What holds once the first n events of a batch are counted and committed.
Prefix(b, n) ==
    /\ DiskTyped(Committed(b, n)) /\ After(b, n) \in States
    /\ Sound(Committed(b, n).survivors \cup {After(b, n)}, Committed(b, n).journal,
             SinceBatch(b, n, n), acked)
    /\ Sound({After(b, n)}, Committed(b, n).journal, SinceBatch(b, n, n),
             acked \cup BatchEvents(b, n))
    /\ Fresh(b, n) # {} => Committed(b, n).survivors = {After(b, n)}
    /\ Committed(b, n).journal = disk.journal \cup FreshEvents(b, n)
    /\ After(b, n).enrollment = mem.enrollment

LEMMA PrefixNone ==
    ASSUME EventInv, NEW b \in Batches
    PROVE  Prefix(b, 0)
<1>1. /\ Fresh(b, 0) = {} /\ FreshEvents(b, 0) = {} /\ BatchEvents(b, 0) = {}
      /\ Committed(b, 0) = disk /\ After(b, 0) = mem
  BY AfterIs DEF Fresh, FreshEvents, BatchEvents, Committed
<1>2. SinceBatch(b, 0, 0) = seenSince
  <2>1. seenSince \in [Events -> SUBSET Events]
    BY DEF EventInv, Sound, SinceTyped
  <2> QED BY <1>1, <2>1 DEF SinceBatch
<1>3. /\ Sound(disk.survivors \cup {mem}, disk.journal, seenSince, acked)
      /\ DiskTyped(disk) /\ mem \in States
  BY DEF EventInv
<1>4. Sound({mem}, disk.journal, seenSince, acked)
  BY <1>3, SoundLess
<1> QED BY <1>1, <1>2, <1>3, <1>4 DEF Prefix

\* The next event of the batch, and the batch's history with it.
LEMMA NextEvent ==
    ASSUME EventInv, NEW b \in Batches, NEW n \in 0..(Len(b) - 1)
    PROVE  /\ n \in Nat /\ n + 1 \in 1..Len(b) /\ b[n + 1] \in Events
           /\ \A i \in 1..n : b[i] # b[n + 1]
           /\ After(b, n + 1) = Count(After(b, n), b[n + 1])
           /\ n + 1 \in Fresh(b, n + 1) <=> b[n + 1] \notin ToSet(After(b, n).seen)
           /\ BatchEvents(b, n + 1) = BatchEvents(b, n) \cup {b[n + 1]}
           /\ Fresh(b, n + 1) = Fresh(b, n) \cup {i \in {n + 1} : n + 1 \in Fresh(b, n + 1)}
           /\ Fresh(b, n) \subseteq 1..n
<1>1. /\ Len(b) \in 1..2 /\ n \in Nat /\ n + 1 \in 1..Len(b) /\ (n + 1) - 1 = n
      /\ b[n + 1] \in Events /\ 1..(n + 1) = 1..n \cup {n + 1}
      /\ n = 0 \/ (n = 1 /\ Len(b) = 2)
  BY BatchIs
<1>2. \A i \in 1..n : b[i] # b[n + 1]
  BY <1>1, BatchIs
<1>3. After(b, n + 1) = Count(After(b, n), b[n + 1])
  <2>1. CASE n = 0
    BY <2>1, AfterIs
  <2>2. CASE n = 1 /\ Len(b) = 2
    BY <2>2, AfterIs
  <2> QED BY <1>1, <2>1, <2>2
<1>4. n + 1 \in Fresh(b, n + 1) <=> b[n + 1] \notin ToSet(After(b, n).seen)
  BY <1>1 DEF Fresh
<1>5. Fresh(b, n + 1) = Fresh(b, n) \cup {i \in {n + 1} : n + 1 \in Fresh(b, n + 1)}
  BY <1>1 DEF Fresh
<1>6. BatchEvents(b, n + 1) = BatchEvents(b, n) \cup {b[n + 1]}
  BY <1>1 DEF BatchEvents
<1>7. Fresh(b, n) \subseteq 1..n
  BY DEF Fresh
<1> QED BY <1>1, <1>2, <1>3, <1>4, <1>5, <1>6, <1>7

\* What came after each event, with a batch counted up to its next event.
LEMMA NextSince ==
    ASSUME EventInv, NEW b \in Batches, NEW n \in 0..(Len(b) - 1), n + 1 \in Fresh(b, n + 1)
    PROVE  /\ FreshEvents(b, n + 1) = FreshEvents(b, n) \cup {b[n + 1]}
           /\ b[n + 1] \notin FreshEvents(b, n)
           /\ SinceBatch(b, n + 1, n + 1) = Since(SinceBatch(b, n, n), b[n + 1])
           /\ SinceBatch(b, n, n + 1) = SinceFailed(SinceBatch(b, n, n), b[n + 1])
<1> DEFINE f == b[n + 1]
           F == Fresh(b, n)
           G == Fresh(b, n + 1)
<1>1. /\ n \in Nat /\ n + 1 \in 1..Len(b) /\ f \in Events
      /\ \A i \in 1..n : b[i] # f
      /\ G = F \cup {n + 1} /\ F \subseteq 1..n
  BY NextEvent
<1>2. /\ FreshEvents(b, n + 1) = FreshEvents(b, n) \cup {f}
      /\ f \notin FreshEvents(b, n)
  <2> HIDE DEF f, F, G
  <2>1. FreshEvents(b, n) = {b[i] : i \in F} /\ FreshEvents(b, n + 1) = {b[i] : i \in G}
    BY DEF FreshEvents, F, G
  <2> QED BY <1>1, <2>1 DEF f
<1>3. ASSUME NEW e \in Events
      PROVE  /\ SinceBatch(b, n + 1, n + 1)[e] = Since(SinceBatch(b, n, n), f)[e]
             /\ SinceBatch(b, n, n + 1)[e] = SinceFailed(SinceBatch(b, n, n), f)[e]
  <2> DEFINE before == IF e \in FreshEvents(b, n) THEN {} ELSE seenSince[e]
             Later(A, B) == {b[i] : i \in {k \in B : b[k] # e /\ \A j \in A : b[j] = e => j < k}}
  <2>1. /\ SinceBatch(b, n, n)[e] = Later(F, F) \cup before
        /\ SinceBatch(b, n, n + 1)[e] = Later(F, G) \cup before
        /\ SinceBatch(b, n + 1, n + 1)[e] =
              Later(G, G) \cup (IF e \in FreshEvents(b, n + 1) THEN {} ELSE seenSince[e])
    BY DEF SinceBatch
  <2>2. CASE e = f
    <3>1. Later(G, G) = {}
      <4> SUFFICES ASSUME NEW k \in G, b[k] # e, \A j \in G : b[j] = e => j < k
                   PROVE  FALSE
        OBVIOUS
      <4>1. n + 1 < k /\ k \in 1..(n + 1)
        BY <1>1, <2>2
      <4> QED BY <1>1, <4>1
    <3>2. Later(F, G) = Later(F, F)
      <4>1. ASSUME NEW k \in G, b[k] # e
            PROVE  k \in F
        BY <1>1, <2>2, <4>1
      <4> QED BY <1>1, <4>1
    <3>3. e \in FreshEvents(b, n + 1)
      BY <1>2, <2>2
    <3> HIDE DEF Later, before, F, G
    <3> QED BY <1>3, <2>1, <2>2, <3>1, <3>2, <3>3 DEF Since, SinceFailed
  <2>3. CASE e # f
    <3>1. \A A \in {F, G} : Later(A, G) = Later(F, F) \cup {f}
      <4>1. \A k \in G : (\A j \in G : b[j] = e => j < k) <=> (\A j \in F : b[j] = e => j < k)
        BY <1>1, <2>3
      <4>2. \A j \in F : j < n + 1
        BY <1>1
      <4>3. Later(F, G) = Later(F, F) \cup {f}
        <5>1. {k \in G : b[k] # e /\ \A j \in F : b[j] = e => j < k}
                = {k \in F : b[k] # e /\ \A j \in F : b[j] = e => j < k} \cup {n + 1}
          BY <1>1, <2>3, <4>2
        <5> QED BY <5>1
      <4>4. Later(G, G) = Later(F, G)
        <5>1. {k \in G : b[k] # e /\ \A j \in F : b[j] = e => j < k}
                = {k \in G : b[k] # e /\ \A j \in G : b[j] = e => j < k}
          BY <4>1
        <5> QED BY <5>1
      <4> QED BY <4>3, <4>4
    <3>2. e \in FreshEvents(b, n + 1) <=> e \in FreshEvents(b, n)
      BY <1>2, <2>3
    <3> HIDE DEF Later, F, G
    <3> QED BY <1>3, <2>1, <2>3, <3>1, <3>2 DEF Since, SinceFailed
  <2> QED BY <2>2, <2>3
<1>4. /\ SinceBatch(b, n + 1, n + 1) = Since(SinceBatch(b, n, n), f)
      /\ SinceBatch(b, n, n + 1) = SinceFailed(SinceBatch(b, n, n), f)
  <2>1. \A i \in {n, n + 1}, k \in {n, n + 1} :
           SinceBatch(b, i, k) = [e \in Events |-> SinceBatch(b, i, k)[e]]
    BY DEF SinceBatch
  <2>2. /\ Since(SinceBatch(b, n, n), f) = [e \in Events |-> Since(SinceBatch(b, n, n), f)[e]]
        /\ SinceFailed(SinceBatch(b, n, n), f)
              = [e \in Events |-> SinceFailed(SinceBatch(b, n, n), f)[e]]
    BY DEF Since, SinceFailed
  <2> HIDE DEF f
  <2> QED BY <1>3, <2>1, <2>2
<1> QED BY <1>2, <1>4

LEMMA PrefixStep ==
    ASSUME EventInv, NEW b \in Batches, NEW n \in 0..(Len(b) - 1), Prefix(b, n)
    PROVE  Prefix(b, n + 1)
<1> DEFINE f == b[n + 1]
           m == After(b, n)
           d == Committed(b, n)
<1>0. /\ f \in Events
      /\ After(b, n + 1) = Count(m, f)
      /\ n + 1 \in Fresh(b, n + 1) <=> f \notin ToSet(m.seen)
      /\ BatchEvents(b, n + 1) = BatchEvents(b, n) \cup {f}
      /\ Fresh(b, n + 1) = Fresh(b, n) \cup {i \in {n + 1} : n + 1 \in Fresh(b, n + 1)}
  BY NextEvent
<1>1. /\ DiskTyped(d) /\ m \in States
      /\ Sound(d.survivors \cup {m}, d.journal, SinceBatch(b, n, n), acked)
      /\ Sound({m}, d.journal, SinceBatch(b, n, n), acked \cup BatchEvents(b, n))
      /\ Fresh(b, n) # {} => d.survivors = {m}
      /\ d.journal = disk.journal \cup FreshEvents(b, n)
      /\ m.enrollment = mem.enrollment
  BY DEF Prefix
<1>2. CASE n + 1 \in Fresh(b, n + 1)
  <2> DEFINE c == Count(m, f)
             next == Since(SinceBatch(b, n, n), f)
             lines == disk.journal \cup FreshEvents(b, n + 1)
  <2>1. /\ FreshEvents(b, n + 1) = FreshEvents(b, n) \cup {f}
        /\ SinceBatch(b, n + 1, n + 1) = next
    BY <1>2, NextSince
  <2>2. lines = d.journal \cup {f} /\ FreshEvents(b, n + 1) \subseteq Events
    <3>1. FreshEvents(b, n + 1) \subseteq lines /\ lines = d.journal \cup {f}
      BY <1>1, <2>1
    <3>2. d.journal \subseteq Events
      BY <1>1 DEF DiskTyped
    <3> QED BY <1>0, <3>1, <3>2
  <2>3. /\ Sound({c}, lines, next, acked \cup {f})
        /\ Sound({c}, lines, next, (acked \cup BatchEvents(b, n)) \cup {f})
        /\ c.enrollment = m.enrollment
    <3> HIDE DEF c, next, lines, f, m, d
    <3>1. /\ Sound({Count(m, f)}, d.journal \cup {f}, Since(SinceBatch(b, n, n), f), acked \cup {f})
          /\ Count(m, f).enrollment = m.enrollment
      BY <1>0, <1>1, <1>2, CommitSound
    <3>2. Sound({Count(m, f)}, d.journal \cup {f}, Since(SinceBatch(b, n, n), f),
                (acked \cup BatchEvents(b, n)) \cup {f})
      BY <1>0, <1>1, <1>2, CommitSound
    <3> QED BY <2>2, <3>1, <3>2 DEF c, next
  <2>4. c \in States
    BY <2>3 DEF Sound, StateTyped
  <2>5. Committed(b, n + 1) = Written(disk, c, FreshEvents(b, n + 1))
    BY <1>0, <1>2 DEF Committed
  <2>6. /\ DiskTyped(Committed(b, n + 1))
        /\ Committed(b, n + 1).survivors = {c}
        /\ Committed(b, n + 1).journal = lines
    BY <2>2, <2>4, <2>5, CommitWrites DEF EventInv
  <2>7. /\ Sound({c} \cup {c}, lines, next, acked)
        /\ Sound({c}, lines, next, acked \cup BatchEvents(b, n + 1))
    <3>1. (acked \cup BatchEvents(b, n)) \cup {f} = acked \cup BatchEvents(b, n + 1)
      BY <1>0
    <3>2. {c} \cup {c} = {c}
      OBVIOUS
    <3> HIDE DEF c, next, lines, f
    <3>3. Sound({c}, lines, next, acked)
      BY <2>3 DEF Sound
    <3> QED BY <2>3, <3>1, <3>2, <3>3
  <2> HIDE DEF c, next, lines, f, m, d
  <2>8. After(b, n + 1) = c
    BY <1>0 DEF c
  <2> QED BY <1>1, <2>1, <2>3, <2>4, <2>6, <2>7, <2>8 DEF Prefix, lines
<1>3. CASE n + 1 \notin Fresh(b, n + 1)
  <2>1. f \in ToSet(m.seen) /\ Fresh(b, n + 1) = Fresh(b, n)
    BY <1>0, <1>3
  <2>2. After(b, n + 1) = m
    BY <1>0, <2>1 DEF Count
  <2>3. /\ FreshEvents(b, n + 1) = FreshEvents(b, n)
        /\ Committed(b, n + 1) = d
        /\ SinceBatch(b, n + 1, n + 1) = SinceBatch(b, n, n)
    BY <2>1, <2>2 DEF FreshEvents, Committed, SinceBatch
  <2>4. Sound({m}, d.journal, SinceBatch(b, n, n), acked \cup BatchEvents(b, n + 1))
    <3> HIDE DEF f, m, d
    <3> QED BY <1>0, <1>1, <2>1 DEF Sound
  <2> HIDE DEF f, m, d
  <2> QED BY <1>1, <2>1, <2>2, <2>3, <2>4 DEF Prefix
<1> QED BY <1>2, <1>3

LEMMA EveryPrefix ==
    ASSUME EventInv, NEW b \in Batches, NEW n \in 0..Len(b)
    PROVE  Prefix(b, n)
<1>1. Prefix(b, 0)
  BY PrefixNone
<1>2. Prefix(b, 1)
  BY <1>1, PrefixStep, BatchIs
<1>3. Len(b) = 2 => Prefix(b, 2)
  BY <1>2, PrefixStep
<1> QED BY <1>1, <1>2, <1>3, BatchIs

\* An answer of 204 promises what is on disk.
LEMMA AcceptSound ==
    ASSUME EventInv, NEW b \in Batches, Accept(b)
    PROVE  /\ EventInv'
           /\ disk'.survivors = {mem'} /\ mem'.enrollment = mem.enrollment
<1> DEFINE n == Len(b)
           m == After(b, n)
           d == Committed(b, n)
<1>1. n \in 0..n /\ Prefix(b, n)
  BY EveryPrefix, BatchIs
<1>2. /\ DiskTyped(d) /\ m \in States /\ m.enrollment = mem.enrollment
      /\ Sound({m}, d.journal, SinceBatch(b, n, n), acked \cup BatchEvents(b, n))
  BY <1>1 DEF Prefix
<1>3. /\ mem' = m /\ disk' = Written(d, m, {}) /\ acked' = acked \cup ToSet(b)
      /\ seenSince' = SinceBatch(b, n, n)
  BY DEF Accept
<1>4. ToSet(b) = BatchEvents(b, n)
  BY BatchIs DEF ToSet, BatchEvents
<1> HIDE DEF m, d, n
<1>5. DiskTyped(disk') /\ disk'.survivors = {m} /\ disk'.journal = d.journal \cup {}
  <2>1. {} \in SUBSET Events
    OBVIOUS
  <2>2. /\ DiskTyped(Written(d, m, {}))
        /\ Written(d, m, {}).survivors = {m}
        /\ Written(d, m, {}).journal = d.journal \cup {}
    BY <1>2, <2>1, NothingCommitted
  <2> QED BY <1>3, <2>2
<1>6. Sound(disk'.survivors \cup {mem'}, disk'.journal, seenSince', acked')
  <2>1. disk'.survivors \cup {mem'} = {m} /\ disk'.journal = d.journal
    BY <1>3, <1>5
  <2> QED BY <1>2, <1>3, <1>4, <2>1
<1>7. acked' \subseteq Events
  BY <1>6 DEF Sound
<1> QED BY <1>2, <1>3, <1>5, <1>6, <1>7 DEF EventInv

\* A failed commit leaves the states it may have written beside the one it forgets.
LEMMA AcceptFailsSound ==
    ASSUME EventInv, NEW b \in Batches, AcceptFails(b)
    PROVE  /\ EventInv'
           /\ mem'.enrollment = mem.enrollment
           /\ \A s \in disk'.survivors :
                 s \in disk.survivors \/ s.enrollment = mem.enrollment
<1>1. PICK n \in 0..Len(b) :
          LET last == IF n < Len(b) THEN n + 1 ELSE n
              es == FreshEvents(b, last) \ FreshEvents(b, n)
          IN  /\ n < Len(b) => n + 1 \in Fresh(b, n + 1)
              /\ mem' = After(b, n)
              /\ disk' \in FailedWrites(Committed(b, n), After(b, last), es)
              /\ seenSince' = SinceBatch(b, n, last)
  BY DEF AcceptFails, Remaining
<1> DEFINE m == After(b, n)
           d == Committed(b, n)
           since == SinceBatch(b, n, n)
<1>2. /\ DiskTyped(d) /\ m \in States /\ m.enrollment = mem.enrollment
      /\ Sound(d.survivors \cup {m}, d.journal, since, acked)
      /\ \A s \in d.survivors : s \in disk.survivors \/ s.enrollment = mem.enrollment
  <2>1. Prefix(b, n)
    BY EveryPrefix
  <2>2. Fresh(b, n) = {} => d = disk
    BY DEF Committed
  <2> QED BY <2>1, <2>2 DEF Prefix
<1>3. acked' = acked /\ mem' = m
  BY <1>1 DEF AcceptFails
<1>4. CASE n < Len(b)
  <2> DEFINE f == b[n + 1]
             c == Count(m, f)
             es == FreshEvents(b, n + 1) \ FreshEvents(b, n)
  <2>1. n \in 0..(Len(b) - 1) /\ n + 1 \in Fresh(b, n + 1)
    BY <1>1, <1>4, BatchIs
  <2>2. f \in Events /\ After(b, n + 1) = c /\ f \notin ToSet(m.seen)
    BY <2>1, NextEvent
  <2>3. es = {f} /\ SinceBatch(b, n, n + 1) = SinceFailed(since, f)
    BY <2>1, NextSince
  <2>4. disk' \in FailedWrites(d, c, {f}) /\ seenSince' = SinceFailed(since, f)
    BY <1>1, <1>4, <2>2, <2>3
  <2> HIDE DEF m, d, since, f, es
  <2>5. /\ Sound((d.survivors \cup {m}) \cup {c}, d.journal \cup {f}, SinceFailed(since, f), acked)
        /\ Sound(d.survivors \cup {m}, d.journal, SinceFailed(since, f), acked)
        /\ c.enrollment = m.enrollment
    <3> DEFINE states == d.survivors \cup {m}
    <3>1. m \in states /\ Sound(states, d.journal, since, acked)
      BY <1>2
    <3> HIDE DEF states
    <3>2. /\ Sound(states \cup {Count(m, f)}, d.journal \cup {f}, SinceFailed(since, f), acked)
          /\ Sound(states, d.journal, SinceFailed(since, f), acked)
          /\ Count(m, f).enrollment = m.enrollment
      BY <2>2, <3>1, FailSound
    <3> QED BY <3>2 DEF states
  <2> HIDE DEF c
  <2>6. c \in States
    BY <2>5 DEF Sound, StateTyped
  <2>7. /\ DiskTyped(disk') /\ disk'.survivors \subseteq d.survivors \cup {c}
        /\ d.journal \subseteq disk'.journal
        /\ disk'.survivors \subseteq d.survivors \/ disk'.journal = d.journal \cup {f}
    BY <1>2, <2>2, <2>4, <2>6, CommitWrites
  <2>8. Sound(disk'.survivors \cup {m}, disk'.journal, SinceFailed(since, f), acked)
    <3>1. CASE disk'.survivors \subseteq d.survivors
      <4>1. disk'.survivors \cup {m} \in SUBSET (d.survivors \cup {m})
        BY <3>1
      <4> QED BY <2>5, <2>7, <4>1, SoundLess
    <3>2. CASE disk'.journal = d.journal \cup {f}
      <4>1. disk'.survivors \cup {m} \in SUBSET ((d.survivors \cup {m}) \cup {c})
        BY <2>7
      <4> QED BY <2>5, <3>2, <4>1, SoundLess
    <3> QED BY <2>7, <3>1, <3>2
  <2>9. EventInv'
    BY <1>2, <1>3, <2>4, <2>7, <2>8 DEF EventInv
  <2> QED BY <1>2, <1>3, <2>5, <2>7, <2>9
<1>5. CASE n = Len(b)
  <2>1. disk' \in FailedWrites(d, m, {}) /\ seenSince' = since
    <3>1. ~(n < Len(b))
      BY <1>5, BatchIs
    <3>2. /\ disk' \in FailedWrites(d, m, FreshEvents(b, n) \ FreshEvents(b, n))
          /\ seenSince' = since
      BY <1>1, <3>1
    <3>3. FreshEvents(b, n) \ FreshEvents(b, n) = {}
      OBVIOUS
    <3> QED BY <3>2, <3>3
  <2> HIDE DEF m, d, since
  <2>2. /\ DiskTyped(disk') /\ disk'.survivors \subseteq d.survivors \cup {m}
        /\ d.journal \subseteq disk'.journal
    BY <1>2, <2>1, CommitWrites
  <2>3. Sound(disk'.survivors \cup {m}, disk'.journal, since, acked)
    <3>1. disk'.survivors \cup {m} \in SUBSET (d.survivors \cup {m})
      BY <2>2
    <3> QED BY <1>2, <2>2, <3>1, SoundLess
  <2>4. EventInv'
    BY <1>2, <1>3, <2>1, <2>2, <2>3 DEF EventInv
  <2> QED BY <1>2, <1>3, <2>2, <2>4
<1>6. n < Len(b) \/ n = Len(b)
  BY BatchIs
<1> QED BY <1>4, <1>5, <1>6

-----------------------------------------------------------------------------
(* The handler of the server *)

Answers == [intent : Server!Intent, outcome : Server!Outcomes \cup {"none"}]

\* A request that got past the audit holds its lock.
ServerTyped ==
    /\ task \in [Servers -> Server!Task]
    /\ \A s \in Servers : task[s].pc # "idle" => task[s].id \in RequestIds
    /\ \A s \in Servers : holder = s <=> task[s].pc \in {"intended", "executed"}
    /\ audit \in Seq(Server!Record) /\ synced \in 0..Len(audit)
    /\ subscribed \in BOOLEAN /\ commands \in Seq(Server!Command)
    /\ told \in [RequestIds -> SUBSET Answers]
    /\ accepted \in [Servers -> 0..MaxRevision]

\* A step of the handler on a server.
HandlerStep(s) == ServerNext(s) \/ ServerKilled(s)

LEMMA BoundsTyped ==
    /\ NoRequestId \notin RequestIds /\ NoServer \notin Servers
    /\ AuditLimit \in Nat /\ MaxRevision \in Nat /\ MaxResets \in Nat /\ MaxFailures \in Nat
    /\ 0 \in 0..MaxRevision
    /\ Server!Idle \in Server!Task /\ Server!Idle.pc = "idle"
BY ObserverAssumption DEF Server!Idle, Server!Task, Server!NoIntent, Server!Intent, Server!Recovery

\* The records a handler appends.
LEMMA RecordsTyped ==
    ASSUME ServerTyped, NEW s \in Servers, task[s].pc # "idle"
    PROVE  /\ Server!IntentRecord(task[s].id, task[s].intent, 1) \in Server!Record
           /\ Server!Completion(Server!IntentRecord(task[s].id, task[s].intent, task[s].started),
                                task[s].outcome) \in Server!Record
           /\ [id |-> task[s].id, intent |-> task[s].intent, started |-> 0] \in Server!Command
           /\ [intent |-> task[s].intent, outcome |-> task[s].outcome] \in Answers
<1>1. task[s] \in Server!Task /\ task[s].id \in RequestIds
  BY DEF ServerTyped
<1>2. /\ task[s].intent \in Server!Intent /\ task[s].started \in Nat
      /\ task[s].outcome \in Server!Outcomes \cup {"none"}
  BY <1>1 DEF Server!Task
<1> QED BY <1>1, <1>2
        DEF Server!IntentRecord, Server!Completion, Server!Record, Server!Command, Answers

\* An append, done or failed, leaves the records that were there.
RecordsStay ==
    /\ audit' \in Seq(Server!Record) /\ synced' \in 0..Len(audit')
    /\ synced <= synced' /\ Len(audit) <= Len(audit')
    /\ \A i \in 1..Len(audit) : audit'[i] = audit[i]

LEMMA AppendsTyped ==
    ASSUME ServerTyped, NEW r \in Server!Record,
           Server!AppendAuditRecord(r) \/ Server!AppendFails(r)
    PROVE  /\ RecordsStay
           /\ Server!AppendAuditRecord(r) =>
                 Len(audit') = Len(audit) + 1 /\ audit'[Len(audit) + 1] = r /\ synced' = Len(audit')
<1>1. audit \in Seq(Server!Record) /\ synced \in 0..Len(audit) /\ Len(audit) \in Nat
  BY DEF ServerTyped
<1>2. /\ Append(audit, r) \in Seq(Server!Record) /\ Len(Append(audit, r)) = Len(audit) + 1
      /\ Append(audit, r)[Len(audit) + 1] = r
      /\ \A i \in 1..Len(audit) : Append(audit, r)[i] = audit[i]
  BY <1>1
<1>3. CASE Server!AppendAuditRecord(r)
  <2>1. audit' = Append(audit, r) /\ synced' = Len(audit')
    BY <1>3 DEF Server!AppendAuditRecord
  <2> QED BY <1>1, <1>2, <2>1 DEF RecordsStay
<1>4. CASE Server!AppendFails(r) /\ ~Server!AppendAuditRecord(r)
  <2>1. synced' = synced /\ (audit' = audit \/ audit' = Append(audit, r))
    BY <1>4 DEF Server!AppendFails, Server!file
  <2> QED BY <1>1, <1>2, <1>4, <2>1 DEF RecordsStay
<1> QED BY <1>3, <1>4

\* What a step of the handler does, whichever it is: it goes on with its request or ends
\* it, and a call that waits for it gets its answer then.
Handled(s) ==
    /\ \A t \in Servers \ {s} : task'[t] = task[t]
    /\ task[s].pc # "idle" /\ task'[s].pc # "inspected"
    /\ task'[s].pc # "idle" => task'[s].id = task[s].id
    /\ commands' = commands
       \/ /\ task[s].pc = "intended"
          /\ commands' = Append(commands, [id |-> task[s].id, intent |-> task[s].intent, started |-> 0])
    /\ \A id \in RequestIds : told[id] \subseteq told'[id]
    /\ \/ tick' = tick /\ (tick.server = s => task'[s].pc # "idle")
       \/ /\ tick.server = s
          /\ \E configured \in BOOLEAN :
                /\ Answered(configured)
                /\ configured => told'[task[s].id] # {}

\* What it does to the subscription and the audit: a creation is prepared for a new
\* request only, once its intent is on record, and an outcome is told from its record.
Registered(s) ==
    /\ RecordsStay
    /\ task'[s].pc = "intended" =>
          /\ task[s].pc = "inspected" /\ ~task[s].existing /\ Server!NewRequest(task[s].id)
          /\ \E i \in 1..Len(audit') : audit'[i].id = task[s].id
    /\ subscribed' = subscribed \/ task[s].pc = "intended"
    /\ told' = told
       \/ /\ task[s].pc = "executed"
          /\ \A id \in RequestIds \ {task[s].id} : told'[id] = told[id]
          /\ \E i \in 1..synced' : audit'[i].id = task[s].id
    /\ Len(commands') > Len(commands) => task[s].pc = "intended"

\* A task that goes on.
LEMMA TaskGoesOn ==
    ASSUME ServerTyped, NEW s \in Servers,
           task' \in {[task EXCEPT ![s].pc = "executed", ![s].outcome = "done"],
                     [task EXCEPT ![s].pc = "intended"]}
    PROVE  /\ task' \in [Servers -> Server!Task] /\ task'[s].id = task[s].id
           /\ task'[s].pc \in {"intended", "executed"}
           /\ \A t \in Servers \ {s} : task'[t] = task[t]
<1>1. task \in [Servers -> Server!Task] /\ task[s] \in Server!Task
  BY DEF ServerTyped
<1>2. CASE task' = [task EXCEPT ![s].pc = "executed", ![s].outcome = "done"]
  <2> DEFINE next == [task[s] EXCEPT !.pc = "executed", !.outcome = "done"]
  <2>1. next \in Server!Task /\ next.id = task[s].id /\ next.pc = "executed"
    BY <1>1 DEF Server!Task, Server!Outcomes
  <2>2. task' = [task EXCEPT ![s] = next]
    BY <1>1, <1>2
  <2> HIDE DEF next
  <2> QED BY <1>1, <2>1, <2>2
<1>3. CASE task' = [task EXCEPT ![s].pc = "intended"]
  <2> DEFINE next == [task[s] EXCEPT !.pc = "intended"]
  <2>1. next \in Server!Task /\ next.id = task[s].id /\ next.pc = "intended"
    BY <1>1 DEF Server!Task
  <2>2. task' = [task EXCEPT ![s] = next]
    BY <1>1, <1>3
  <2> HIDE DEF next
  <2> QED BY <1>1, <2>1, <2>2
<1> QED BY <1>2, <1>3

\* A request that ends without an outcome.
LEMMA RequestEnds ==
    ASSUME ServerTyped, NEW s \in Servers, task[s].pc # "idle", RecordsStay,
           task' = [task EXCEPT ![s] = Server!Idle],
           (task[s].pc = "inspected" /\ holder' = holder) \/ (holder' = NoServer /\ holder = s),
           UNCHANGED <<commands, told, subscribed>>, ToCaller(s, FALSE)
    PROVE  ServerTyped' /\ Handled(s) /\ Registered(s)
<1>1. /\ task \in [Servers -> Server!Task] /\ accepted \in [Servers -> 0..MaxRevision]
      /\ \A t \in Servers : task[t].pc # "idle" => task[t].id \in RequestIds
      /\ \A t \in Servers : holder = t <=> task[t].pc \in {"intended", "executed"}
      /\ commands \in Seq(Server!Command) /\ told \in [RequestIds -> SUBSET Answers]
      /\ subscribed \in BOOLEAN
  BY DEF ServerTyped
<1>2. /\ task' \in [Servers -> Server!Task] /\ task'[s].pc = "idle"
      /\ \A t \in Servers \ {s} : task'[t] = task[t]
  BY <1>1, BoundsTyped
<1>3. \A t \in Servers : holder' = t <=> task'[t].pc \in {"intended", "executed"}
  BY <1>1, <1>2, BoundsTyped
<1>4. accepted' \in [Servers -> 0..MaxRevision]
  BY <1>1, BoundsTyped DEF ToCaller
<1>5. ServerTyped'
  BY <1>1, <1>2, <1>3, <1>4 DEF ServerTyped, RecordsStay
<1>6. (tick' = tick /\ tick.server # s) \/ (tick.server = s /\ Answered(FALSE))
  BY DEF ToCaller
<1>7. Handled(s)
  BY <1>2, <1>6 DEF Handled
<1>8. Registered(s)
  <2>1. ~(Len(commands') > Len(commands))
    BY <1>1
  <2> QED BY <1>2, <2>1 DEF Registered
<1> QED BY <1>5, <1>7, <1>8

LEMMA HandlerTyped ==
    ASSUME ServerTyped, NEW s \in Servers, HandlerStep(s)
    PROVE  /\ ServerTyped' /\ Handled(s) /\ Registered(s)
           /\ failures' = failures \/ Fault
           /\ UNCHANGED <<revision, mem, disk, eventVars, resets>>
<1>0. /\ task \in [Servers -> Server!Task] /\ task[s] \in Server!Task
      /\ audit \in Seq(Server!Record) /\ synced \in 0..Len(audit) /\ Len(audit) \in Nat
      /\ commands \in Seq(Server!Command) /\ told \in [RequestIds -> SUBSET Answers]
      /\ accepted \in [Servers -> 0..MaxRevision] /\ subscribed \in BOOLEAN
      /\ \A t \in Servers : task[t].pc # "idle" => task[t].id \in RequestIds
      /\ \A t \in Servers : holder = t <=> task[t].pc \in {"intended", "executed"}
  BY DEF ServerTyped
<1>1. ASSUME audit' = audit, synced' = synced
      PROVE  RecordsStay
  BY <1>0, <1>1 DEF RecordsStay
<1>2. ASSUME Server!PushAdmit(s), UNCHANGED <<accepted, tick>>
      PROVE  ServerTyped' /\ Handled(s) /\ Registered(s)
  <2> DEFINE r == Server!IntentRecord(task[s].id, task[s].intent, 1)
  <2>1. /\ task[s].pc = "inspected" /\ Server!AuditReadable /\ Server!NewRequest(task[s].id)
        /\ Server!AppendAuditRecord(r) /\ holder' = s
        /\ UNCHANGED <<commands, told, subscribed>>
        /\ task' = IF task[s].existing
                   THEN [task EXCEPT ![s].pc = "executed", ![s].outcome = "done"]
                   ELSE [task EXCEPT ![s].pc = "intended"]
    BY <1>2 DEF Server!PushAdmit, Server!Reconciling
  <2>2. r \in Server!Record /\ r.id = task[s].id
    BY <2>1, RecordsTyped DEF Server!IntentRecord
  <2>3. RecordsStay /\ \E i \in 1..Len(audit') : audit'[i].id = task[s].id
    <3> HIDE DEF r
    <3>1. RecordsStay /\ Len(audit') = Len(audit) + 1 /\ audit'[Len(audit) + 1] = r
      BY <2>1, <2>2, AppendsTyped
    <3> QED BY <1>0, <2>2, <3>1
  <2>4. /\ task' \in [Servers -> Server!Task] /\ task'[s].id = task[s].id
        /\ task'[s].pc \in {"intended", "executed"}
        /\ \A t \in Servers \ {s} : task'[t] = task[t]
    BY <2>1, TaskGoesOn
  <2>5. holder = NoServer
    BY <2>1 DEF Server!AuditReadable
  <2>6. task'[s].pc = "intended" => ~task[s].existing
    BY <1>0, <2>1
  <2>7. ServerTyped'
    BY <1>0, <1>2, <2>1, <2>3, <2>4, <2>5, BoundsTyped DEF ServerTyped, RecordsStay
  <2>8. Handled(s)
    BY <1>2, <2>1, <2>4 DEF Handled
  <2>9. Registered(s)
    BY <1>0, <2>1, <2>3, <2>6 DEF Registered
  <2> QED BY <2>7, <2>8, <2>9
<1>3. ASSUME Server!PushAgain(s), UNCHANGED <<accepted, tick>>
      PROVE  ServerTyped' /\ Handled(s) /\ Registered(s)
  <2>1. /\ task[s].pc = "inspected" /\ Server!AuditReadable /\ holder' = s
        /\ UNCHANGED <<audit, synced, commands, told, subscribed>>
        /\ task' = [task EXCEPT ![s].pc = "executed", ![s].outcome = "done"]
    BY <1>3 DEF Server!PushAgain, Server!Reconciling, Server!file
  <2>2. RecordsStay
    BY <1>1, <2>1
  <2>3. /\ task' \in [Servers -> Server!Task] /\ task'[s].id = task[s].id
        /\ \A t \in Servers \ {s} : task'[t] = task[t]
    BY <2>1, TaskGoesOn
  <2>4. task'[s].pc = "executed"
    BY <1>0, <2>1
  <2>5. holder = NoServer
    BY <2>1 DEF Server!AuditReadable
  <2>6. ServerTyped'
    BY <1>0, <1>3, <2>1, <2>2, <2>3, <2>4, <2>5, BoundsTyped DEF ServerTyped, RecordsStay
  <2>7. Handled(s)
    BY <1>3, <2>1, <2>3, <2>4 DEF Handled
  <2>8. Registered(s)
    BY <1>0, <2>1, <2>2, <2>4 DEF Registered
  <2> QED BY <2>6, <2>7, <2>8
<1>4. ASSUME Server!PushNotRecorded(s), ToCaller(s, FALSE)
      PROVE  ServerTyped' /\ Handled(s) /\ Registered(s)
  <2>1. /\ task[s].pc = "inspected" /\ holder' = holder
        /\ UNCHANGED <<commands, told, subscribed>>
        /\ Server!AppendFails(Server!IntentRecord(task[s].id, task[s].intent, 1))
        /\ task' = [task EXCEPT ![s] = Server!Idle]
    BY <1>4 DEF Server!PushNotRecorded
  <2>2. RecordsStay
    BY <2>1, RecordsTyped, AppendsTyped
  <2>3. /\ task[s].pc # "idle" /\ ToCaller(s, FALSE)
        /\ (task[s].pc = "inspected" /\ holder' = holder) \/ (holder' = NoServer /\ holder = s)
    BY <1>4, <2>1
  <2> QED BY <2>1, <2>2, <2>3, RequestEnds
<1>5. ASSUME Server!PushRefused(s), ToCaller(s, FALSE)
      PROVE  ServerTyped' /\ Handled(s) /\ Registered(s)
  <2>1. /\ task[s].pc = "inspected" /\ holder' = holder
        /\ UNCHANGED <<audit, synced, commands, told, subscribed>>
        /\ task' = [task EXCEPT ![s] = Server!Idle]
    BY <1>5 DEF Server!PushRefused, Server!file
  <2>2. RecordsStay
    BY <1>1, <2>1
  <2>3. /\ task[s].pc # "idle" /\ ToCaller(s, FALSE)
        /\ (task[s].pc = "inspected" /\ holder' = holder) \/ (holder' = NoServer /\ holder = s)
    BY <1>5, <2>1
  <2> QED BY <2>1, <2>2, <2>3, RequestEnds
<1>6. ASSUME Server!Post(s),
             IF task'[s].pc = "executed" THEN UNCHANGED <<accepted, tick>>
             ELSE ToCaller(s, FALSE)
      PROVE  ServerTyped' /\ Handled(s) /\ Registered(s)
  <2> DEFINE c == [id |-> task[s].id, intent |-> task[s].intent, started |-> 0]
  <2>1. /\ task[s].pc = "intended" /\ commands' = Append(commands, c) /\ told' = told
        /\ audit' = audit /\ synced' = synced /\ subscribed' \in {subscribed, TRUE}
        /\ \/ /\ task' = [task EXCEPT ![s].pc = "executed", ![s].outcome = "done"]
              /\ holder' = holder
           \/ task' = [task EXCEPT ![s] = Server!Idle] /\ holder' = NoServer
    BY <1>6 DEF Server!Post, Server!Released, Server!file
  <2>2. c \in Server!Command
    BY <2>1, RecordsTyped
  <2>3. commands' \in Seq(Server!Command)
    <3> HIDE DEF c
    <3> QED BY <1>0, <2>1, <2>2
  <2>4. /\ task' \in [Servers -> Server!Task] /\ \A t \in Servers \ {s} : task'[t] = task[t]
        /\ \/ task'[s].id = task[s].id /\ task'[s].pc = "executed" /\ holder' = holder
           \/ task'[s].pc = "idle" /\ holder' = NoServer
    <3>1. CASE task' = [task EXCEPT ![s].pc = "executed", ![s].outcome = "done"] /\ holder' = holder
      <4>1. /\ task' \in [Servers -> Server!Task] /\ task'[s].id = task[s].id
            /\ \A t \in Servers \ {s} : task'[t] = task[t]
        BY <3>1, TaskGoesOn
      <4>2. task'[s].pc = "executed"
        BY <1>0, <3>1
      <4> QED BY <3>1, <4>1, <4>2
    <3>2. CASE task' = [task EXCEPT ![s] = Server!Idle] /\ holder' = NoServer
      BY <1>0, <3>2, BoundsTyped
    <3> QED BY <2>1, <3>1, <3>2
  <2>5. accepted' \in [Servers -> 0..MaxRevision]
    BY <1>0, <1>6, BoundsTyped DEF ToCaller
  <2>6. \A t \in Servers : holder' = t <=> task'[t].pc \in {"intended", "executed"}
    BY <1>0, <2>1, <2>4, BoundsTyped
  <2>7. ServerTyped'
    BY <1>0, <2>1, <2>3, <2>4, <2>5, <2>6 DEF ServerTyped
  <2>8. \/ tick' = tick /\ (tick.server = s => task'[s].pc # "idle")
        \/ tick.server = s /\ Answered(FALSE)
    BY <1>6, <2>4 DEF ToCaller
  <2>9. Handled(s)
    BY <2>1, <2>4, <2>8 DEF Handled
  <2>10. Registered(s)
    BY <1>1, <2>1, <2>4 DEF Registered
  <2> QED BY <2>7, <2>9, <2>10
<1>7. ASSUME Server!Complete(s), ToCaller(s, TRUE)
      PROVE  ServerTyped' /\ Handled(s) /\ Registered(s)
  <2> DEFINE a == [intent |-> task[s].intent, outcome |-> task[s].outcome]
             r == Server!Completion(Server!IntentRecord(task[s].id, task[s].intent, task[s].started),
                                    task[s].outcome)
  <2>1. /\ task[s].pc = "executed" /\ commands' = commands /\ subscribed' = subscribed
        /\ told' = [told EXCEPT ![task[s].id] = @ \cup {a}]
        /\ Server!AppendAuditRecord(r)
        /\ task' = [task EXCEPT ![s] = Server!Idle] /\ holder' = NoServer
    BY <1>7 DEF Server!Complete, Server!Released
  <2>2. r \in Server!Record /\ r.id = task[s].id /\ task[s].id \in RequestIds /\ a \in Answers
    BY <1>0, <2>1, RecordsTyped DEF Server!IntentRecord, Server!Completion
  <2>3. RecordsStay /\ \E i \in 1..synced' : audit'[i].id = task[s].id
    <3> HIDE DEF r
    <3>1. /\ RecordsStay /\ Len(audit') = Len(audit) + 1 /\ audit'[Len(audit) + 1] = r
          /\ synced' = Len(audit')
      BY <2>1, <2>2, AppendsTyped
    <3> QED BY <1>0, <2>2, <3>1
  <2>4. /\ told' \in [RequestIds -> SUBSET Answers] /\ told'[task[s].id] # {}
        /\ \A id \in RequestIds : told[id] \subseteq told'[id]
        /\ \A id \in RequestIds \ {task[s].id} : told'[id] = told[id]
    <3> HIDE DEF a
    <3> QED BY <1>0, <2>1, <2>2
  <2>5. /\ task' \in [Servers -> Server!Task] /\ task'[s].pc = "idle"
        /\ \A t \in Servers \ {s} : task'[t] = task[t]
    BY <1>0, <2>1, BoundsTyped
  <2>6. accepted' \in [Servers -> 0..MaxRevision]
    BY <1>0, <1>7, BoundsTyped DEF ToCaller
  <2>7. \A t \in Servers : holder' = t <=> task'[t].pc \in {"intended", "executed"}
    BY <1>0, <2>1, <2>5, BoundsTyped
  <2>8. ServerTyped'
    BY <1>0, <2>1, <2>3, <2>4, <2>5, <2>6, <2>7 DEF ServerTyped, RecordsStay
  <2>9. (tick' = tick /\ tick.server # s) \/ (tick.server = s /\ Answered(TRUE))
    BY <1>7 DEF ToCaller
  <2>10. Handled(s)
    BY <2>1, <2>4, <2>5, <2>9 DEF Handled
  <2>11. Registered(s)
    BY <1>0, <2>1, <2>3, <2>4, <2>5 DEF Registered
  <2> QED BY <2>8, <2>10, <2>11
<1>8. ASSUME Server!CompletionNotRecorded(s), ToCaller(s, FALSE)
      PROVE  ServerTyped' /\ Handled(s) /\ Registered(s)
  <2>1. /\ task[s].pc = "executed" /\ UNCHANGED <<commands, told, subscribed>>
        /\ Server!AppendFails(
              Server!Completion(Server!IntentRecord(task[s].id, task[s].intent, task[s].started),
                                task[s].outcome))
        /\ task' = [task EXCEPT ![s] = Server!Idle] /\ holder' = NoServer
    BY <1>8 DEF Server!CompletionNotRecorded, Server!Released
  <2>2. RecordsStay
    BY <2>1, RecordsTyped, AppendsTyped
  <2> QED BY <1>0, <1>8, <2>1, <2>2, RequestEnds
<1>9. ASSUME Server!Abandon(s), ToCaller(s, FALSE)
      PROVE  ServerTyped' /\ Handled(s) /\ Registered(s)
  <2>1. /\ holder = s /\ UNCHANGED <<audit, synced, commands, told, subscribed>>
        /\ task' = [task EXCEPT ![s] = Server!Idle] /\ holder' = NoServer
    BY <1>9 DEF Server!Abandon, Server!Released, Server!file
  <2> QED BY <1>0, <1>1, <1>9, <2>1, RequestEnds
<1>10. CASE ServerStep(s)
  BY <1>2, <1>3, <1>4, <1>5, <1>6, <1>7, <1>8, <1>10 DEF ServerStep
<1>11. CASE InventoryChanged(s)
  BY <1>9, <1>11 DEF InventoryChanged
<1>12. CASE ServerKilled(s)
  BY <1>9, <1>12 DEF ServerKilled
<1> QED BY <1>10, <1>11, <1>12 DEF HandlerStep, ServerNext

-----------------------------------------------------------------------------
(* The inductive invariant *)

\* The states that may be in memory after a crash of either program.
Readable == disk.survivors \cup {mem}

\* The requests that were sent to the controller or are worked on.
Live == {commands[i].id : i \in 1..Len(commands)}
            \cup {task[s].id : s \in {t \in Servers : task[t].pc # "idle"}}

ObserverTyped ==
    /\ revision \in 0..MaxRevision /\ tick \in Tick
    /\ resets \in 0..MaxResets /\ failures \in 0..MaxFailures

\* The call that is waited for is the one of the enrolment in memory, and the answer that
\* came is the one the server gave.
Calling ==
    /\ tick.pc = "calling" =>
          /\ tick.server \in Servers /\ task[tick.server].pc # "idle"
          /\ task[tick.server].id = mem.enrollment.id
    /\ tick.pc # "calling" => tick.server = NoServer
    /\ tick.pc = "answered" /\ tick.configured => told[mem.enrollment.id] # {}

\* Nothing is asked of the server before its intent is all that may be read from disk.
Enrolling ==
    tick.pc \in {"enrolling", "calling", "answered"} =>
        /\ Uncertain(mem.enrollment)
        /\ \A s \in disk.survivors : s.enrollment = mem.enrollment

Enrolled == \A s \in Readable : Uncertain(s.enrollment) => s.enrollment.id \in RequestIds

\* A request that got no answer is the enrolment of every state that may be read, already
\* while it is worked on; so there is only one.
Remembered ==
    \A id \in Live :
        told[id] = {} => \A s \in Readable : s.enrollment.id = id /\ Uncertain(s.enrollment)

\* What a client was told is on record for good.
Recorded == \A id \in RequestIds : told[id] # {} => \E i \in 1..synced : audit[i].id = id

\* A creation that is about to be sent, or may still be, meets no subscription.
Prepared(s) ==
    /\ task[s].pc = "intended" =>
          ~subscribed /\ told[task[s].id] = {} /\ ~Server!NewRequest(task[s].id)
    /\ task[s].pc = "inspected" /\ ~task[s].existing /\ Server!NewRequest(task[s].id) =>
          ~subscribed

Preparing == \A s \in Servers : Prepared(s)

ServerInv == ServerTyped /\ Recorded /\ Preparing

ObserverInv ==
    /\ ObserverTyped /\ ServerInv /\ EventInv
    /\ Calling /\ Enrolling /\ Enrolled /\ Remembered

LEMMA InitInv == Init => ObserverInv
<1> SUFFICES ASSUME Init PROVE ObserverInv
  OBVIOUS
<1>1. /\ audit = <<>> /\ synced = 0 /\ holder = NoServer
      /\ task = [s \in Servers |-> Server!Idle] /\ subscribed = FALSE /\ commands = <<>>
      /\ told = [id \in RequestIds |-> {}] /\ accepted = [s \in Servers |-> 0]
      /\ revision = 0 /\ tick = Down /\ resets = 0 /\ failures = 0
      /\ mem = DefaultState /\ seenSince = [e \in Events |-> {}] /\ acked = {}
      /\ disk = [state |-> DefaultState, survivors |-> {DefaultState}, journal |-> {}]
  BY DEF Init
<1>2. /\ \A s \in Servers : task[s] = Server!Idle /\ task[s].pc = "idle" /\ holder # s
      /\ task \in [Servers -> Server!Task]
  BY <1>1, BoundsTyped
<1>3. ServerTyped
  <2>1. Len(audit) = 0 /\ audit \in Seq(Server!Record) /\ commands \in Seq(Server!Command)
    BY <1>1
  <2>2. told \in [RequestIds -> SUBSET Answers] /\ accepted \in [Servers -> 0..MaxRevision]
    BY <1>1, BoundsTyped
  <2>3. synced \in 0..Len(audit)
    BY <1>1, <2>1
  <2>4. subscribed \in BOOLEAN
    BY <1>1, Zenon
  <2> QED BY <1>2, <2>1, <2>2, <2>3, <2>4 DEF ServerTyped
<1>4. Recorded /\ Preparing
  BY <1>1, <1>2 DEF Recorded, Preparing, Prepared
<1>5. ObserverTyped
  BY <1>1, BoundsTyped DEF ObserverTyped, Tick, Down
<1>6. DefaultState \in States /\ DefaultState.seen = <<>> /\ DefaultState.enrollment.phase = "none"
  <2>1. <<>> \in SeenSeqs
    <3>1. <<>> \in Seq(Events) /\ Len(<<>>) = 0 /\ DOMAIN <<>> = {}
      OBVIOUS
    <3> QED BY <3>1, ObserverAssumption DEF SeenSeqs, IsInjective
  <2> QED BY <2>1, BoundsTyped DEF DefaultState, States, NoEnrollment, Enrollment, Phases
<1>7. EventInv
  <2>1. ToSet(<<>>) = {} /\ Len(<<>>) = 0
    BY DEF ToSet
  <2>2. SinceTyped(seenSince)
    BY <1>1, FS_EmptySet DEF SinceTyped
  <2>3. Ordered(<<>>, seenSince)
    BY <2>1 DEF Ordered
  <2>4. Sound({DefaultState}, {}, seenSince, {})
    BY <1>6, <2>1, <2>2, <2>3 DEF Sound, StateTyped
  <2>5. DiskTyped(disk) /\ disk.survivors = {DefaultState} /\ disk.journal = {}
    BY <1>1, <1>6 DEF DiskTyped
  <2> QED BY <1>1, <1>6, <2>4, <2>5 DEF EventInv
<1>8. Readable = {DefaultState} /\ Live = {} /\ tick.pc = "down" /\ tick.server = NoServer
  BY <1>1, <1>2 DEF Readable, Live, Down
<1>9. Calling /\ Enrolling /\ Enrolled /\ Remembered
  BY <1>6, <1>8 DEF Calling, Enrolling, Enrolled, Remembered, Uncertain
<1> QED BY <1>3, <1>4, <1>5, <1>7, <1>9 DEF ObserverInv, ServerInv

-----------------------------------------------------------------------------
(* Steps that leave the server alone *)

LEMMA ServerStays ==
    ASSUME ServerInv, UNCHANGED serverVars
    PROVE  ServerInv' /\ Live' = Live /\ told' = told /\ task' = task
<1>1. /\ audit' = audit /\ synced' = synced /\ holder' = holder /\ task' = task
      /\ subscribed' = subscribed /\ commands' = commands /\ told' = told
      /\ accepted' = accepted
  BY DEF serverVars
<1>2. ServerTyped'
  BY <1>1 DEF ServerInv, ServerTyped
<1>3. Recorded'
  BY <1>1 DEF ServerInv, Recorded
<1>5. Preparing'
  BY <1>1 DEF ServerInv, Preparing, Prepared, Server!NewRequest
<1>6. Live' = Live
  BY <1>1 DEF Live
<1> QED BY <1>1, <1>2, <1>3, <1>5, <1>6 DEF ServerInv

\* A commit that keeps the enrolment.
LEMMA EnrollmentStays ==
    ASSUME ObserverInv, UNCHANGED serverVars, mem'.enrollment = mem.enrollment,
           \A s \in disk'.survivors : s \in disk.survivors \/ s.enrollment = mem.enrollment
    PROVE  /\ Enrolled' /\ Remembered'
           /\ tick' = tick => Calling' /\ Enrolling'
<1>1. \A s \in Readable' : \E r \in Readable : s.enrollment = r.enrollment
  BY DEF Readable
<1>2. Live' = Live /\ told' = told /\ task' = task
  BY ServerStays DEF ObserverInv
<1>3. Enrolled' /\ Remembered'
  BY <1>1, <1>2 DEF ObserverInv, Enrolled, Remembered
<1>4. tick' = tick => Calling' /\ Enrolling'
  BY <1>2 DEF ObserverInv, Calling, Enrolling
<1> QED BY <1>3, <1>4

\* A restart reads a state that may have survived.
LEMMA RestartKeeps ==
    ASSUME ObserverInv, UNCHANGED serverVars, mem' \in disk.survivors,
           disk'.survivors \subseteq disk.survivors
    PROVE  Enrolled' /\ Remembered'
<1>1. Readable' \subseteq Readable
  BY DEF Readable
<1>2. Live' = Live /\ told' = told
  BY ServerStays DEF ObserverInv
<1> QED BY <1>1, <1>2 DEF ObserverInv, Enrolled, Remembered

\* The observer waits for no call.
LEMMA Waitless ==
    ASSUME tick' \in {Sleeping, Down}
    PROVE  Calling' /\ Enrolling' /\ tick' \in Tick
<1>1. \/ tick' = [pc |-> "idle", revision |-> 0, server |-> NoServer, configured |-> FALSE]
      \/ tick' = [pc |-> "down", revision |-> 0, server |-> NoServer, configured |-> FALSE]
  BY DEF Sleeping, Down
<1>2. /\ tick'.pc \in {"idle", "down"} /\ tick'.server = NoServer /\ tick' \in Tick
  <2>1. CASE tick' = [pc |-> "idle", revision |-> 0, server |-> NoServer, configured |-> FALSE]
    BY <2>1, BoundsTyped DEF Tick
  <2>2. CASE tick' = [pc |-> "down", revision |-> 0, server |-> NoServer, configured |-> FALSE]
    BY <2>2, BoundsTyped DEF Tick
  <2> QED BY <1>1, <2>1, <2>2
<1> QED BY <1>2 DEF Calling, Enrolling

LEMMA FaultTyped ==
    ASSUME ObserverTyped, failures' = failures \/ Fault
    PROVE  failures' \in 0..MaxFailures
BY BoundsTyped DEF ObserverTyped, Fault

LEMMA EventsStay ==
    ASSUME EventInv, UNCHANGED <<mem, disk, eventVars>>
    PROVE  EventInv'
BY DEF EventInv, eventVars

LEMMA IdleSteps ==
    ASSUME ObserverInv, Start \/ Begin \/ ChangeInventory
    PROVE  ObserverInv'
<1>1. UNCHANGED <<serverVars, mem, disk, eventVars, resets, failures>>
  BY DEF Start, Begin, ChangeInventory
<1>2. ServerInv' /\ EventInv'
  BY <1>1, ServerStays, EventsStay DEF ObserverInv
<1>3. Enrolled' /\ Remembered' /\ (tick' = tick => Calling' /\ Enrolling')
  BY <1>1, EnrollmentStays
<1>4. ObserverTyped /\ Calling
  BY DEF ObserverInv
<1>5. CASE Start
  <2>1. tick' = Sleeping /\ revision' = revision
    BY <1>5 DEF Start
  <2>2. Calling' /\ Enrolling' /\ tick' \in Tick
    BY <2>1, Waitless
  <2> QED BY <1>1, <1>2, <1>3, <1>4, <2>1, <2>2 DEF ObserverInv, ObserverTyped
<1>6. CASE Begin
  <2>1. /\ tick.pc = "idle" /\ revision' = revision
        /\ tick' = [tick EXCEPT !.pc = "collecting", !.revision = revision]
    BY <1>6 DEF Begin
  <2>2. tick' \in Tick /\ tick'.pc = "collecting" /\ tick'.server = tick.server
    BY <1>4, <2>1 DEF ObserverTyped, Tick
  <2>3. Calling' /\ Enrolling'
    BY <1>4, <2>1, <2>2 DEF Calling, Enrolling
  <2> QED BY <1>1, <1>2, <1>3, <1>4, <2>1, <2>2, <2>3 DEF ObserverInv, ObserverTyped
<1>7. CASE ChangeInventory
  <2>1. tick' = tick /\ revision' \in 0..MaxRevision
    BY <1>4, <1>7, BoundsTyped DEF ChangeInventory, ObserverTyped
  <2> QED BY <1>1, <1>2, <1>3, <1>4, <2>1 DEF ObserverInv, ObserverTyped
<1> QED BY <1>5, <1>6, <1>7

LEMMA GapStep ==
    ASSUME ObserverInv, Gap
    PROVE  ObserverInv'
<1>1. /\ disk' \in {Written(disk, mem, {})} \cup FailedWrites(disk, mem, {})
      /\ tick' = Sleeping /\ Fault
      /\ UNCHANGED <<serverVars, revision, mem, eventVars, resets>>
  BY DEF Gap
<1>2. ObserverTyped /\ EventInv /\ ServerInv
  BY DEF ObserverInv
<1>3. /\ DiskTyped(disk') /\ disk'.survivors \subseteq disk.survivors \cup {mem}
      /\ Sound(disk'.survivors \cup {mem}, disk'.journal, seenSince, acked)
  <2>1. mem \in States
    BY <1>2 DEF EventInv
  <2> QED BY <1>1, <1>2, <2>1, OtherCommit
<1>4. EventInv'
  BY <1>1, <1>2, <1>3 DEF EventInv, eventVars
<1>5. Enrolled' /\ Remembered'
  BY <1>1, <1>3, EnrollmentStays
<1>6. Calling' /\ Enrolling' /\ tick' \in Tick
  BY <1>1, Waitless
<1>7. ServerInv' /\ failures' \in 0..MaxFailures
  BY <1>1, <1>2, ServerStays, FaultTyped
<1> QED BY <1>1, <1>2, <1>4, <1>5, <1>6, <1>7 DEF ObserverInv, ObserverTyped

\* While a request without an answer is remembered, no other enrolment may be drawn.
LEMMA ObserveStep ==
    ASSUME ObserverInv, NEW e \in Enrollments, Observe(e)
    PROVE  ObserverInv'
<1>1. /\ tick.pc = "collecting" /\ mem' = [mem EXCEPT !.enrollment = e]
      /\ disk' \in {Written(disk, mem', {})} \cup FailedWrites(disk, mem', {})
      /\ \/ /\ disk' = Written(disk, mem', {}) /\ Uncertain(e)
            /\ tick' = [tick EXCEPT !.pc = "enrolling"]
         \/ tick' = Sleeping
      /\ failures' = failures \/ Fault
      /\ UNCHANGED <<serverVars, revision, eventVars, resets>>
  BY DEF Observe
<1>2. ObserverTyped /\ EventInv /\ ServerInv /\ Calling /\ Enrolled /\ Remembered
  BY DEF ObserverInv
<1>3. e \in Enrollment /\ (Uncertain(e) => e.id \in RequestIds)
  <2>1. mem.enrollment \in Enrollment
    BY <1>2 DEF EventInv, States
  <2>2. Uncertain(mem.enrollment) => mem.enrollment.id \in RequestIds
    BY <1>2 DEF Enrolled, Readable
  <2>3. tick.revision \in 0..MaxRevision
    BY <1>2 DEF ObserverTyped, Tick
  <2>4. \A x \in NewEnrollments : x \in Enrollment /\ x.id \in RequestIds
    BY <2>3 DEF NewEnrollments, Enrollment, Phases
  <2> QED BY <2>1, <2>2, <2>4 DEF Enrollments
<1>4. Uncertain(mem.enrollment) => e = mem.enrollment
  BY DEF Enrollments, Uncertain
<1>5. mem' \in States /\ mem'.seen = mem.seen /\ mem'.enrollment = e
  BY <1>1, <1>2, <1>3 DEF EventInv, States
<1>6. /\ DiskTyped(disk') /\ disk'.survivors \subseteq disk.survivors \cup {mem'}
      /\ Sound(disk'.survivors \cup {mem'}, disk'.journal, seenSince, acked)
  BY <1>1, <1>2, <1>5, OtherCommit
<1>7. EventInv'
  BY <1>1, <1>2, <1>5, <1>6 DEF EventInv, eventVars
<1>8. ServerInv' /\ Live' = Live /\ told' = told /\ task' = task /\ failures' \in 0..MaxFailures
  BY <1>1, <1>2, ServerStays, FaultTyped
<1>9. Readable' \subseteq Readable \cup {mem'}
  BY <1>6 DEF Readable
<1>10. Enrolled'
  BY <1>2, <1>3, <1>5, <1>9 DEF Enrolled
<1>11. Remembered'
  <2> SUFFICES ASSUME NEW id \in Live, told[id] = {}, NEW s \in Readable'
               PROVE  s.enrollment.id = id /\ Uncertain(s.enrollment)
    BY <1>8 DEF Remembered
  <2>1. \A r \in Readable : r.enrollment.id = id /\ Uncertain(r.enrollment)
    BY <1>2 DEF Remembered
  <2>2. mem.enrollment.id = id /\ Uncertain(mem.enrollment)
    BY <2>1 DEF Readable
  <2> QED BY <1>4, <1>5, <1>9, <2>1, <2>2
<1>12. Calling' /\ Enrolling' /\ tick' \in Tick
  <2>1. CASE tick' = Sleeping
    BY <2>1, Waitless
  <2>2. CASE /\ disk' = Written(disk, mem', {}) /\ Uncertain(e)
             /\ tick' = [tick EXCEPT !.pc = "enrolling"]
    <3>1. tick' \in Tick /\ tick'.pc = "enrolling" /\ tick'.server = tick.server
      BY <1>2, <2>2 DEF ObserverTyped, Tick
    <3>2. disk'.survivors = {mem'}
      BY <2>2 DEF Written
    <3>3. Calling'
      BY <1>1, <1>2, <3>1 DEF Calling
    <3> QED BY <1>5, <2>2, <3>1, <3>2, <3>3 DEF Enrolling
  <2> QED BY <1>1, <2>1, <2>2
<1> QED BY <1>1, <1>2, <1>7, <1>8, <1>10, <1>11, <1>12 DEF ObserverInv, ObserverTyped

\* The request that is asked for is the enrolment of every state that may be read.
LEMMA AskStep ==
    ASSUME ObserverInv, NEW s \in Servers, Ask(s)
    PROVE  ObserverInv'
<1>1. PICK x \in Server!Requested : Server!Inspect(s, mem.enrollment.id, x)
  BY DEF Ask
<1>2. /\ tick.pc = "enrolling" /\ accepted' = [accepted EXCEPT ![s] = revision]
      /\ tick' = [tick EXCEPT !.pc = "calling", !.server = s]
      /\ UNCHANGED <<revision, mem, disk, eventVars, resets, failures>>
  BY DEF Ask
<1>3. /\ ObserverTyped /\ EventInv /\ ServerTyped /\ Recorded /\ Preparing
      /\ Calling /\ Enrolling /\ Enrolled /\ Remembered
  BY DEF ObserverInv, ServerInv
<1> DEFINE next == [Server!Idle EXCEPT !.pc = "inspected", !.id = mem.enrollment.id,
                                       !.intent = x, !.existing = subscribed]
<1>4. /\ task[s] = Server!Idle /\ task' = [task EXCEPT ![s] = next]
      /\ UNCHANGED <<audit, synced, holder, subscribed, commands, told>>
  BY <1>1 DEF Server!Inspect, Server!file
<1>5. /\ Uncertain(mem.enrollment) /\ mem.enrollment.id \in RequestIds
      /\ \A r \in Readable : r.enrollment = mem.enrollment
  BY <1>2, <1>3 DEF Enrolling, Enrolled, Readable
<1>6. /\ next.pc = "inspected" /\ next.id = mem.enrollment.id /\ next.existing = subscribed
  BY DEF Server!Idle
<1>7. task \in [Servers -> Server!Task]
  BY <1>3 DEF ServerTyped
<1>8. /\ task'[s].pc = "inspected" /\ task'[s].id = mem.enrollment.id
      /\ task'[s].existing = subscribed
      /\ \A t \in Servers \ {s} : task'[t] = task[t]
  <2> HIDE DEF next
  <2> QED BY <1>4, <1>6, <1>7
<1>9. task' \in [Servers -> Server!Task]
  <2>1. x \in Server!Intent
    BY DEF Server!Requested
  <2>2. subscribed \in BOOLEAN
    BY <1>3 DEF ServerTyped
  <2> QED BY <1>4, <1>5, <1>7, <2>1, <2>2, BoundsTyped DEF Server!Idle, Server!Task
<1>10. ServerTyped'
  BY <1>2, <1>3, <1>4, <1>5, <1>8, <1>9, BoundsTyped DEF ServerTyped, ObserverTyped
<1>11. Recorded' /\ Preparing'
  <2> HIDE DEF next
  <2>1. Recorded'
    BY <1>3, <1>4 DEF Recorded
  <2>2. ASSUME NEW t \in Servers
        PROVE  Prepared(t)'
    <3>1. CASE t = s
      BY <1>4, <1>8, <3>1 DEF Prepared
    <3>2. CASE t # s
      <4>1. task'[t] = task[t] /\ Prepared(t)
        BY <1>3, <1>8, <3>2 DEF Preparing
      <4> QED BY <1>4, <4>1 DEF Prepared, Server!NewRequest
    <3> QED BY <3>1, <3>2
  <2> QED BY <2>1, <2>2 DEF Preparing
<1>12. Live' \subseteq Live \cup {mem.enrollment.id}
  <2> HIDE DEF next
  <2> QED BY <1>4, <1>8 DEF Live
<1>13. Readable' = Readable
  BY <1>2 DEF Readable
<1>14. Remembered' /\ Enrolled'
  <2>1. Enrolled'
    BY <1>3, <1>13 DEF Enrolled
  <2>2. ASSUME NEW id \in Live', told[id] = {}, NEW r \in Readable
        PROVE  r.enrollment.id = id /\ Uncertain(r.enrollment)
    <3>1. CASE id \in Live
      BY <1>3, <2>2, <3>1 DEF Remembered
    <3>2. CASE id = mem.enrollment.id
      BY <1>5, <3>2
    <3> QED BY <1>12, <3>1, <3>2
  <2> QED BY <1>4, <1>13, <2>1, <2>2 DEF Remembered
<1>15. tick' \in Tick /\ tick'.pc = "calling" /\ tick'.server = s
  BY <1>2, <1>3 DEF ObserverTyped, Tick
<1>16. Calling' /\ Enrolling'
  <2> HIDE DEF next
  <2>1. Calling'
    BY <1>2, <1>8, <1>15 DEF Calling
  <2> QED BY <1>2, <1>3, <2>1 DEF Enrolling
<1>17. EventInv'
  BY <1>2, <1>3, EventsStay
<1> QED BY <1>2, <1>3, <1>10, <1>11, <1>14, <1>15, <1>16, <1>17
        DEF ObserverInv, ServerInv, ObserverTyped

LEMMA NoAnswerStep ==
    ASSUME ObserverInv, AskFails \/ Deadline
    PROVE  ObserverInv'
<1>1. /\ tick.pc \in {"enrolling", "calling"} /\ Answered(FALSE)
      /\ failures' = failures \/ Fault
      /\ UNCHANGED <<serverVars, revision, mem, disk, eventVars, resets>>
  BY DEF AskFails, Deadline
<1>2. ObserverTyped /\ ServerInv /\ EventInv /\ Enrolling
  BY DEF ObserverInv
<1>3. /\ tick' \in Tick /\ tick'.pc = "answered" /\ tick'.server = NoServer
      /\ tick'.configured = FALSE
  BY <1>1, <1>2 DEF ObserverTyped, Tick, Answered
<1>4. Calling' /\ Enrolling'
  BY <1>1, <1>2, <1>3 DEF Calling, Enrolling
<1>5. Enrolled' /\ Remembered'
  BY <1>1, EnrollmentStays
<1>6. ServerInv' /\ EventInv' /\ failures' \in 0..MaxFailures
  BY <1>1, <1>2, ServerStays, EventsStay, FaultTyped
<1> QED BY <1>1, <1>2, <1>3, <1>4, <1>5, <1>6 DEF ObserverInv, ObserverTyped

\* A request that is known to be configured was answered: none is left without.
LEMMA ConcludeStep ==
    ASSUME ObserverInv, Conclude
    PROVE  ObserverInv'
<1>1. /\ tick.pc = "answered" /\ mem' = [mem EXCEPT !.enrollment = Concluded]
      /\ disk' \in {Written(disk, mem', {})} \cup FailedWrites(disk, mem', {})
      /\ tick' = Sleeping /\ (failures' = failures \/ Fault)
      /\ UNCHANGED <<serverVars, revision, eventVars, resets>>
  BY DEF Conclude
<1>2. /\ ObserverTyped /\ EventInv /\ ServerInv
      /\ Calling /\ Enrolling /\ Enrolled /\ Remembered
  BY DEF ObserverInv
<1>3. /\ Concluded \in Enrollment /\ Concluded.id = mem.enrollment.id
      /\ Concluded.id \in RequestIds
      /\ Uncertain(Concluded) \/ tick.configured
  <2>1. mem.enrollment \in Enrollment
    BY <1>2 DEF EventInv, States
  <2>2. Uncertain(mem.enrollment) /\ mem.enrollment.id \in RequestIds
    BY <1>1, <1>2 DEF Enrolling, Enrolled, Readable
  <2> QED BY <2>1, <2>2 DEF Concluded, Enrollment, Phases, Uncertain
<1>4. mem' \in States /\ mem'.seen = mem.seen /\ mem'.enrollment = Concluded
  <2>1. mem \in States
    BY <1>2 DEF EventInv
  <2> HIDE DEF Concluded
  <2> QED BY <1>1, <1>3, <2>1 DEF States
<1>5. /\ DiskTyped(disk') /\ disk'.survivors \subseteq disk.survivors \cup {mem'}
      /\ Sound(disk'.survivors \cup {mem'}, disk'.journal, seenSince, acked)
  BY <1>1, <1>2, <1>4, OtherCommit
<1>6. EventInv'
  BY <1>1, <1>2, <1>4, <1>5 DEF EventInv, eventVars
<1>7. ServerInv' /\ Live' = Live /\ told' = told /\ failures' \in 0..MaxFailures
  BY <1>1, <1>2, ServerStays, FaultTyped
<1>8. Readable' \subseteq Readable \cup {mem'}
  BY <1>5 DEF Readable
<1>9. Enrolled'
  BY <1>2, <1>3, <1>4, <1>8 DEF Enrolled
<1>10. Remembered'
  <2> SUFFICES ASSUME NEW id \in Live, told[id] = {}, NEW s \in Readable'
               PROVE  s.enrollment.id = id /\ Uncertain(s.enrollment)
    BY <1>7 DEF Remembered
  <2>1. \A r \in Readable : r.enrollment.id = id /\ Uncertain(r.enrollment)
    BY <1>2 DEF Remembered
  <2>2. mem.enrollment.id = id
    BY <2>1 DEF Readable
  <2>3. Uncertain(Concluded)
    BY <1>1, <1>2, <1>3, <2>2 DEF Calling
  <2> QED BY <1>3, <1>4, <1>8, <2>1, <2>2, <2>3
<1>11. Calling' /\ Enrolling' /\ tick' \in Tick
  BY <1>1, Waitless
<1> QED BY <1>1, <1>2, <1>6, <1>7, <1>9, <1>10, <1>11 DEF ObserverInv, ObserverTyped

-----------------------------------------------------------------------------
(* Steps of the server *)

\* A request that was not recorded was not answered.
LEMMA NewIsUntold ==
    ASSUME ServerInv, NEW id \in RequestIds, Server!NewRequest(id)
    PROVE  told[id] = {}
<1>1. \A i \in 1..synced : i \in 1..Len(audit)
  BY DEF ServerInv, ServerTyped
<1> QED BY <1>1 DEF ServerInv, Recorded, Server!NewRequest

\* Two requests without an answer that may both reach the controller are one.
LEMMA UntoldIsOne ==
    ASSUME ObserverInv, NEW t \in Servers, NEW s \in Servers,
           task[t].pc # "idle", task[s].pc # "idle",
           told[task[t].id] = {}, told[task[s].id] = {}
    PROVE  task[t].id = task[s].id
<1>1. task[t].id \in Live /\ task[s].id \in Live
  BY DEF Live
<1>2. mem.enrollment.id = task[t].id /\ mem.enrollment.id = task[s].id
  BY <1>1 DEF ObserverInv, Remembered, Readable
<1> QED BY <1>2

LEMMA HandlerRegisters ==
    ASSUME ObserverInv, NEW s \in Servers, Handled(s), Registered(s)
    PROVE  Recorded' /\ Preparing'
<1>1. ServerInv /\ ServerTyped /\ Recorded /\ Preparing
  BY DEF ObserverInv, ServerInv
<1>2. /\ audit \in Seq(Server!Record) /\ synced \in 0..Len(audit) /\ Len(audit) \in Nat
      /\ \A t \in Servers : task[t].pc # "idle" => task[t].id \in RequestIds
      /\ \A t \in Servers : holder = t <=> task[t].pc \in {"intended", "executed"}
  BY <1>1 DEF ServerTyped
<1>3. /\ synced' \in 0..Len(audit') /\ Len(audit') \in Nat
      /\ synced <= synced' /\ Len(audit) <= Len(audit')
      /\ \A i \in 1..Len(audit) : audit'[i] = audit[i]
  BY DEF Registered, RecordsStay
<1>4. Recorded'
  <2> SUFFICES ASSUME NEW id \in RequestIds, told'[id] # {}
               PROVE  \E i \in 1..synced' : audit'[i].id = id
    BY DEF Recorded
  <2>1. CASE told'[id] = told[id]
    <3>1. PICK i \in 1..synced : audit[i].id = id
      BY <1>1, <2>1 DEF Recorded
    <3>2. i \in 1..Len(audit) /\ i \in 1..synced'
      BY <1>2, <1>3
    <3> QED BY <1>3, <3>1, <3>2
  <2>2. CASE told'[id] # told[id]
    BY <2>2 DEF Registered
  <2> QED BY <2>1, <2>2
<1>5. ASSUME NEW t \in Servers, t # s
      PROVE  Prepared(t)'
  <2>1. task'[t] = task[t] /\ Prepared(t)
    BY <1>1, <1>5 DEF Handled, Preparing
  <2>2. Server!NewRequest(task[t].id)' => Server!NewRequest(task[t].id)
    <3>1. (~Server!NewRequest(task[t].id)) =>
             \E i \in 1..Len(audit') : audit'[i].id = task[t].id
      <4> SUFFICES ASSUME ~Server!NewRequest(task[t].id)
                   PROVE  \E i \in 1..Len(audit') : audit'[i].id = task[t].id
        OBVIOUS
      <4>1. PICK i \in 1..Len(audit) : audit[i].id = task[t].id
        BY DEF Server!NewRequest
      <4> QED BY <1>2, <1>3, <4>1
    <3> QED BY <2>1, <3>1 DEF Server!NewRequest
  <2>3. CASE task[t].pc = "intended"
    <3>1. task[s].pc \notin {"intended", "executed"}
      BY <1>2, <1>5, <2>3
    <3>2. subscribed' = subscribed /\ told' = told
      BY <3>1 DEF Registered
    <3> QED BY <2>1, <2>2, <2>3, <3>2 DEF Prepared
  <2>4. CASE /\ task[t].pc = "inspected" /\ ~task[t].existing
             /\ Server!NewRequest(task[t].id)'
    <3>1. Server!NewRequest(task[t].id) /\ ~subscribed
      BY <2>1, <2>2, <2>4 DEF Prepared
    <3>2. task[s].pc # "intended"
      <4> SUFFICES ASSUME task[s].pc = "intended" PROVE FALSE
        OBVIOUS
      <4>1. told[task[s].id] = {} /\ ~Server!NewRequest(task[s].id)
        BY <1>1 DEF Preparing, Prepared
      <4>2. told[task[t].id] = {}
        BY <1>1, <1>2, <2>4, <3>1, NewIsUntold
      <4>3. task[t].id = task[s].id
        BY <2>4, <4>1, <4>2, UntoldIsOne
      <4> QED BY <3>1, <4>1, <4>3
    <3>3. subscribed' = subscribed
      BY <3>2 DEF Registered
    <3> QED BY <2>1, <2>4, <3>1, <3>3 DEF Prepared
  <2> QED BY <2>1, <2>3, <2>4 DEF Prepared
<1>6. Prepared(s)'
  <2>1. CASE task'[s].pc = "intended"
    <3>1. /\ task[s].pc = "inspected" /\ ~task[s].existing /\ Server!NewRequest(task[s].id)
          /\ \E i \in 1..Len(audit') : audit'[i].id = task[s].id
          /\ subscribed' = subscribed /\ told' = told
      BY <2>1 DEF Registered
    <3>2. ~subscribed
      BY <1>1, <3>1 DEF Preparing, Prepared
    <3>3. told[task[s].id] = {}
      BY <1>1, <1>2, <3>1, NewIsUntold
    <3>4. task'[s].id = task[s].id
      BY <2>1 DEF Handled
    <3> QED BY <2>1, <3>1, <3>2, <3>3, <3>4 DEF Prepared, Server!NewRequest
  <2>2. CASE task'[s].pc # "intended"
    BY <2>2 DEF Handled, Prepared
  <2> QED BY <2>1, <2>2
<1> QED BY <1>4, <1>5, <1>6 DEF Preparing

\* Every request that may reach the controller has an identifier of its own.
LEMMA LiveTyped ==
    ASSUME ServerTyped
    PROVE  Live \subseteq RequestIds
<1>1. \A i \in 1..Len(commands) : commands[i].id \in RequestIds
  <2> SUFFICES ASSUME NEW i \in 1..Len(commands) PROVE commands[i].id \in RequestIds
    OBVIOUS
  <2>1. commands[i] \in Server!Command
    BY DEF ServerTyped
  <2> QED BY <2>1 DEF Server!Command
<1> QED BY <1>1 DEF ServerTyped, Live

LEMMA HandlerInv ==
    ASSUME ObserverInv, NEW s \in Servers, HandlerStep(s)
    PROVE  ObserverInv'
<1>1. /\ ObserverTyped /\ ServerInv /\ ServerTyped /\ EventInv
      /\ Calling /\ Enrolling /\ Enrolled /\ Remembered
  BY DEF ObserverInv, ServerInv
<1>2. /\ ServerTyped' /\ Handled(s) /\ Registered(s)
      /\ failures' = failures \/ Fault
      /\ UNCHANGED <<revision, mem, disk, eventVars, resets>>
  BY <1>1, HandlerTyped
<1>3. ServerInv' /\ EventInv' /\ failures' \in 0..MaxFailures
  BY <1>1, <1>2, HandlerRegisters, EventsStay, FaultTyped DEF ServerInv
<1>4. Readable' = Readable
  BY <1>2 DEF Readable
<1>5. Live' \subseteq Live
  <2>1. \A t \in Servers : task'[t].pc # "idle" => task[t].pc # "idle" /\ task'[t].id = task[t].id
    BY <1>2 DEF Handled
  <2>2. \A i \in 1..Len(commands') : commands'[i].id \in Live
    <3>1. CASE commands' = commands
      BY <3>1 DEF Live
    <3>2. CASE commands' # commands
      <4> DEFINE c == [id |-> task[s].id, intent |-> task[s].intent, started |-> 0]
      <4>1. commands' = Append(commands, c) /\ task[s].pc = "intended"
        BY <1>2, <3>2 DEF Handled
      <4>2. c.id \in Live
        BY <4>1 DEF Live
      <4> HIDE DEF c
      <4>3. commands \in Seq(Server!Command)
        BY <1>1 DEF ServerTyped
      <4>4. /\ Len(commands') = Len(commands) + 1 /\ commands'[Len(commands) + 1] = c
            /\ \A i \in 1..Len(commands) : commands'[i] = commands[i]
        BY <4>1, <4>3
      <4>5. \A i \in 1..Len(commands) : commands[i].id \in Live
        BY DEF Live
      <4>6. ASSUME NEW i \in 1..Len(commands') PROVE commands'[i].id \in Live
        <5>1. i = Len(commands) + 1 \/ i \in 1..Len(commands)
          BY <4>3, <4>4
        <5> QED BY <4>2, <4>4, <4>5, <5>1
      <4> QED BY <4>6
    <3> QED BY <3>1, <3>2
  <2>3. \A t \in Servers : task[t].pc # "idle" => task[t].id \in Live
    BY DEF Live
  <2> QED BY <2>1, <2>2, <2>3 DEF Live
<1>6. Enrolled' /\ Remembered'
  <2>1. Live \subseteq RequestIds
    BY <1>1, LiveTyped
  <2>2. \A id \in Live : told'[id] = {} => told[id] = {}
    BY <1>2, <2>1 DEF Handled
  <2> QED BY <1>1, <1>4, <1>5, <2>2 DEF Enrolled, Remembered
<1>7. Calling' /\ Enrolling' /\ tick' \in Tick
  <2>1. tick \in Tick
    BY <1>1 DEF ObserverTyped
  <2>2. CASE tick' = tick /\ (tick.server = s => task'[s].pc # "idle")
    <3>1. Enrolling' /\ tick' \in Tick
      BY <1>1, <1>2, <2>1, <2>2 DEF Enrolling
    <3>2. tick.pc = "answered" => mem.enrollment.id \in RequestIds
      BY <1>1 DEF Enrolling, Enrolled, Readable
    <3>3. tick.pc = "answered" /\ tick.configured => told'[mem.enrollment.id] # {}
      BY <1>1, <1>2, <3>2 DEF Calling, Handled
    <3>4. tick.pc = "calling" =>
             /\ tick.server \in Servers /\ task'[tick.server].pc # "idle"
             /\ task'[tick.server].id = mem.enrollment.id
      BY <1>1, <1>2, <2>2 DEF Calling, Handled
    <3>5. tick.pc # "calling" => tick.server = NoServer
      BY <1>1 DEF Calling
    <3>6. Calling'
      BY <1>2, <2>2, <3>3, <3>4, <3>5 DEF Calling
    <3> QED BY <3>1, <3>6
  <2>3. CASE tick' # tick \/ (tick.server = s /\ task'[s].pc = "idle")
    <3>1. PICK configured \in BOOLEAN :
             /\ tick.server = s /\ Answered(configured)
             /\ configured => told'[task[s].id] # {}
      BY <1>2, <2>3 DEF Handled
    <3>2. tick.pc = "calling" /\ task[s].id = mem.enrollment.id
      BY <1>1, <3>1, BoundsTyped DEF Calling
    <3>3. /\ tick' \in Tick /\ tick'.pc = "answered" /\ tick'.server = NoServer
          /\ tick'.configured = configured
      BY <2>1, <3>1 DEF Tick, Answered
    <3>4. Calling'
      BY <1>2, <3>1, <3>2, <3>3 DEF Calling
    <3>5. Enrolling'
      BY <1>1, <1>2, <3>2 DEF Enrolling
    <3> QED BY <3>3, <3>4, <3>5
  <2> QED BY <2>2, <2>3
<1> QED BY <1>1, <1>2, <1>3, <1>6, <1>7 DEF ObserverInv, ObserverTyped

LEMMA ServerPowerLossStep ==
    ASSUME ObserverInv, ServerPowerLoss
    PROVE  ObserverInv'
<1>1. /\ ObserverTyped /\ ServerTyped /\ Recorded /\ EventInv
      /\ Calling /\ Enrolling /\ Enrolled /\ Remembered
  BY DEF ObserverInv, ServerInv
<1>2. /\ holder' = NoServer /\ task' = [t \in Servers |-> Server!Idle]
      /\ UNCHANGED <<subscribed, commands, told>>
      /\ accepted' = [t \in Servers |-> 0]
      /\ IF tick.pc = "calling" THEN Answered(FALSE) ELSE UNCHANGED tick
      /\ UNCHANGED <<revision, mem, disk, eventVars, resets>> /\ Fault
  BY DEF ServerPowerLoss, Server!PowerLoss
<1>3. /\ audit' \in Seq(Server!Record) /\ synced' \in 0..Len(audit') /\ synced <= synced'
      /\ \A i \in 1..synced : audit'[i] = audit[i]
  <2>1. PICK n \in synced..Len(audit) : audit' = SubSeq(audit, 1, n) /\ synced' = n
    BY DEF ServerPowerLoss, Server!PowerLoss
  <2>2. audit \in Seq(Server!Record) /\ Len(audit) \in Nat /\ synced \in 0..Len(audit)
    BY <1>1 DEF ServerTyped
  <2>3. /\ n \in 0..Len(audit) /\ audit' \in Seq(Server!Record) /\ Len(audit') = n
        /\ \A i \in 1..n : audit'[i] = audit[i]
    BY <2>1, <2>2
  <2> QED BY <2>1, <2>2, <2>3
<1>4. \A t \in Servers : task'[t] = Server!Idle /\ task'[t].pc = "idle"
  BY <1>2, BoundsTyped
<1>5. ServerTyped'
  <2>1. task' \in [Servers -> Server!Task] /\ accepted' \in [Servers -> 0..MaxRevision]
    BY <1>2, BoundsTyped
  <2> QED BY <1>1, <1>2, <1>3, <1>4, <2>1, BoundsTyped DEF ServerTyped
<1>6. Recorded' /\ Preparing'
  <2>1. Recorded'
    <3> SUFFICES ASSUME NEW id \in RequestIds, told[id] # {}
                 PROVE  \E i \in 1..synced' : audit'[i].id = id
      BY <1>2 DEF Recorded
    <3>1. PICK i \in 1..synced : audit[i].id = id
      BY <1>1 DEF Recorded
    <3>2. i \in 1..synced'
      BY <1>1, <1>3 DEF ServerTyped
    <3> QED BY <1>3, <3>1, <3>2
  <2> QED BY <1>4, <2>1 DEF Preparing, Prepared
<1>7. Readable' = Readable /\ Live' \subseteq Live
  BY <1>2, <1>4 DEF Readable, Live
<1>8. Enrolled' /\ Remembered'
  BY <1>1, <1>2, <1>7 DEF Enrolled, Remembered
<1>9. Calling' /\ Enrolling' /\ tick' \in Tick
  <2>1. CASE tick.pc = "calling"
    <3>1. /\ tick' \in Tick /\ tick'.pc = "answered" /\ tick'.server = NoServer
          /\ tick'.configured = FALSE
      BY <1>1, <1>2, <2>1 DEF ObserverTyped, Tick, Answered
    <3> QED BY <1>1, <1>2, <2>1, <3>1 DEF Calling, Enrolling
  <2>2. CASE tick.pc # "calling"
    BY <1>1, <1>2, <2>2 DEF ObserverTyped, Calling, Enrolling
  <2> QED BY <2>1, <2>2
<1>10. EventInv' /\ failures' \in 0..MaxFailures
  BY <1>1, <1>2, EventsStay, FaultTyped
<1> QED BY <1>1, <1>2, <1>5, <1>6, <1>8, <1>9, <1>10 DEF ObserverInv, ServerInv, ObserverTyped

-----------------------------------------------------------------------------
(* Events, and the end of the observer *)

LEMMA EventSteps ==
    ASSUME ObserverInv, NEW b \in Batches, Accept(b) \/ AcceptFails(b)
    PROVE  ObserverInv'
<1>1. ObserverTyped /\ ServerInv /\ EventInv
  BY DEF ObserverInv
<1>2. /\ UNCHANGED <<serverVars, revision, tick, resets>>
      /\ failures' = failures \/ Fault
  BY DEF Accept, AcceptFails
<1>3. /\ EventInv' /\ mem'.enrollment = mem.enrollment
      /\ \A s \in disk'.survivors : s \in disk.survivors \/ s.enrollment = mem.enrollment
  BY <1>1, AcceptSound, AcceptFailsSound
<1>4. Enrolled' /\ Remembered' /\ Calling' /\ Enrolling'
  BY <1>2, <1>3, EnrollmentStays
<1>5. ServerInv' /\ failures' \in 0..MaxFailures
  BY <1>1, <1>2, ServerStays, FaultTyped
<1> QED BY <1>1, <1>2, <1>3, <1>4, <1>5 DEF ObserverInv, ObserverTyped

LEMMA EndSteps ==
    ASSUME ObserverInv, Kill \/ PowerLoss
    PROVE  ObserverInv'
<1>1. ObserverTyped /\ ServerInv /\ EventInv
  BY DEF ObserverInv
<1>2. /\ UNCHANGED <<serverVars, revision, eventVars, resets>>
      /\ tick' = Down /\ Fault
  BY DEF Kill, PowerLoss
<1>3. DiskTyped(disk)
  BY <1>1 DEF EventInv
<1>4. /\ mem' \in disk.survivors /\ disk'.survivors \subseteq disk.survivors
      /\ DiskTyped(disk') /\ disk'.journal = disk.journal
  BY <1>3 DEF Kill, PowerLoss, DiskTyped
<1>5. EventInv'
  <2>1. disk'.survivors \cup {mem'} \in SUBSET (disk.survivors \cup {mem})
    BY <1>4
  <2>2. Sound(disk'.survivors \cup {mem'}, disk.journal, seenSince, acked)
    BY <1>1, <2>1, SoundLess DEF EventInv
  <2>3. mem' \in States
    BY <1>3, <1>4 DEF DiskTyped
  <2> QED BY <1>1, <1>2, <1>4, <2>2, <2>3 DEF EventInv, eventVars
<1>6. Enrolled' /\ Remembered'
  BY <1>2, <1>4, RestartKeeps
<1>7. Calling' /\ Enrolling' /\ tick' \in Tick
  BY <1>2, Waitless
<1>8. ServerInv' /\ failures' \in 0..MaxFailures
  BY <1>1, <1>2, ServerStays, FaultTyped
<1> QED BY <1>1, <1>2, <1>5, <1>6, <1>7, <1>8 DEF ObserverInv, ObserverTyped

LEMMA ResetStep ==
    ASSUME ObserverInv, Reset
    PROVE  ObserverInv'
<1>1. /\ subscribed' = FALSE /\ resets < MaxResets /\ resets' = resets + 1
      /\ UNCHANGED <<audit, synced, holder, task, commands, told, accepted,
                     revision, mem, disk, tick, eventVars, failures>>
  BY DEF Reset, Server!Reset, Server!file
<1>2. /\ ObserverTyped /\ ServerTyped /\ Recorded /\ EventInv
      /\ Calling /\ Enrolling /\ Enrolled /\ Remembered /\ Preparing
  BY DEF ObserverInv, ServerInv
<1>3. ServerTyped'
  <2>1. subscribed' \in BOOLEAN
    BY <1>1, Zenon
  <2> QED BY <1>1, <1>2, <2>1 DEF ServerTyped
<1>4. Recorded' /\ Preparing'
  <2>1. ~subscribed'
    BY <1>1
  <2> QED BY <1>1, <1>2, <2>1 DEF Recorded, Preparing, Prepared, Server!NewRequest
<1>5. Live' = Live /\ Readable' = Readable
  BY <1>1 DEF Live, Readable
<1>6. Calling' /\ Enrolling' /\ Enrolled' /\ Remembered'
  BY <1>1, <1>2, <1>5 DEF Calling, Enrolling, Enrolled, Remembered
<1>7. EventInv'
  BY <1>1, <1>2, EventsStay
<1>8. ObserverTyped'
  BY <1>1, <1>2, BoundsTyped DEF ObserverTyped
<1> QED BY <1>3, <1>4, <1>6, <1>7, <1>8 DEF ObserverInv, ServerInv

-----------------------------------------------------------------------------
(* The theorems *)

LEMMA NextInv == ObserverInv /\ [Next]_vars => ObserverInv'
<1> SUFFICES ASSUME ObserverInv, [Next]_vars PROVE ObserverInv'
  OBVIOUS
<1>1. CASE UNCHANGED vars
  <2>1. UNCHANGED <<serverVars, revision, mem, disk, tick, eventVars, resets, failures>>
    BY <1>1 DEF vars
  <2>2. ServerInv' /\ EventInv'
    BY <2>1, ServerStays, EventsStay DEF ObserverInv
  <2>3. Enrolled' /\ Remembered' /\ Calling' /\ Enrolling'
    BY <2>1, EnrollmentStays
  <2> QED BY <2>1, <2>2, <2>3 DEF ObserverInv, ObserverTyped
<1>2. CASE ObserverNext
  BY <1>2, IdleSteps, GapStep, ObserveStep, AskStep, NoAnswerStep, ConcludeStep DEF ObserverNext
<1>3. CASE \E s \in Servers : ServerNext(s) \/ ServerKilled(s)
  BY <1>3, HandlerInv DEF HandlerStep
<1>4. CASE ServerPowerLoss
  BY <1>4, ServerPowerLossStep
<1>5. CASE \E b \in Batches : Accept(b) \/ AcceptFails(b)
  BY <1>5, EventSteps
<1>6. CASE Kill \/ PowerLoss
  BY <1>6, EndSteps
<1>7. CASE ChangeInventory
  BY <1>7, IdleSteps
<1>8. CASE Reset
  BY <1>8, ResetStep
<1> QED BY <1>1, <1>2, <1>3, <1>4, <1>5, <1>6, <1>7, <1>8 DEF Next

\* Store::commit, reconcile, accept_events and handleEventSubscription together keep the
\* inductive invariant.
THEOREM ObserverSafe == Spec => []ObserverInv
BY InitInv, NextInv, PTL DEF Spec

\* The state of the observer has its type, state.json is one of the states that may
\* survive, and the window of events in memory keeps its bound without repetition.
THEOREM TypeCorrect == Spec => []TypeOK
<1>1. ObserverInv => TypeOK
  <2> SUFFICES ASSUME ObserverInv PROVE TypeOK
    OBVIOUS
  <2>1. ObserverTyped /\ ServerTyped /\ EventInv
    BY DEF ObserverInv, ServerInv
  <2>2. mem \in States /\ DiskTyped(disk) /\ acked \subseteq Events /\ SinceTyped(seenSince)
    BY <2>1 DEF EventInv, Sound
  <2>3. mem \in State /\ IsInjective(mem.seen) /\ States \subseteq State
    BY <2>2, StatesTyped DEF StateTyped
  <2>4. disk \in Disk /\ disk.state \in disk.survivors
    BY <2>2, <2>3 DEF DiskTyped, Disk
  <2> QED BY <2>1, <2>2, <2>3, <2>4 DEF TypeOK, ObserverTyped, ServerTyped, SinceTyped
<1> QED BY <1>1, ObserverSafe, PTL

\* A creation that was sent and not confirmed is the enrolment in memory and in every
\* state that may survive, whichever of the two programs crashed at whichever write.
THEOREM UncertainStaysRemembered == Spec => []UncertainIsRemembered
<1>1. ObserverInv => UncertainIsRemembered
  <2> SUFFICES ASSUME ObserverInv, NEW i \in 1..Len(commands), told[commands[i].id] = {},
                      NEW s \in disk.survivors \cup {mem}
               PROVE  s.enrollment.id = commands[i].id /\ Uncertain(s.enrollment)
    BY DEF UncertainIsRemembered
  <2>1. commands[i].id \in Live
    BY DEF Live
  <2> QED BY <2>1 DEF ObserverInv, Remembered, Readable
<1> QED BY <1>1, ObserverSafe, PTL

\* An event answered with 204 is in the journal, and in every state that may be read after
\* a crash until a window of other events was counted.
THEOREM AckedStaysDurable == Spec => []AckedIsDurable
<1>1. ObserverInv => AckedIsDurable
  <2> SUFFICES ASSUME ObserverInv, NEW e \in acked
               PROVE  /\ e \in disk.journal
                      /\ Cardinality(seenSince[e]) < Window =>
                            \A s \in disk.survivors \cup {mem} : e \in ToSet(s.seen)
    BY DEF AckedIsDurable
  <2>1. Sound(disk.survivors \cup {mem}, disk.journal, seenSince, acked)
    BY DEF ObserverInv, EventInv
  <2>2. e \in Events /\ e \in disk.journal /\ IsFiniteSet(seenSince[e])
    BY <2>1 DEF Sound, SinceTyped
  <2>3. \A s \in disk.survivors \cup {mem} : e \in ToSet(s.seen) \/ Passed(seenSince, e)
    BY <2>1 DEF Sound
  <2>4. Cardinality(seenSince[e]) \in Nat
    BY <2>2, FS_CardinalityType
  <2> QED BY <2>2, <2>3, <2>4, ObserverAssumption DEF Passed
<1> QED BY <1>1, ObserverSafe, PTL

\* No creation is sent to a controller that holds a subscription of this service, over any
\* crashes, lost answers and resets, by any number of servers.
THEOREM SubscriptionStaysAlone == Spec => NoSecondSubscription
<1>1. ObserverInv /\ [Next]_vars => [Len(commands') > Len(commands) => ~subscribed]_vars
  <2> SUFFICES ASSUME ObserverInv, Next, Len(commands') > Len(commands)
               PROVE  ~subscribed
    OBVIOUS
  <2>1. ServerTyped /\ Preparing
    BY DEF ObserverInv, ServerInv
  <2>2. commands' # commands
    BY <2>1 DEF ServerTyped
  <2>3. \E s \in Servers : HandlerStep(s)
    BY <2>2 DEF Next, ObserverNext, Start, Begin, Gap, Observe, Ask, AskFails, Deadline,
               Conclude, Accept, AcceptFails, Kill, PowerLoss, ChangeInventory, Reset,
               ServerPowerLoss, Server!PowerLoss, Server!Inspect, Server!Reset, serverVars,
               HandlerStep
  <2>4. PICK s \in Servers : HandlerStep(s)
    BY <2>3
  <2>5. task[s].pc = "intended"
    BY <2>1, <2>4, HandlerTyped DEF Registered
  <2> QED BY <2>1, <2>5 DEF Preparing, Prepared
<1> QED BY <1>1, ObserverSafe, PTL DEF Spec, NoSecondSubscription

-----------------------------------------------------------------------------
(* The server beside the observer *)

\* A step of the handler is one of ControllerActions.
LEMMA HandlerFollows ==
    ASSUME NEW s \in Servers, HandlerStep(s)
    PROVE  Server!Next
<1>1. CASE ServerStep(s)
  <2>1. Server!ServerNext(s)
    BY <1>1 DEF ServerStep, Server!ServerNext
  <2> QED BY <2>1 DEF Server!Next
<1>2. CASE InventoryChanged(s) \/ ServerKilled(s)
  <2>1. Server!ServerNext(s)
    BY <1>2 DEF InventoryChanged, ServerKilled, Server!ServerNext
  <2> QED BY <2>1 DEF Server!Next
<1> QED BY <1>1, <1>2 DEF HandlerStep, ServerNext

\* The observer asks with a request identifier.
LEMMA AskFollows ==
    ASSUME ObserverInv, NEW s \in Servers, Ask(s)
    PROVE  Server!Next
<1>1. mem.enrollment.id \in RequestIds
  BY DEF Ask, ObserverInv, Enrolling, Enrolled, Readable
<1>2. PICK x \in Server!Requested : Server!Inspect(s, mem.enrollment.id, x)
  BY DEF Ask
<1>3. Server!RequestNext(s, mem.enrollment.id, x)
  BY <1>2 DEF Server!RequestNext
<1> QED BY <1>1, <1>2, <1>3 DEF Server!Next

\* The parameters of the server are ones ControllerActions admits.
LEMMA ServerParameters == Server!ActionsAssumption
BY ObserverAssumption DEF Server!ActionsAssumption

\* Server and controller are those of ControllerActions beside the observer too: whatever
\* the two programs suffer, their side takes steps of that module only.
THEOREM ServerFollowed == Spec => Server!Spec
<1>1. Init => Server!Init
  BY DEF Init, Server!Init
<1>2. ObserverInv /\ [Next]_vars => [Server!Next]_(Server!vars)
  <2> SUFFICES ASSUME ObserverInv, [Next]_vars
               PROVE  Server!Next \/ UNCHANGED Server!vars
    OBVIOUS
  <2>1. CASE \E s \in Servers : HandlerStep(s)
    BY <2>1, HandlerFollows
  <2>2. CASE \E s \in Servers : Ask(s)
    BY <2>2, AskFollows
  <2>3. CASE ServerPowerLoss
    BY <2>3 DEF ServerPowerLoss, Server!Next
  <2>4. CASE Reset
    BY <2>4 DEF Reset, Server!Next
  <2>5. CASE UNCHANGED serverVars
    BY <2>5 DEF serverVars, Server!vars, Server!file
  <2>6. \/ \E s \in Servers : HandlerStep(s)
        \/ \E s \in Servers : Ask(s)
        \/ ServerPowerLoss \/ Reset
        \/ UNCHANGED serverVars
    BY DEF Next, vars, HandlerStep, ObserverNext, Start, Begin, Gap, Observe, AskFails,
           Deadline, Conclude, Accept, AcceptFails, Kill, PowerLoss, ChangeInventory
  <2> QED BY <2>1, <2>2, <2>3, <2>4, <2>5, <2>6
<1> QED BY <1>1, <1>2, ObserverSafe, PTL DEF Spec, Server!Spec
=============================================================================
