------------------------- MODULE PatternEngineProofs -------------------------
(***************************************************************************)
(* Proofs about PatternEngine, for any number of threads, patterns,        *)
(* targets and edits, any contents of the files, and any two windows.      *)
(***************************************************************************)
EXTENDS PatternEngine, FiniteSetTheorems, SequenceTheorems, TLAPS

Steps == {"list", "stat", "load", "read", "open", "patterns", "mtimes", "select", "arm", "running"}

Times == [Patterns -> Nat]

Records ==
    [step : Steps, target : Targets, todo : SUBSET Patterns, times : Times, reads : Times,
     pick : Patterns \cup {None}, as : Nat, armed : Patterns \cup {None},
     seen : Times, since : BOOLEAN, blind : BOOLEAN]

Types ==
    /\ overlap \in BOOLEAN /\ late \in BOOLEAN
    /\ log \in [Patterns -> Seq(Bodies)]
    /\ loaded \in Times /\ mtimes \in Times
    /\ \A p \in Patterns :
          1 <= Len(log[p]) /\ loaded[p] <= Len(log[p]) /\ mtimes[p] <= Len(log[p])
    /\ arms \in [Patterns -> [Targets -> Seq(0..Day)]]
    /\ ledger \in [Patterns -> [Targets -> Seq(0..Day)]]
    /\ failures \in [Patterns -> [Targets -> 0..MaxThreshold]]
    /\ disabled \in [Patterns -> [Targets -> Nat]]
    /\ thread \in [Threads -> {Idle} \cup Records]

\* Contents a pattern may be armed with, by a match that began after the date
\* or before.
Allowed(b, after) ==
    /\ b \notin {Absent, Rejected}
    /\ b.low /\ b.signed /\ b.approved /\ (after => ~b.expires)

\* What a thread knows of a file never is of the future; the contents it read
\* are no older than the time it took before them, nor than its match.
Sound(r) ==
    /\ \A p \in Patterns :
          /\ r.seen[p] <= Len(log[p]) /\ r.times[p] <= Len(log[p]) /\ r.reads[p] <= Len(log[p])
          /\ r.reads[p] # 0 => r.times[p] \in 1..r.reads[p] /\ r.seen[p] <= r.reads[p]
    /\ r.step \in {"list", "stat", "load", "mtimes"} => r.reads = Nothing
    /\ r.step \in {"read", "open"} => r.todo # {} /\ \A p \in r.todo : r.reads[p] = 0
    /\ r.step = "open" => r.times[First(r.todo)] # 0
    /\ r.since => late
    /\ r.armed # None => r.step = "running"
    /\ r.step = "arm" =>
          /\ r.pick \in Patterns /\ r.as \in 1..Len(log[r.pick])
          /\ Allowed(log[r.pick][r.as], r.since)

\* Ages fall from left to right.
Sorted(ages) == \A i, j \in DOMAIN ages : i <= j => ages[j] <= ages[i]

\* The engine forgets no arming of the last day.
ArmsInv ==
    \A p \in Patterns, g \in Targets :
        Sorted(arms[p][g]) /\ ledger[p][g] = Youngest(arms[p][g], Day)

\* The engine's count of failures is that of the reports.
BreakerInv == failures = streak /\ disabled = broken

\* No contents older than the time kept for them.
Ordered(times) == \A p \in Patterns : loaded[p] # 0 => times[p] \in 1..loaded[p]

\* What is loaded is no older than a match.
Recently(r) == \A p \in Patterns : loaded[p] # 0 => r.seen[p] <= loaded[p]

\* One thread at the files at a time: each has what its match requires.
Fresh(r) ==
    /\ r.step = "stat" => \A p \in Patterns \ r.todo : mtimes[p] # 0 => r.seen[p] <= mtimes[p]
    /\ r.step = "mtimes" => Ordered(r.times) /\ Recently(r)
    /\ r.step = "select" => r.blind \/ Recently(r)
    /\ r.step = "arm" => r.blind \/ r.seen[r.pick] <= r.as

ReadInv ==
    /\ \A s, t \in Loading : s = t
    /\ (\A t \in Threads : thread[t].step # "mtimes") => Ordered(mtimes)
    /\ \A t \in Threads : thread[t] # Idle => Fresh(thread[t])
    /\ \A s \in Loading, t \in Threads : thread[t].step = "select" =>
          \A p \in Patterns : thread[t].seen[p] <= thread[s].seen[p]

IInv ==
    /\ Types
    /\ \A t \in Threads : thread[t] # Idle => Sound(thread[t])
    /\ ArmsInv
    /\ BreakerInv
    /\ ~overlap => ReadInv

-----------------------------------------------------------------------------
(* Ages                                                                    *)

Ages == Seq(0..Day)

LEMMA Windows == Day \in Nat /\ Hour \in Nat /\ 0 < Hour /\ Hour <= Day
BY PatternAssumption

LEMMA AgesAreNats ==
    ASSUME NEW ages \in Ages
    PROVE  /\ Len(ages) \in Nat /\ DOMAIN ages = 1..Len(ages)
           /\ \A i \in 1..Len(ages) : ages[i] \in 0..Day /\ ages[i] \in Nat
BY Windows DEF Ages

LEMMA Interval == ASSUME NEW n \in Nat PROVE IsFiniteSet(1..n) /\ Cardinality(1..n) = n
<1>1. 1 \in Int /\ n \in Int
  OBVIOUS
<1>2. QED
  BY <1>1, FS_Interval

LEMMA YoungerType ==
    ASSUME NEW ages \in Ages, NEW span \in Nat
    PROVE  /\ Younger(ages, span) \in 0..Len(ages)
           /\ IsFiniteSet({i \in DOMAIN ages : ages[i] < span})
<1> DEFINE S == {i \in DOMAIN ages : ages[i] < span}
           n == Len(ages)
<1>1. n \in Nat /\ S \in SUBSET (1..n)
  BY AgesAreNats
<1>2. IsFiniteSet(1..n) /\ Cardinality(1..n) = n
  BY <1>1, Interval
<1> HIDE DEF S, n
<1>3. IsFiniteSet(S) /\ Cardinality(S) <= n
  BY <1>1, <1>2, FS_Subset
<1>4. Cardinality(S) \in Nat
  BY <1>3, FS_CardinalityType
<1>5. QED
  BY <1>1, <1>3, <1>4 DEF Younger, S, n

\* The younger ages of a sorted sequence are its last ones.
LEMMA YoungerAreLast ==
    ASSUME NEW ages \in Ages, NEW span \in Nat, Sorted(ages)
    PROVE  {i \in DOMAIN ages : ages[i] < span} =
               (Len(ages) - Younger(ages, span) + 1)..Len(ages)
<1> DEFINE S == {i \in DOMAIN ages : ages[i] < span}
           n == Len(ages)
           c == Cardinality(S)
           T == (n - c + 1)..n
<1>1. DOMAIN ages = 1..n /\ n \in Nat /\ \A i \in 1..n : ages[i] \in Nat
  BY AgesAreNats
<1>2. IsFiniteSet(S) /\ c \in 0..n /\ c = Younger(ages, span)
  BY YoungerType DEF Younger
<1>3. ASSUME NEW x \in S PROVE x \in 1..n /\ x..n \in SUBSET S
  BY <1>1 DEF Sorted
<1> HIDE DEF S, n, c
<1>4. ASSUME NEW x \in S PROVE x \in T
  <2>1. x \in 1..n /\ x \in Int /\ n \in Int /\ x..n \in SUBSET S
    BY <1>1, <1>3
  <2>2. Cardinality(x..n) = n - x + 1
    BY <2>1, FS_Interval
  <2>3. Cardinality(x..n) <= c
    BY <1>2, <2>1, FS_Subset DEF c
  <2>4. QED
    BY <1>1, <1>2, <2>1, <2>2, <2>3
<1>5. IsFiniteSet(T) /\ Cardinality(T) = c
  <2>1. n - c + 1 \in Int /\ n \in Int /\ c \in Nat
    BY <1>1, <1>2
  <2>2. IsFiniteSet(T) /\ Cardinality(T) = IF n - c + 1 > n THEN 0 ELSE n - (n - c + 1) + 1
    BY <2>1, FS_Interval
  <2>3. (n - (n - c + 1) + 1 = c) /\ (n - c + 1 > n => c = 0)
    BY <2>1
  <2>4. QED
    BY <2>2, <2>3
<1>6. S = T
  BY <1>4, <1>5, FS_Subset DEF c
<1>7. QED
  BY <1>2, <1>6 DEF S, T, n

LEMMA YoungestShape ==
    ASSUME NEW ages \in Ages, NEW span \in Nat, Sorted(ages)
    PROVE  /\ Youngest(ages, span) \in Ages /\ Sorted(Youngest(ages, span))
           /\ Younger(ages, span) \in 0..Len(ages)
           /\ Len(Youngest(ages, span)) = Younger(ages, span)
           /\ \A i \in 1..Younger(ages, span) :
                 /\ Youngest(ages, span)[i] = ages[Len(ages) - Younger(ages, span) + i]
                 /\ Youngest(ages, span)[i] < span
<1> DEFINE n == Len(ages)
           k == Younger(ages, span)
           kept == Youngest(ages, span)
<1>1. k \in 0..n /\ n \in Nat /\ DOMAIN ages = 1..n
  BY YoungerType, AgesAreNats
<1>2. \A i \in 1..n : ages[i] \in 0..Day
  BY AgesAreNats
<1>3. {i \in DOMAIN ages : ages[i] < span} = (n - k + 1)..n
  BY YoungerAreLast
<1> HIDE DEF n, k
<1>4. kept \in Ages /\ Len(kept) = k /\ \A i \in 1..k : kept[i] = ages[n - k + i]
  <2>1. kept = SubSeq(ages, n - k + 1, n)
    BY DEF Youngest, n, k
  <2>2. n - k + 1 \in Int /\ n \in Int /\ \A i \in (n - k + 1)..n : ages[i] \in 0..Day
    BY <1>1, <1>2
  <2>3. /\ kept \in Seq(0..Day)
        /\ Len(kept) = IF n - k + 1 <= n THEN n - (n - k + 1) + 1 ELSE 0
        /\ \A i \in 1..(n - (n - k + 1) + 1) : kept[i] = ages[n - k + 1 + i - 1]
    BY <2>1, <2>2, SubSeqProperties
  <2>4. n - (n - k + 1) + 1 = k /\ (n - k + 1 <= n <=> 1 <= k)
        /\ \A i \in 1..k : n - k + 1 + i - 1 = n - k + i
    BY <1>1
  <2>5. QED
    BY <1>1, <2>3, <2>4 DEF Ages
<1> HIDE DEF kept
<1>5. \A i \in 1..k : n - k + i \in (n - k + 1)..n /\ n - k + i \in 1..n
  BY <1>1
<1>6. \A i \in 1..k : ages[n - k + i] < span
  BY <1>3, <1>5
<1>7. Sorted(kept)
  <2>1. DOMAIN kept = 1..k
    BY <1>4, AgesAreNats
  <2>2. \A i, j \in 1..k : i <= j => n - k + i <= n - k + j
    BY <1>1
  <2>3. QED
    BY <1>1, <1>4, <1>5, <2>1, <2>2 DEF Sorted
<1>8. QED
  BY <1>1, <1>4, <1>6, <1>7 DEF n, k, kept

\* Nothing is left out where everything is younger.
LEMMA YoungestOfYoung ==
    ASSUME NEW ages \in Ages, NEW span \in Nat, \A i \in DOMAIN ages : ages[i] < span
    PROVE  Younger(ages, span) = Len(ages) /\ Youngest(ages, span) = ages
<1>1. {i \in DOMAIN ages : ages[i] < span} = 1..Len(ages) /\ Len(ages) \in Nat
  BY AgesAreNats
<1>2. Younger(ages, span) = Len(ages)
  BY <1>1, Interval DEF Younger
<1>3. Youngest(ages, span) = SubSeq(ages, 1, Len(ages))
  BY <1>1, <1>2 DEF Youngest
<1>4. QED
  BY <1>2, <1>3, SubSeqFull DEF Ages

\* A new arming counts in any window.
LEMMA AppendNew ==
    ASSUME NEW ages \in Ages, NEW span \in Nat \ {0}
    PROVE  /\ Append(ages, 0) \in Ages
           /\ Len(Append(ages, 0)) = Len(ages) + 1
           /\ \A i \in 1..Len(ages) : Append(ages, 0)[i] = ages[i]
           /\ Append(ages, 0)[Len(ages) + 1] = 0
           /\ Younger(Append(ages, 0), span) = Younger(ages, span) + 1
           /\ Sorted(ages) => Sorted(Append(ages, 0))
<1> DEFINE n == Len(ages)
           more == Append(ages, 0)
           S == {i \in DOMAIN ages : ages[i] < span}
<1>1. n \in Nat /\ DOMAIN ages = 1..n /\ \A i \in 1..n : ages[i] \in Nat
  BY AgesAreNats
<1>2. /\ more \in Ages /\ Len(more) = n + 1 /\ more[n + 1] = 0
      /\ \A i \in 1..n : more[i] = ages[i]
  BY Windows, AppendProperties DEF Ages
<1>3. DOMAIN more = 1..(n + 1)
  BY <1>2, AgesAreNats
<1>4. {i \in DOMAIN more : more[i] < span} = S \cup {n + 1} /\ n + 1 \notin S
  BY <1>1, <1>2, <1>3
<1>5. IsFiniteSet(S)
  BY YoungerType
<1>6. Cardinality(S \cup {n + 1}) = Cardinality(S) + 1
  BY <1>4, <1>5, FS_AddElement
<1>7. Younger(more, span) = Younger(ages, span) + 1
  BY <1>4, <1>6 DEF Younger
<1>8. Sorted(ages) => Sorted(more)
  BY <1>1, <1>2, <1>3 DEF Sorted
<1>9. QED
  BY <1>2, <1>7, <1>8

LEMMA OlderShape ==
    ASSUME NEW ages \in Ages
    PROVE  /\ Older(ages) \in Ages /\ Len(Older(ages)) = Len(ages)
           /\ \A i \in 1..Len(ages) :
                 Older(ages)[i] = IF ages[i] < Day THEN ages[i] + 1 ELSE Day
           /\ Sorted(ages) => Sorted(Older(ages))
<1>1. /\ Len(ages) \in Nat /\ DOMAIN ages = 1..Len(ages)
      /\ \A i \in 1..Len(ages) : ages[i] \in 0..Day
  BY AgesAreNats
<1>2. /\ Older(ages) \in [1..Len(ages) -> 0..Day]
      /\ \A i \in 1..Len(ages) : Older(ages)[i] = IF ages[i] < Day THEN ages[i] + 1 ELSE Day
  BY <1>1, Windows DEF Older
<1>3. Older(ages) \in Ages
  BY <1>1, <1>2, SeqDef DEF Ages
<1>4. Len(Older(ages)) = Len(ages)
  BY <1>1, <1>2, <1>3, AgesAreNats
<1>5. Sorted(ages) => Sorted(Older(ages))
  BY <1>1, <1>2, Windows DEF Sorted
<1>6. QED
  BY <1>2, <1>3, <1>4, <1>5

\* What a day forgets can be forgotten before the clock ticks.
LEMMA OlderForgets ==
    ASSUME NEW ages \in Ages, Sorted(ages)
    PROVE  Youngest(Older(Youngest(ages, Day)), Day) = Youngest(Older(ages), Day)
<1> DEFINE n == Len(ages)
           c == Younger(ages, Day)
           a == Youngest(ages, Day)
           A == Older(ages)
           B == Older(a)
           d == Younger(A, Day)
<1>1. Day \in Nat
  BY Windows
<1>2. /\ a \in Ages /\ Sorted(a) /\ Len(a) = c /\ c \in 0..n /\ n \in Nat
      /\ \A i \in 1..c : a[i] = ages[n - c + i]
  BY <1>1, YoungestShape, AgesAreNats
<1>3. /\ A \in Ages /\ Len(A) = n /\ Sorted(A) /\ DOMAIN A = 1..n
      /\ \A i \in 1..n : A[i] = IF ages[i] < Day THEN ages[i] + 1 ELSE Day
  BY OlderShape, AgesAreNats
<1>4. \A i \in 1..n : ages[i] < Day <=> i > n - c
  <2>1. {i \in DOMAIN ages : ages[i] < Day} = (n - c + 1)..n /\ DOMAIN ages = 1..n
    BY <1>1, YoungerAreLast, AgesAreNats
  <2>2. QED
    BY <1>2, <2>1
<1>5. d \in 0..n /\ \A i \in 1..n : A[i] < Day <=> i > n - d
  <2>1. {i \in DOMAIN A : A[i] < Day} = (Len(A) - d + 1)..Len(A) /\ d \in 0..Len(A)
    BY <1>1, <1>3, YoungerAreLast, YoungerType
  <2>2. DOMAIN A = 1..n /\ Len(A) = n /\ n \in Nat
    BY <1>2, <1>3
  <2> HIDE DEF A, d, n
  <2>3. d \in 0..n /\ \A i \in 1..n : A[i] < Day <=> i \in (n - d + 1)..n
    BY <2>1, <2>2
  <2>4. \A i \in 1..n : i \in (n - d + 1)..n <=> i > n - d
    BY <2>2, <2>3
  <2>5. QED
    BY <2>3, <2>4
<1>6. B \in Ages /\ Len(B) = c /\ Sorted(B) /\ DOMAIN B = 1..c
  BY <1>2, OlderShape, AgesAreNats
<1>7. \A i \in 1..c : B[i] = A[n - c + i]
  <2>1. \A i \in 1..c : B[i] = IF a[i] < Day THEN a[i] + 1 ELSE Day
    BY <1>2, OlderShape
  <2>2. \A i \in 1..c : n - c + i \in 1..n
    BY <1>2
  <2>3. QED
    BY <1>2, <1>3, <2>1, <2>2
<1> HIDE DEF n, c, a, A, B, d
<1>8. d <= c
  <2> SUFFICES ASSUME c < d PROVE FALSE
    BY <1>2, <1>5
  <2>1. n - c \in 1..n /\ n - c > n - d /\ ~(n - c > n - c)
    BY <1>2, <1>5
  <2>2. A[n - c] = Day
    BY <1>3, <1>4, <2>1
  <2>3. QED
    BY <1>1, <1>5, <2>1, <2>2
<1>9. Younger(B, Day) = d
  <2>1. \A i \in 1..c : B[i] < Day <=> i > c - d
    BY <1>2, <1>5, <1>7
  <2>2. {i \in DOMAIN B : B[i] < Day} = (c - d + 1)..c
    BY <1>2, <1>5, <1>6, <1>8, <2>1
  <2>3. c - d + 1 \in Int /\ c \in Int /\ (IF c - d + 1 > c THEN 0 ELSE c - (c - d + 1) + 1) = d
    BY <1>2, <1>5, <1>8
  <2>4. QED
    BY <2>2, <2>3, FS_Interval DEF Younger
<1>10. /\ Youngest(B, Day) \in Ages /\ Len(Youngest(B, Day)) = d
       /\ \A i \in 1..d : Youngest(B, Day)[i] = B[c - d + i]
  BY <1>1, <1>6, <1>9, YoungestShape
<1>11. /\ Youngest(A, Day) \in Ages /\ Len(Youngest(A, Day)) = d
       /\ \A i \in 1..d : Youngest(A, Day)[i] = A[n - d + i]
  BY <1>1, <1>3, YoungestShape DEF d
<1>12. \A i \in 1..d : B[c - d + i] = A[n - d + i]
  <2> SUFFICES ASSUME NEW i \in 1..d PROVE B[c - d + i] = A[n - d + i]
    OBVIOUS
  <2>1. c - d + i \in 1..c /\ n - c + (c - d + i) = n - d + i
    BY <1>2, <1>5, <1>8
  <2>2. QED
    BY <1>7, <2>1
<1>13. Youngest(B, Day) = Youngest(A, Day)
  BY <1>10, <1>11, <1>12, SeqEqual DEF Ages
<1>14. QED
  BY <1>13 DEF B, A, a

LEMMA LeastExists ==
    ASSUME NEW S \in SUBSET Nat, S # {} PROVE \E i \in S : \A j \in S : i <= j
<1>1. PICK i \in S : \A j \in S : ~(<<j, i>> \in OpToRel(<, Nat))
  BY NatLessThanWellFounded, WFMin
<1>2. \A j \in S : ~(j < i)
  BY <1>1 DEF OpToRel
<1>3. QED
  BY <1>2

-----------------------------------------------------------------------------
(* Records of threads                                                      *)

LEMMA RecordFacts ==
    ASSUME NEW r \in Records
    PROVE  /\ r # Idle /\ r.step # "idle"
           /\ r.step \in Steps /\ r.target \in Targets /\ r.todo \in SUBSET Patterns
           /\ r.times \in Times /\ r.reads \in Times /\ r.seen \in Times
           /\ r.pick \in Patterns \cup {None} /\ r.armed \in Patterns \cup {None}
           /\ r.as \in Nat /\ r.since \in BOOLEAN /\ r.blind \in BOOLEAN
<1>1. r.step # "idle"
  BY DEF Records, Steps
<1>2. QED
  BY <1>1 DEF Records, Idle

LEMMA NotIdle == ASSUME NEW t, thread[t].step # "idle" PROVE thread[t] # Idle
BY DEF Idle

\* A thread at work, and where it is.
LEMMA AtWork ==
    ASSUME IInv, NEW t \in Threads, thread[t] # Idle
    PROVE  /\ thread[t] \in Records /\ Sound(thread[t])
           /\ t \in Loading <=> thread[t].step \notin {"select", "arm", "running"}
<1>1. thread[t] \in Records /\ Sound(thread[t])
  BY DEF IInv, Types
<1>2. QED
  BY <1>1, RecordFacts DEF Loading, Steps

\* The first of some patterns is one of them.
LEMMA FirstIn == ASSUME NEW S \in SUBSET Patterns, S # {} PROVE First(S) \in S
<1> DEFINE I == {i \in DOMAIN Order : Order[i] \in S}
<1>1. I \in SUBSET Nat /\ I # {}
  BY PatternAssumption DEF Patterns
<1>2. \E i \in I : \A j \in I : i <= j
  BY <1>1, LeastExists
<1>3. \E i \in DOMAIN Order :
          Order[i] \in S /\ \A j \in DOMAIN Order : Order[j] \in S => i <= j
  BY <1>2
<1>4. QED
  BY <1>3 DEF First

-----------------------------------------------------------------------------
(* Steps of one thread                                                     *)

\* A thread's step that leaves the engine alone.
LEMMA ThreadStep ==
    ASSUME IInv, NEW t \in Threads, NEW r \in Records, thread' = [thread EXCEPT ![t] = r], Sound(r),
           UNCHANGED <<overlap, log, late, engine, history>>,
           ~overlap => ReadInv'
    PROVE  IInv'
<1>1. thread'[t] = r /\ \A s \in Threads \ {t} : thread'[s] = thread[s]
  BY DEF IInv, Types
<1>2. UNCHANGED <<overlap, log, late, loaded, mtimes, arms, failures, disabled, ledger, streak, broken>>
  BY DEF engine, history
<1>3. Types'
  BY <1>2 DEF IInv, Types
<1>4. ASSUME NEW s \in Threads, thread'[s] # Idle PROVE Sound(thread[s])'
  <2>1. Sound(thread'[s])
    BY <1>1, <1>4 DEF IInv
  <2>2. QED
    BY <1>2, <2>1 DEF Sound, Allowed
<1>5. ArmsInv' /\ BreakerInv'
  BY <1>2 DEF IInv, ArmsInv, BreakerInv
<1>6. QED
  BY <1>2, <1>3, <1>4, <1>5 DEF IInv

\* The same for a thread that is alone at the files.
LEMMA SoloStep ==
    ASSUME IInv, ~overlap, NEW t \in Loading, NEW r \in Records,
           thread' = [thread EXCEPT ![t] = r], thread[t].step # "mtimes", r.step # "mtimes",
           r.step \notin {"arm", "running"}, r.seen = thread[t].seen, Fresh(r),
           UNCHANGED <<loaded, mtimes>>
    PROVE  ReadInv'
<1>1. t \in Threads /\ ReadInv /\ Loading = {t}
  BY DEF IInv, ReadInv, Loading
<1>2. thread'[t] = r /\ \A s \in Threads \ {t} : thread'[s] = thread[s]
  BY <1>1 DEF IInv, Types
<1>3. Loading' \subseteq {t} /\ (r.step = "select" => Loading' = {})
  BY <1>1, <1>2 DEF Loading
<1>4. \A s \in Threads : thread[s].step # "mtimes"
  BY <1>1 DEF Loading
<1>5. Ordered(mtimes)'
  BY <1>1, <1>4 DEF ReadInv, Ordered
<1>6. ASSUME NEW s \in Threads, thread'[s] # Idle PROVE Fresh(thread[s])'
  <2>1. Fresh(thread'[s])
    BY <1>1, <1>2, <1>6 DEF ReadInv
  <2>2. QED
    BY <2>1 DEF Fresh, Ordered, Recently
<1>7. ASSUME NEW s \in Loading', NEW u \in Threads, thread'[u].step = "select"
      PROVE  \A p \in Patterns : thread'[u].seen[p] <= thread'[s].seen[p]
  <2>1. s = t /\ u # t
    BY <1>2, <1>3, <1>7
  <2>2. QED
    BY <1>1, <1>2, <1>7, <2>1 DEF ReadInv
<1>8. QED
  BY <1>3, <1>5, <1>6, <1>7 DEF ReadInv

\* A step of a thread at the files that leaves the engine alone.
LEMMA FileStep ==
    ASSUME IInv, NEW t \in Loading, NEW r \in Records,
           thread' = [thread EXCEPT ![t] = r], thread[t].step # "mtimes",
           r.step \notin {"mtimes", "arm", "running"}, r.seen = thread[t].seen, Sound(r),
           ~overlap => Fresh(r),
           UNCHANGED <<overlap, log, late, engine, history>>
    PROVE  IInv'
<1>1. t \in Threads /\ UNCHANGED <<loaded, mtimes>>
  BY DEF Loading, engine
<1>2. ~overlap => ReadInv'
  BY <1>1, SoloStep
<1>3. QED
  BY <1>1, <1>2, ThreadStep

\* What match does to the armings of one pattern on one target.
LEMMA Pruning ==
    ASSUME NEW ages \in Ages, Sorted(ages)
    PROVE  /\ Recent(ages) \in Ages /\ Sorted(Recent(ages))
           /\ Recent(Recent(ages)) = Recent(ages)
           /\ Append(Recent(ages), 0) \in Ages /\ Sorted(Append(Recent(ages), 0))
           /\ Recent(Append(Recent(ages), 0)) = Append(Recent(ages), 0)
<1> DEFINE kept == Youngest(ages, Day)
           more == Append(kept, 0)
<1>1. Day \in Nat \ {0}
  BY Windows
<1>2. kept \in Ages /\ Sorted(kept) /\ DOMAIN kept = 1..Len(kept)
      /\ \A i \in 1..Len(kept) : kept[i] < Day
  BY <1>1, YoungestShape, AgesAreNats
<1> HIDE DEF kept
<1>3. Youngest(kept, Day) = kept
  BY <1>1, <1>2, YoungestOfYoung
<1>4. /\ more \in Ages /\ Sorted(more) /\ Len(more) = Len(kept) + 1
      /\ more[Len(kept) + 1] = 0 /\ \A i \in 1..Len(kept) : more[i] = kept[i]
  BY <1>1, <1>2, AppendNew
<1>5. DOMAIN more = 1..(Len(kept) + 1) /\ Len(kept) \in Nat
  BY <1>2, <1>4, AgesAreNats
<1> HIDE DEF more
<1>6. Youngest(more, Day) = more
  <2>1. \A i \in DOMAIN more : more[i] < Day
    BY <1>1, <1>2, <1>4, <1>5
  <2>2. QED
    BY <1>1, <1>4, <2>1, YoungestOfYoung
<1>7. QED
  BY <1>2, <1>3, <1>4, <1>6 DEF Recent, kept, more

-----------------------------------------------------------------------------
LEMMA InitInv == Init => IInv
<1> SUFFICES ASSUME Init PROVE IInv
  OBVIOUS
<1>1. ASSUME NEW p \in Patterns PROVE Len(log[p]) = 1 /\ log[p] \in Seq(Bodies)
  <2>1. PICK b \in Bodies : log[p] = <<b>>
    BY DEF Init
  <2>2. QED
    BY <2>1
<1>2. log \in [Patterns -> Seq(Bodies)]
  BY <1>1 DEF Init
<1>3. loaded \in Times /\ mtimes = loaded /\ \A p \in Patterns : loaded[p] \in 0..1
  BY DEF Init, Times, Nothing
<1>4. Types
  <2>1. arms \in [Patterns -> [Targets -> Seq(0..Day)]]
    BY EmptySeq DEF Init, Each
  <2>2. ledger \in [Patterns -> [Targets -> Seq(0..Day)]]
    BY EmptySeq DEF Init, Each
  <2>3. ASSUME NEW p \in Patterns
        PROVE  1 <= Len(log[p]) /\ loaded[p] <= Len(log[p]) /\ mtimes[p] <= Len(log[p])
    <3>1. Len(log[p]) = 1 /\ loaded[p] \in 0..1 /\ mtimes[p] = loaded[p]
      BY <1>1, <1>3
    <3>2. QED
      BY <3>1
  <2>4. /\ failures \in [Patterns -> [Targets -> 0..MaxThreshold]]
        /\ disabled \in [Patterns -> [Targets -> Nat]]
        /\ thread \in [Threads -> {Idle} \cup Records]
    BY PatternAssumption DEF Init, Each
  <2>5. overlap \in BOOLEAN /\ late \in BOOLEAN
    BY DEF Init
  <2>6. QED
    BY <1>2, <1>3, <2>1, <2>2, <2>3, <2>4, <2>5 DEF Types
<1>5. ArmsInv
  <2>1. <<>> \in Ages /\ Sorted(<<>>) /\ \A i \in DOMAIN <<>> : <<>>[i] < Day
    BY EmptySeq DEF Ages, Sorted
  <2>2. Youngest(<<>>, Day) = <<>>
    BY <2>1, YoungestOfYoung, Windows
  <2>3. QED
    BY <2>1, <2>2 DEF Init, ArmsInv, Each
<1>6. Loading = {} /\ \A t \in Threads : thread[t] = Idle
  BY DEF Init, Loading, Idle
<1>7. ReadInv
  <2>1. Ordered(mtimes)
    BY <1>3 DEF Ordered
  <2>2. QED
    BY <1>6, <2>1 DEF ReadInv
<1>8. BreakerInv
  BY DEF Init, BreakerInv, Each
<1>9. QED
  BY <1>4, <1>5, <1>6, <1>7, <1>8 DEF IInv

LEMMA EditInv == ASSUME IInv, NEW p \in Patterns, Edit(p) PROVE IInv'
<1>1. PICK b \in Bodies : log' = [log EXCEPT ![p] = Append(@, b)]
  BY DEF Edit
<1>2. UNCHANGED <<overlap, late, loaded, mtimes, arms, failures, disabled, thread, ledger, streak, broken>>
  BY DEF Edit, engine, history
<1>3. log \in [Patterns -> Seq(Bodies)]
  BY DEF IInv, Types
<1>4. /\ log' \in [Patterns -> Seq(Bodies)]
      /\ \A q \in Patterns : Len(log[q]) \in Nat /\ Len(log'[q]) \in Nat /\ Len(log[q]) <= Len(log'[q])
  BY <1>1, <1>3
<1>5. \A q \in Patterns : \A i \in 1..Len(log[q]) : log'[q][i] = log[q][i]
  BY <1>1, <1>3
<1>6. Types'
  BY <1>2, <1>4 DEF IInv, Types, Times
<1>7. ASSUME NEW t \in Threads, thread[t] # Idle PROVE Sound(thread[t])'
  <2> DEFINE r == thread[t]
  <2>1. r \in Records /\ Sound(r) /\ r' = r
    BY <1>2, <1>7 DEF IInv, Types
  <2>2. r.seen \in Times /\ r.times \in Times /\ r.reads \in Times /\ r.as \in Nat
    BY <2>1, RecordFacts
  <2> HIDE DEF r
  <2>3. \A q \in Patterns :
            r.seen[q] <= Len(log'[q]) /\ r.times[q] <= Len(log'[q]) /\ r.reads[q] <= Len(log'[q])
    BY <1>4, <2>1, <2>2 DEF Sound, Times
  <2>4. r.step = "arm" => /\ r.as \in 1..Len(log'[r.pick])
                          /\ log'[r.pick][r.as] = log[r.pick][r.as]
    BY <1>4, <1>5, <2>1 DEF Sound
  <2>5. Sound(r)'
    BY <1>2, <2>1, <2>3, <2>4 DEF Sound, Allowed
  <2>6. QED
    BY <2>5 DEF r
<1>8. ArmsInv' /\ BreakerInv'
  BY <1>2 DEF IInv, ArmsInv, BreakerInv
<1>9. ASSUME ~overlap PROVE ReadInv'
  BY <1>2, <1>9 DEF IInv, ReadInv, Loading, Ordered, Fresh, Recently
<1>10. QED
  BY <1>2, <1>6, <1>7, <1>8, <1>9 DEF IInv

\* A step that changes none of the parts but the date.
LEMMA FrameInv ==
    ASSUME IInv, late' \in BOOLEAN, late => late', UNCHANGED <<overlap, log, engine, thread, history>>
    PROVE  IInv'
<1> USE DEF engine, history
<1>1. Types'
  BY DEF IInv, Types
<1>2. ASSUME NEW t \in Threads, thread[t] # Idle PROVE Sound(thread[t])'
  BY <1>2 DEF IInv, Sound, Allowed
<1>3. ArmsInv' /\ BreakerInv'
  BY DEF IInv, ArmsInv, BreakerInv
<1>4. ASSUME ~overlap PROVE ReadInv'
  BY <1>4 DEF IInv, ReadInv, Loading, Ordered, Fresh, Recently
<1>5. QED
  BY <1>1, <1>2, <1>3, <1>4 DEF IInv

LEMMA BeginInv == ASSUME IInv, NEW t \in Threads, NEW g \in Targets, Begin(t, g) PROVE IInv'
<1> DEFINE r == [step |-> "list", target |-> g, todo |-> {}, times |-> Nothing,
                 reads |-> Nothing, pick |-> None, as |-> 0, armed |-> None,
                 seen |-> Versions, since |-> late, blind |-> FALSE]
<1>1. Nothing \in Times /\ \A p \in Patterns : Nothing[p] = 0
  BY DEF Nothing, Times
<1>2. Versions \in Times /\ \A p \in Patterns : Versions[p] = Len(log[p]) /\ Len(log[p]) \in Nat
  BY DEF IInv, Types, Versions, Version, Times
<1>3. r \in Records
  BY <1>1, <1>2 DEF Records, IInv, Types, Steps
<1>4. thread' = [thread EXCEPT ![t] = r] /\ thread[t] = Idle /\ (overlap \/ Loading = {})
  BY DEF Begin
<1>5. /\ r.step = "list" /\ r.times = Nothing /\ r.reads = Nothing /\ r.armed = None
      /\ r.seen = Versions /\ r.since = late
  OBVIOUS
<1>6. UNCHANGED <<overlap, log, late, engine, history>>
  BY DEF Begin
<1> HIDE DEF r
<1>7. Sound(r)
  BY <1>1, <1>2, <1>5 DEF Sound
<1>8. ASSUME ~overlap PROVE ReadInv'
  <2>1. Loading = {} /\ ReadInv
    BY <1>4, <1>8 DEF IInv
  <2>2. thread'[t] = r /\ \A s \in Threads \ {t} : thread'[s] = thread[s]
    BY <1>3, <1>4 DEF IInv, Types
  <2>3. Loading' = {t} /\ \A s \in Threads : thread[s].step # "mtimes"
    BY <1>5, <2>1, <2>2 DEF Loading
  <2>4. Ordered(mtimes)' /\ UNCHANGED <<loaded, mtimes>>
    BY <1>6, <2>1, <2>3 DEF ReadInv, Ordered, engine
  <2>5. ASSUME NEW s \in Threads, thread'[s] # Idle PROVE Fresh(thread[s])'
    <3>1. Fresh(thread'[s])
      BY <1>5, <2>1, <2>2, <2>5 DEF ReadInv, Fresh
    <3>2. QED
      BY <2>4, <3>1 DEF Fresh, Ordered, Recently
  <2>6. ASSUME NEW u \in Threads, thread'[u].step = "select"
        PROVE  \A p \in Patterns : thread'[u].seen[p] <= thread'[t].seen[p]
    <3>1. u # t /\ thread'[u] = thread[u]
      BY <1>5, <2>2, <2>6
    <3>2. Sound(thread[u])
      BY <2>6, <3>1 DEF IInv, Idle
    <3>3. QED
      BY <1>2, <1>5, <2>2, <3>1, <3>2 DEF Sound
  <2>7. QED
    BY <2>3, <2>4, <2>5, <2>6 DEF ReadInv
<1>9. QED
  BY <1>3, <1>4, <1>6, <1>7, <1>8, ThreadStep

\* The thread goes on with what it has.
LEMMA GiveUpInv ==
    ASSUME IInv, NEW t \in Loading, thread[t].step \in {"list", "stat", "load"}, GiveUp(t),
           UNCHANGED <<overlap, log, late, engine, history>>
    PROVE  IInv'
<1> DEFINE q == thread[t]
           r == [q EXCEPT !.step = "select", !.todo = {}, !.blind = TRUE]
<1>1. t \in Threads /\ q \in Records /\ Sound(q)
  BY NotIdle, AtWork DEF Loading
<1>2. thread' = [thread EXCEPT ![t] = r]
  BY <1>1 DEF GiveUp, IInv, Types
<1>3. /\ r \in Records /\ r.step = "select" /\ r.blind /\ r.seen = q.seen /\ r.times = q.times
      /\ r.reads = q.reads /\ r.armed = q.armed /\ r.since = q.since
  BY <1>1 DEF Records, Steps
<1> HIDE DEF r
<1>4. Sound(r) /\ Fresh(r)
  BY <1>1, <1>3 DEF Sound, Fresh
<1>5. QED
  BY <1>2, <1>3, <1>4, FileStep

LEMMA ListInv == ASSUME IInv, NEW t \in Threads, List(t) PROVE IInv'
<1> DEFINE q == thread[t]
<1>1. /\ q.step = "list" /\ t \in Loading /\ q \in Records /\ Sound(q)
      /\ UNCHANGED <<overlap, log, late, engine, history>>
  BY NotIdle, AtWork DEF List
<1>2. Files \in SUBSET Patterns
  BY DEF Files
<1>3. CASE GiveUp(t)
  BY <1>1, <1>3, GiveUpInv
<1>4. CASE thread' = [thread EXCEPT ![t].step = "load"]
  <2> DEFINE r == [q EXCEPT !.step = "load"]
  <2>1. thread' = [thread EXCEPT ![t] = r]
    BY <1>4
  <2>2. /\ r \in Records /\ r.step = "load" /\ r.seen = q.seen /\ r.times = q.times
        /\ r.reads = q.reads /\ r.armed = q.armed /\ r.since = q.since
    BY <1>1 DEF Records, Steps
  <2> HIDE DEF r
  <2>3. Sound(r) /\ Fresh(r)
    BY <1>1, <2>2 DEF Sound, Fresh
  <2>4. QED
    BY <1>1, <2>1, <2>2, <2>3, FileStep
<1>5. ASSUME Files = Tracked,
             thread' = [thread EXCEPT ![t].step = IF Files = {} THEN "select" ELSE "stat",
                                      ![t].todo = Files]
      PROVE  IInv'
  <2> DEFINE r == [q EXCEPT !.step = IF Files = {} THEN "select" ELSE "stat", !.todo = Files]
  <2>1. thread' = [thread EXCEPT ![t] = r]
    BY <1>5
  <2>2. /\ r \in Records /\ r.step = (IF Files = {} THEN "select" ELSE "stat") /\ r.todo = Files
        /\ r.seen = q.seen /\ r.times = q.times
        /\ r.reads = q.reads /\ r.armed = q.armed /\ r.since = q.since
    BY <1>1, <1>2 DEF Records, Steps
  <2> HIDE DEF r
  <2>3. Sound(r)
    BY <1>1, <2>2 DEF Sound
  <2>4. ASSUME ~overlap PROVE Fresh(r)
    <3>1. \A p \in Patterns \ Files : mtimes[p] = 0
      BY <1>5 DEF Tracked
    <3>2. Ordered(mtimes)
      BY <1>1, <2>4 DEF IInv, ReadInv, Loading
    <3>3. Files = {} => \A p \in Patterns : loaded[p] = 0
      BY <3>1, <3>2 DEF Ordered
    <3>4. QED
      BY <2>2, <3>1, <3>3 DEF Fresh, Recently
  <2>5. QED
    BY <1>1, <2>1, <2>2, <2>3, <2>4, FileStep
<1>6. QED
  BY <1>3, <1>4, <1>5 DEF List

LEMMA StatInv == ASSUME IInv, NEW t \in Threads, NEW p \in Patterns, Stat(t, p) PROVE IInv'
<1> DEFINE q == thread[t]
<1>1. /\ q.step = "stat" /\ t \in Loading /\ q \in Records /\ Sound(q) /\ p \in q.todo
      /\ UNCHANGED <<overlap, log, late, engine, history>>
  BY NotIdle, AtWork DEF Stat
<1>2. q.todo \in SUBSET Patterns /\ q.seen \in Times
  BY <1>1, RecordFacts
<1>3. CASE GiveUp(t)
  BY <1>1, <1>3, GiveUpInv
<1>4. CASE thread' = [thread EXCEPT ![t].step = "load", ![t].todo = {}]
  <2> DEFINE r == [q EXCEPT !.step = "load", !.todo = {}]
  <2>1. thread' = [thread EXCEPT ![t] = r]
    BY <1>4
  <2>2. /\ r \in Records /\ r.step = "load" /\ r.seen = q.seen /\ r.times = q.times
        /\ r.reads = q.reads /\ r.armed = q.armed /\ r.since = q.since
    BY <1>1 DEF Records, Steps
  <2> HIDE DEF r
  <2>3. Sound(r) /\ Fresh(r)
    BY <1>1, <2>2 DEF Sound, Fresh
  <2>4. QED
    BY <1>1, <2>1, <2>2, <2>3, FileStep
<1>5. ASSUME ~Changed(p),
             thread' = [thread EXCEPT ![t].step = IF thread[t].todo = {p} THEN "select" ELSE "stat",
                                      ![t].todo = @ \ {p}]
      PROVE  IInv'
  <2> DEFINE r == [q EXCEPT !.step = IF q.todo = {p} THEN "select" ELSE "stat", !.todo = q.todo \ {p}]
  <2>1. thread' = [thread EXCEPT ![t] = r]
    BY <1>5
  <2>2. /\ r \in Records /\ r.step = (IF q.todo = {p} THEN "select" ELSE "stat")
        /\ r.todo = q.todo \ {p} /\ r.seen = q.seen /\ r.times = q.times
        /\ r.reads = q.reads /\ r.armed = q.armed /\ r.since = q.since
    BY <1>1, <1>2 DEF Records, Steps
  <2>3. q.step = "stat" /\ q.todo \in SUBSET Patterns /\ q.seen \in Times /\ Sound(q)
    BY <1>1, <1>2
  <2>4. ~overlap => Fresh(q) /\ Ordered(mtimes)
    BY <1>1 DEF IInv, ReadInv, Loading, Idle
  <2>5. mtimes[p] = Len(log[p]) /\ mtimes \in Times /\ loaded \in Times
    BY <1>5 DEF Changed, Version, IInv, Types
  <2> HIDE DEF r, q
  <2>6. Sound(r)
    BY <2>2, <2>3 DEF Sound
  <2>7. ASSUME ~overlap PROVE Fresh(r)
    <3>1. \A o \in Patterns \ r.todo : mtimes[o] # 0 => q.seen[o] <= mtimes[o]
      BY <2>2, <2>3, <2>4, <2>5, <2>7 DEF Fresh, Sound
    <3>2. r.step = "select" => \A o \in Patterns : loaded[o] # 0 => q.seen[o] <= loaded[o]
      BY <2>2, <2>3, <2>4, <2>5, <2>7, <3>1 DEF Ordered, Times
    <3>3. QED
      BY <2>2, <3>1, <3>2 DEF Fresh, Recently
  <2>8. QED
    BY <1>1, <2>1, <2>2, <2>6, <2>7, FileStep DEF q
<1>6. QED
  BY <1>3, <1>4, <1>5 DEF Stat

LEMMA LoadInv == ASSUME IInv, NEW t \in Threads, Load(t) PROVE IInv'
<1> DEFINE q == thread[t]
<1>1. /\ q.step = "load" /\ t \in Loading /\ q \in Records /\ Sound(q)
      /\ UNCHANGED <<overlap, log, late, engine, history>>
  BY NotIdle, AtWork DEF Load
<1>2. Files \in SUBSET Patterns
  BY DEF Files
<1>3. CASE GiveUp(t)
  BY <1>1, <1>3, GiveUpInv
<1>4. CASE thread' = [thread EXCEPT ![t].step = IF Files = {} THEN "patterns" ELSE "read", ![t].todo = Files]
  <2> DEFINE r == [q EXCEPT !.step = IF Files = {} THEN "patterns" ELSE "read", !.todo = Files]
  <2>1. thread' = [thread EXCEPT ![t] = r]
    BY <1>4
  <2>2. /\ r \in Records /\ r.step = (IF Files = {} THEN "patterns" ELSE "read") /\ r.todo = Files
        /\ r.seen = q.seen /\ r.times = q.times
        /\ r.reads = q.reads /\ r.armed = q.armed /\ r.since = q.since
    BY <1>1, <1>2 DEF Records, Steps
  <2> HIDE DEF r
  <2>3. Sound(r) /\ Fresh(r)
    BY <1>1, <1>2, <2>2 DEF Sound, Fresh, Nothing
  <2>4. QED
    BY <1>1, <2>1, <2>2, <2>3, FileStep
<1>5. QED
  BY <1>3, <1>4 DEF Load

\* A file is done with: skipped, or read after its time was taken.
LEMMA NextFileInv ==
    ASSUME IInv, NEW t \in Loading, thread[t].step \in {"read", "open"},
           NEW reads \in Times, NextFile(t, reads),
           \/ reads = thread[t].reads
           \/ LET p == First(thread[t].todo)
              IN /\ thread[t].step = "open" /\ p \in Patterns
                 /\ reads = [thread[t].reads EXCEPT ![p] = Len(log[p])],
           UNCHANGED <<overlap, log, late, engine, history>>
    PROVE  IInv'
<1> DEFINE q == thread[t]
           p == First(q.todo)
           rest == q.todo \ {p}
           r == [q EXCEPT !.step = IF rest = {} THEN "patterns" ELSE "read",
                          !.todo = rest, !.reads = reads]
<1>1. t \in Threads /\ q \in Records /\ Sound(q)
  BY NotIdle, AtWork DEF Loading
<1>2. q.todo \in SUBSET Patterns /\ q.seen \in Times /\ q.times \in Times /\ q.reads \in Times
  BY <1>1, RecordFacts
<1>3. p \in q.todo /\ q.step \in {"read", "open"}
  BY <1>1, <1>2, FirstIn DEF Sound
<1>4. thread' = [thread EXCEPT ![t] = r]
  BY <1>1 DEF NextFile, IInv, Types
<1>5. \/ reads = q.reads
      \/ q.step = "open" /\ reads = [q.reads EXCEPT ![p] = Len(log[p])]
  OBVIOUS
<1>6. \A o \in Patterns : Len(log[o]) \in Nat
  BY DEF IInv, Types
<1> HIDE DEF p
<1>7. q.step = "open" => q.times[p] # 0
  BY <1>1 DEF Sound, p
<1>8. /\ r \in Records /\ r.step = (IF rest = {} THEN "patterns" ELSE "read") /\ r.todo = rest
      /\ r.seen = q.seen /\ r.times = q.times
      /\ r.reads = reads /\ r.armed = q.armed /\ r.since = q.since
  BY <1>1, <1>2 DEF Records, Steps
<1> HIDE DEF r, q
<1>9. \A o \in Patterns :
          /\ reads[o] <= Len(log[o])
          /\ reads[o] # 0 => q.times[o] \in 1..reads[o] /\ q.seen[o] <= reads[o]
          /\ o # p => reads[o] = q.reads[o]
  BY <1>1, <1>2, <1>3, <1>5, <1>6, <1>7 DEF Sound, Times
<1>10. Sound(r)
  BY <1>1, <1>2, <1>3, <1>8, <1>9 DEF Sound
<1>11. Fresh(r)
  BY <1>8 DEF Fresh
<1>12. thread[t] = q
  BY DEF q
<1>13. QED
  BY <1>3, <1>4, <1>8, <1>10, <1>11, <1>12, FileStep

LEMMA ReadTimeInv == ASSUME IInv, NEW t \in Threads, ReadTime(t) PROVE IInv'
<1> DEFINE q == thread[t]
           p == First(q.todo)
<1>1. /\ q.step = "read" /\ t \in Loading /\ q \in Records /\ Sound(q)
      /\ UNCHANGED <<overlap, log, late, engine, history>>
  BY NotIdle, AtWork DEF ReadTime
<1>2. q.todo \in SUBSET Patterns /\ q.reads \in Times /\ q.times \in Times
  BY <1>1, RecordFacts
<1>3. CASE NextFile(t, q.reads)
  BY <1>1, <1>2, <1>3, NextFileInv
<1>4. ASSUME p \in Files, thread' = [thread EXCEPT ![t].step = "open", ![t].times[p] = Version(p)]
      PROVE  IInv'
  <2> DEFINE times == [q.times EXCEPT ![p] = Len(log[p])]
             r == [q EXCEPT !.step = "open", !.times = times]
  <2>1. thread' = [thread EXCEPT ![t] = r]
    BY <1>4 DEF Version
  <2>2. p \in q.todo /\ p \in Patterns
    BY <1>1, <1>2, FirstIn DEF Sound
  <2>3. \A o \in Patterns : Len(log[o]) \in Nat /\ 1 <= Len(log[o])
    BY DEF IInv, Types
  <2> HIDE DEF p
  <2>4. times \in Times /\ times[p] = Len(log[p]) /\ \A o \in Patterns \ {p} : times[o] = q.times[o]
    BY <1>2, <2>2, <2>3 DEF Times
  <2> HIDE DEF times
  <2>5. /\ r \in Records /\ r.step = "open" /\ r.times = times /\ r.todo = q.todo
        /\ r.seen = q.seen /\ r.reads = q.reads /\ r.armed = q.armed /\ r.since = q.since
    BY <1>1, <2>4 DEF Records, Steps
  <2> HIDE DEF r
  <2>6. Sound(r)
    <3>1. \A o \in Patterns : times[o] <= Len(log[o])
      BY <1>1, <2>3, <2>4 DEF Sound
    <3>2. q.reads[p] = 0 /\ q.todo # {} /\ \A o \in q.todo : q.reads[o] = 0
      BY <1>1, <2>2 DEF Sound
    <3>3. times[First(r.todo)] # 0
      BY <2>3, <2>4, <2>2, <2>5 DEF p
    <3>4. QED
      BY <1>1, <2>4, <2>5, <3>1, <3>2, <3>3 DEF Sound
  <2>7. Fresh(r)
    BY <2>5 DEF Fresh
  <2>8. QED
    BY <1>1, <2>1, <2>5, <2>6, <2>7, FileStep
<1>5. QED
  BY <1>3, <1>4 DEF ReadTime

LEMMA ReadContentsInv == ASSUME IInv, NEW t \in Threads, ReadContents(t) PROVE IInv'
<1> DEFINE q == thread[t]
           p == First(q.todo)
           reads == [q.reads EXCEPT ![p] = Len(log[p])]
<1>1. /\ q.step = "open" /\ t \in Loading /\ q \in Records
      /\ UNCHANGED <<overlap, log, late, engine, history>>
  BY NotIdle, AtWork DEF ReadContents
<1>2. q.reads \in Times
  BY <1>1, RecordFacts
<1>3. CASE NextFile(t, q.reads)
  BY <1>1, <1>2, <1>3, NextFileInv
<1>4. ASSUME p \in Files, NextFile(t, [q.reads EXCEPT ![p] = Version(p)])
      PROVE  IInv'
  <2>1. p \in Patterns /\ Len(log[p]) \in Nat
    BY <1>4 DEF Files, IInv, Types
  <2> HIDE DEF p
  <2>2. reads \in Times
    BY <1>2, <2>1 DEF Times
  <2>3. NextFile(t, reads)
    BY <1>4 DEF Version
  <2>4. p = First(thread[t].todo)
    BY DEF p
  <2> HIDE DEF reads
  <2>5. reads = [thread[t].reads EXCEPT ![p] = Len(log[p])]
    BY DEF reads
  <2>6. QED
    BY <1>1, <2>1, <2>2, <2>3, <2>4, <2>5, NextFileInv
<1>5. QED
  BY <1>3, <1>4 DEF ReadContents

LEMMA InstallPatternsInv == ASSUME IInv, NEW t \in Threads, InstallPatterns(t) PROVE IInv'
<1> DEFINE q == thread[t]
           r == [q EXCEPT !.step = "mtimes", !.reads = Nothing]
<1>1. q.step = "patterns" /\ t \in Loading /\ q \in Records /\ Sound(q)
  BY NotIdle, AtWork DEF InstallPatterns
<1>2. q.reads \in Times /\ Nothing \in Times /\ \A p \in Patterns : Nothing[p] = 0
  BY <1>1, RecordFacts DEF Nothing, Times
<1>3. /\ r \in Records /\ r.step = "mtimes" /\ r.reads = Nothing
      /\ r.seen = q.seen /\ r.times = q.times /\ r.armed = q.armed /\ r.since = q.since
  BY <1>1, <1>2 DEF Records, Steps
<1>4. /\ thread' = [thread EXCEPT ![t] = r] /\ loaded' = q.reads
      /\ UNCHANGED <<overlap, log, late, mtimes, arms, failures, disabled, ledger, streak, broken>>
  BY DEF InstallPatterns, history
<1> HIDE DEF r
<1>5. thread'[t] = r /\ \A s \in Threads \ {t} : thread'[s] = thread[s]
  BY <1>1, <1>4 DEF IInv, Types
<1>6. Types'
  <2>1. \A p \in Patterns : loaded'[p] <= Len(log[p])
    BY <1>1, <1>4 DEF Sound
  <2>2. QED
    BY <1>2, <1>3, <1>4, <2>1 DEF IInv, Types
<1>7. ASSUME NEW s \in Threads, thread'[s] # Idle PROVE Sound(thread[s])'
  <2>1. Sound(r)
    BY <1>1, <1>2, <1>3 DEF Sound
  <2>2. Sound(thread'[s])
    BY <1>5, <1>7, <2>1 DEF IInv
  <2>3. QED
    BY <1>4, <2>2 DEF Sound, Allowed
<1>8. ArmsInv' /\ BreakerInv'
  BY <1>4 DEF IInv, ArmsInv, BreakerInv
<1>9. ASSUME ~overlap PROVE ReadInv'
  <2>1. Loading = {t} /\ ReadInv
    BY <1>1, <1>9 DEF IInv, ReadInv
  <2>2. Loading' = {t} /\ thread'[t].step = "mtimes" /\ t \in Threads
    BY <1>3, <1>5, <2>1 DEF Loading
  <2>3. \A p \in Patterns : loaded'[p] # 0 => r.times[p] \in 1..loaded'[p] /\ r.seen[p] <= loaded'[p]
    BY <1>1, <1>3, <1>4 DEF Sound
  <2>4. ASSUME NEW s \in Threads, s # t, thread'[s] # Idle PROVE Fresh(thread[s])'
    <3>1. Fresh(thread[s]) /\ thread'[s] = thread[s] /\ s \notin Loading
      BY <1>5, <2>1, <2>4 DEF ReadInv
    <3>2. thread[s].step \notin {"stat", "mtimes"}
      BY <3>1 DEF Loading
    <3>3. thread[s].step = "select" => Recently(thread[s])'
      <4> SUFFICES ASSUME thread[s].step = "select", NEW p \in Patterns, loaded'[p] # 0
                   PROVE  thread'[s].seen[p] <= loaded'[p]
        BY DEF Recently
      <4>1. thread[s].seen[p] <= q.seen[p] /\ q.seen[p] <= loaded'[p]
        BY <1>1, <1>4, <2>1 DEF ReadInv, Sound
      <4>2. thread[s].seen \in Times /\ q.seen \in Times /\ loaded' \in Times
        BY <1>1, <1>2, <1>4, <2>4, <3>1, RecordFacts DEF IInv, Types
      <4>3. QED
        BY <3>1, <4>1, <4>2 DEF Times
    <3>4. QED
      BY <3>1, <3>2, <3>3 DEF Fresh
  <2>5. Fresh(thread[t])'
    BY <1>3, <1>5, <2>3 DEF Fresh, Ordered, Recently
  <2>6. ASSUME NEW u \in Threads, thread'[u].step = "select"
        PROVE  \A p \in Patterns : thread'[u].seen[p] <= thread'[t].seen[p]
    <3>1. u # t
      BY <2>2, <2>6
    <3>2. QED
      BY <1>1, <1>3, <1>5, <2>1, <2>6, <3>1 DEF ReadInv
  <2>7. QED
    BY <2>2, <2>4, <2>5, <2>6 DEF ReadInv
<1>10. QED
  BY <1>4, <1>6, <1>7, <1>8, <1>9 DEF IInv

LEMMA InstallMtimesInv == ASSUME IInv, NEW t \in Threads, InstallMtimes(t) PROVE IInv'
<1> DEFINE q == thread[t]
           r == [q EXCEPT !.step = "select", !.times = Nothing]
<1>1. q.step = "mtimes" /\ t \in Loading /\ q \in Records /\ Sound(q)
  BY NotIdle, AtWork DEF InstallMtimes
<1>2. q.times \in Times /\ Nothing \in Times /\ \A p \in Patterns : Nothing[p] = 0
  BY <1>1, RecordFacts DEF Nothing, Times
<1>3. /\ r \in Records /\ r.step = "select" /\ r.times = Nothing /\ r.blind = q.blind
      /\ r.seen = q.seen /\ r.reads = q.reads /\ r.armed = q.armed /\ r.since = q.since
  BY <1>1, <1>2 DEF Records, Steps
<1>4. /\ thread' = [thread EXCEPT ![t] = r] /\ mtimes' = q.times
      /\ UNCHANGED <<overlap, log, late, loaded, arms, failures, disabled, ledger, streak, broken>>
  BY DEF InstallMtimes, history
<1> HIDE DEF r
<1>5. thread'[t] = r /\ \A s \in Threads \ {t} : thread'[s] = thread[s]
  BY <1>1, <1>4 DEF IInv, Types
<1>6. Types'
  <2>1. \A p \in Patterns : mtimes'[p] <= Len(log[p])
    BY <1>1, <1>4 DEF Sound
  <2>2. QED
    BY <1>2, <1>3, <1>4, <2>1 DEF IInv, Types
<1>7. ASSUME NEW s \in Threads, thread'[s] # Idle PROVE Sound(thread[s])'
  <2>1. \A p \in Patterns : Len(log[p]) \in Nat
    BY DEF IInv, Types
  <2>2. Sound(r)
    BY <1>1, <1>2, <1>3, <2>1 DEF Sound
  <2>3. Sound(thread'[s])
    BY <1>5, <1>7, <2>2 DEF IInv
  <2>4. QED
    BY <1>4, <2>3 DEF Sound, Allowed
<1>8. ArmsInv' /\ BreakerInv'
  BY <1>4 DEF IInv, ArmsInv, BreakerInv
<1>9. ASSUME ~overlap PROVE ReadInv'
  <2>1. Loading = {t} /\ ReadInv
    BY <1>1, <1>9 DEF IInv, ReadInv
  <2>2. Loading' = {}
    BY <1>3, <1>5, <2>1 DEF Loading
  <2>3. Ordered(q.times) /\ Recently(q)
    BY <1>1, <2>1, NotIdle DEF ReadInv, Fresh, Loading
  <2>4. Ordered(mtimes)'
    BY <1>4, <2>3 DEF Ordered
  <2>5. ASSUME NEW s \in Threads, thread'[s] # Idle PROVE Fresh(thread[s])'
    <3>1. CASE s = t
      BY <1>3, <1>4, <1>5, <2>3, <3>1 DEF Fresh, Recently
    <3>2. CASE s # t
      <4>1. Fresh(thread[s]) /\ thread'[s] = thread[s] /\ s \notin Loading
        BY <1>5, <2>1, <2>5, <3>2 DEF ReadInv
      <4>2. thread[s].step \notin {"stat", "mtimes"}
        BY <4>1 DEF Loading
      <4>3. QED
        BY <1>4, <4>1, <4>2 DEF Fresh, Recently
    <3>3. QED
      BY <3>1, <3>2
  <2>6. QED
    BY <2>2, <2>4, <2>5 DEF ReadInv
<1>10. QED
  BY <1>4, <1>6, <1>7, <1>8, <1>9 DEF IInv

\* A pattern that is ready was read from a file that allows it.
LEMMA ReadyFacts ==
    ASSUME Types, Ready # {}
    PROVE  LET p == First(Ready)
           IN /\ p \in Patterns /\ loaded[p] \in 1..Len(log[p])
              /\ Allowed(log[p][loaded[p]], late)
<1> DEFINE p == First(Ready)
<1>1. p \in Ready /\ Ready \in SUBSET Patterns
  BY FirstIn DEF Ready
<1> HIDE DEF p
<1>2. p \in Patterns /\ IsLoaded(p) /\ Armable(Body(p))
  BY <1>1 DEF Ready
<1>3. loaded[p] # 0 /\ Body(p) = log[p][loaded[p]]
  BY <1>2 DEF IsLoaded, Body
<1>4. loaded[p] \in 1..Len(log[p])
  BY <1>2, <1>3 DEF Types, Times
<1>5. Allowed(log[p][loaded[p]], late)
  BY <1>2, <1>3 DEF IsLoaded, Armable, Allowed
<1>6. QED
  BY <1>2, <1>4, <1>5 DEF p

LEMMA SelectInv == ASSUME IInv, NEW t \in Threads, Select(t) PROVE IInv'
<1> DEFINE q == thread[t]
           p == First(Ready)
           r == thread'[t]
<1>1. /\ q.step = "select" /\ t \notin Loading /\ q \in Records /\ Sound(q)
      /\ UNCHANGED <<overlap, log, late, engine, history>>
  BY NotIdle, AtWork DEF Select
<1>2. Ready # {} => /\ p \in Patterns /\ loaded[p] \in 1..Len(log[p]) /\ loaded[p] \in Nat
                    /\ Allowed(log[p][loaded[p]], late)
  BY ReadyFacts DEF IInv, Types, Times
<1> HIDE DEF p
<1>3. /\ thread' = [thread EXCEPT ![t] = r]
      /\ r = IF Ready = {} THEN [q EXCEPT !.step = "running"]
             ELSE [q EXCEPT !.step = "arm", !.pick = p, !.as = loaded[p]]
  BY <1>1 DEF Select, IInv, Types, p
<1>4. /\ r \in Records /\ r.todo = q.todo /\ r.seen = q.seen /\ r.times = q.times
      /\ r.reads = q.reads /\ r.armed = q.armed /\ r.since = q.since /\ r.blind = q.blind
      /\ Ready = {} => r.step = "running"
      /\ Ready # {} => r.step = "arm" /\ r.pick = p /\ r.as = loaded[p]
  <2>1. q \in Records /\ "running" \in Steps /\ "arm" \in Steps
    BY <1>1 DEF Steps
  <2> HIDE DEF q, r
  <2>2. CASE Ready = {}
    <3>1. r = [q EXCEPT !.step = "running"]
      BY <1>3, <2>2
    <3>2. QED
      BY <2>1, <2>2, <3>1 DEF Records
  <2>3. CASE Ready # {}
    <3>1. r = [q EXCEPT !.step = "arm", !.pick = p, !.as = loaded[p]] /\ p \in Patterns /\ loaded[p] \in Nat
      BY <1>2, <1>3, <2>3
    <3>2. QED
      BY <2>1, <2>3, <3>1 DEF Records
  <2>4. QED
    BY <2>2, <2>3
<1> HIDE DEF r, q
<1>5. Sound(r)
  BY <1>1, <1>2, <1>4 DEF Sound, Allowed
<1>6. ASSUME ~overlap PROVE ReadInv'
  <2>1. ReadInv /\ \A s \in Threads \ {t} : thread'[s] = thread[s]
    BY <1>3, <1>6 DEF IInv, Types
  <2>2. thread'[t] = r /\ thread[t] = q /\ r.step \in {"arm", "running"}
    BY <1>4 DEF r, q
  <2>3. Loading' = Loading /\ UNCHANGED <<loaded, mtimes>>
    BY <1>1, <2>1, <2>2 DEF Loading, engine
  <2>4. Fresh(r)
    <3>1. q.blind \/ Recently(q)
      BY <1>1, <2>1, <2>2, NotIdle DEF ReadInv, Fresh
    <3>2. QED
      BY <1>2, <1>4, <2>2, <3>1 DEF Fresh, Recently
  <2>5. ASSUME NEW s \in Threads, thread'[s] # Idle PROVE Fresh(thread[s])'
    <3>1. Fresh(thread'[s])
      BY <2>1, <2>2, <2>4, <2>5 DEF ReadInv
    <3>2. QED
      BY <2>3, <3>1 DEF Fresh, Ordered, Recently
  <2>6. (\A s \in Threads : thread[s].step # "mtimes") \/ ~(\A s \in Threads : thread'[s].step # "mtimes")
    BY <1>1, <2>1, <2>2
  <2>7. (\A s \in Threads : thread'[s].step # "mtimes") => Ordered(mtimes)'
    BY <2>1, <2>3, <2>6 DEF ReadInv, Ordered
  <2>8. ASSUME NEW s \in Loading, NEW u \in Threads, thread'[u].step = "select"
        PROVE  \A o \in Patterns : thread'[u].seen[o] <= thread'[s].seen[o]
    <3>1. u # t /\ s # t /\ s \in Threads
      BY <1>1, <2>2, <2>8 DEF Loading
    <3>2. QED
      BY <2>1, <2>8, <3>1 DEF ReadInv
  <2>9. QED
    BY <2>1, <2>3, <2>5, <2>7, <2>8 DEF ReadInv
<1>7. QED
  BY <1>1, <1>3, <1>4, <1>5, <1>6, ThreadStep

\* A thread that is not at the files arms or ends.
LEMMA LeaveFiles ==
    ASSUME ReadInv, NEW t \in Threads, t \notin Loading,
           thread'[t].step \in {"running", "idle"}, \A s \in Threads \ {t} : thread'[s] = thread[s],
           UNCHANGED <<loaded, mtimes>>
    PROVE  ReadInv'
<1>1. Loading' = Loading /\ \A s \in Loading : s # t
  BY DEF Loading
<1>2. ASSUME NEW s \in Threads, thread'[s] # Idle PROVE Fresh(thread[s])'
  BY <1>2 DEF ReadInv, Fresh, Ordered, Recently
<1>3. (\A s \in Threads : thread'[s].step # "mtimes") => Ordered(mtimes)'
  <2>1. thread[t].step # "mtimes"
    BY DEF Loading
  <2>2. QED
    BY <2>1 DEF ReadInv, Ordered
<1>4. ASSUME NEW s \in Loading, NEW u \in Threads, thread'[u].step = "select"
      PROVE  \A p \in Patterns : thread'[u].seen[p] <= thread'[s].seen[p]
  <2>1. u # t /\ s # t /\ s \in Threads
    BY <1>1, <1>4 DEF Loading
  <2>2. QED
    BY <1>4, <2>1 DEF ReadInv
<1>5. QED
  BY <1>1, <1>2, <1>3, <1>4 DEF ReadInv

\* The ends of the locked part of match: no arming, a cap, or an arming.
LEMMA ArmCases ==
    ASSUME IInv, NEW t \in Threads, Arm(t)
    PROVE  LET q == thread[t]
               kept == Recent(arms[q.pick][q.target])
           IN /\ q.step = "arm" /\ q \in Records /\ Sound(q) /\ t \notin Loading
              /\ q.pick \in Patterns /\ q.target \in Targets /\ q.armed = None
              /\ \/ /\ thread' = [thread EXCEPT ![t].step = "running"]
                    /\ UNCHANGED <<arms, ledger>>
                 \/ /\ thread' = [thread EXCEPT ![t].step = "running"]
                    /\ arms' = [arms EXCEPT ![q.pick][q.target] = kept]
                    /\ UNCHANGED ledger
                 \/ /\ disabled[q.pick][q.target] = 0 /\ ~Capped(Picked(t), kept)
                    /\ thread' = [thread EXCEPT ![t].step = "running", ![t].armed = q.pick]
                    /\ arms' = [arms EXCEPT ![q.pick][q.target] = Append(kept, 0)]
                    /\ ledger' = [ledger EXCEPT ![q.pick][q.target] = Append(@, 0)]
<1>1. thread[t].step = "arm" /\ thread[t] \in Records /\ Sound(thread[t]) /\ t \notin Loading
  BY NotIdle, AtWork DEF Arm
<1>2. thread[t].target \in Targets /\ thread[t].pick \in Patterns /\ thread[t].armed = None
  BY <1>1, RecordFacts DEF Sound
<1>3. QED
  BY <1>1, <1>2 DEF Arm

LEMMA ArmInv == ASSUME IInv, NEW t \in Threads, Arm(t) PROVE IInv'
<1> DEFINE g == thread[t].target
           p == thread[t].pick
           r == thread'[t]
<1>1. /\ thread[t].step = "arm" /\ thread[t] \in Records /\ g \in Targets /\ p \in Patterns
      /\ t \notin Loading /\ Sound(thread[t])
  BY ArmCases
<1>2. UNCHANGED <<overlap, log, late, loaded, mtimes, failures, disabled, streak, broken>>
  BY DEF Arm
<1>3. /\ r \in Records /\ r.step = "running" /\ thread' = [thread EXCEPT ![t] = r]
      /\ r.seen = thread[t].seen /\ r.times = thread[t].times /\ r.reads = thread[t].reads
      /\ r.since = thread[t].since
  <2>1. \/ thread' = [thread EXCEPT ![t].step = "running"]
        \/ thread' = [thread EXCEPT ![t].step = "running", ![t].armed = p]
    BY ArmCases
  <2> HIDE DEF p
  <2>2. \/ r = [thread[t] EXCEPT !.step = "running"]
        \/ r = [thread[t] EXCEPT !.step = "running", !.armed = p]
    BY <2>1 DEF IInv, Types
  <2>3. thread' = [thread EXCEPT ![t] = r]
    BY <2>1 DEF IInv, Types
  <2>4. QED
    BY <1>1, <2>2, <2>3 DEF Records, Steps
<1>4. \A s \in Threads \ {t} : thread'[s] = thread[s]
  BY <1>3 DEF IInv, Types
<1> DEFINE Kept == /\ arms' \in [Patterns -> [Targets -> Ages]]
                   /\ ledger' \in [Patterns -> [Targets -> Ages]]
                   /\ ArmsInv'
<1>5. Kept
  <2>1. /\ arms \in [Patterns -> [Targets -> Ages]] /\ ledger \in [Patterns -> [Targets -> Ages]]
        /\ \A q \in Patterns, h \in Targets :
              Sorted(arms[q][h]) /\ ledger[q][h] = Recent(arms[q][h])
    BY DEF IInv, Types, ArmsInv, Recent, Ages
  <2>2. CASE UNCHANGED <<arms, ledger>>
    BY <2>1, <2>2 DEF ArmsInv, Recent
  <2>3. ASSUME arms' = [arms EXCEPT ![p][g] = Recent(arms[p][g])], UNCHANGED ledger
        PROVE  Kept
    <3>1. arms[p][g] \in Ages /\ Sorted(arms[p][g])
      BY <1>1, <2>1, <2>3 DEF g
    <3>2. /\ Recent(arms[p][g]) \in Ages /\ Sorted(Recent(arms[p][g]))
          /\ Recent(Recent(arms[p][g])) = Recent(arms[p][g])
      BY <3>1, Pruning
    <3>3. arms'[p][g] = Recent(arms[p][g]) /\ ledger'[p][g] = Recent(arms[p][g])
      BY <1>1, <2>1, <2>3 DEF g
    <3>4. ASSUME NEW q \in Patterns, NEW h \in Targets, <<q, h>> # <<p, g>>
          PROVE  arms'[q][h] = arms[q][h] /\ ledger'[q][h] = ledger[q][h]
      BY <2>1, <2>3, <3>4
    <3>5. arms' \in [Patterns -> [Targets -> Ages]] /\ ledger' \in [Patterns -> [Targets -> Ages]]
      BY <2>1, <2>3, <3>2
    <3>6. \A q \in Patterns, h \in Targets :
              Sorted(arms'[q][h]) /\ ledger'[q][h] = Recent(arms'[q][h])
      BY <2>1, <3>2, <3>3, <3>4
    <3>7. QED
      BY <3>5, <3>6 DEF ArmsInv, Recent
  <2>4. ASSUME arms' = [arms EXCEPT ![p][g] = Append(Recent(arms[p][g]), 0)],
               ledger' = [ledger EXCEPT ![p][g] = Append(@, 0)]
        PROVE  Kept
    <3> DEFINE more == Append(Recent(arms[p][g]), 0)
    <3>1. arms[p][g] \in Ages /\ Sorted(arms[p][g]) /\ ledger[p][g] = Recent(arms[p][g])
      BY <1>1, <2>1, <2>4 DEF g
    <3>2. more \in Ages /\ Sorted(more) /\ Recent(more) = more
      BY <3>1, Pruning
    <3>3. arms'[p][g] = more /\ ledger'[p][g] = more
      BY <1>1, <2>1, <2>4, <3>1 DEF g
    <3>4. ASSUME NEW q \in Patterns, NEW h \in Targets, <<q, h>> # <<p, g>>
          PROVE  arms'[q][h] = arms[q][h] /\ ledger'[q][h] = ledger[q][h]
      BY <2>1, <2>4, <3>4
    <3> HIDE DEF more
    <3>5. arms' \in [Patterns -> [Targets -> Ages]] /\ ledger' \in [Patterns -> [Targets -> Ages]]
      BY <2>1, <2>4, <3>1, <3>2 DEF more
    <3>6. \A q \in Patterns, h \in Targets :
              Sorted(arms'[q][h]) /\ ledger'[q][h] = Recent(arms'[q][h])
      BY <2>1, <3>2, <3>3, <3>4
    <3>7. QED
      BY <3>5, <3>6 DEF ArmsInv, Recent
  <2>5. QED
    BY <1>1, <2>2, <2>3, <2>4, ArmCases
<1> HIDE DEF p, g, r
<1>6. Types'
  BY <1>2, <1>3, <1>5 DEF IInv, Types, Ages
<1>7. ASSUME NEW s \in Threads, thread'[s] # Idle PROVE Sound(thread[s])'
  <2>1. Sound(r)
    BY <1>1, <1>3 DEF Sound
  <2>2. Sound(thread'[s])
    BY <1>4, <1>7, <2>1 DEF IInv, r
  <2>3. QED
    BY <1>2, <2>2 DEF Sound, Allowed
<1>8. BreakerInv'
  BY <1>2 DEF IInv, BreakerInv
<1>9. ASSUME ~overlap PROVE ReadInv'
  BY <1>1, <1>2, <1>3, <1>4, <1>9, LeaveFiles DEF IInv, r
<1>10. QED
  BY <1>2, <1>5, <1>6, <1>7, <1>8, <1>9 DEF IInv

LEMMA ThresholdFacts ==
    ASSUME Types, NEW p \in Patterns
    PROVE  Threshold(p) \in 1..MaxThreshold /\ DisableFor(p) \in Nat
<1>1. IsLoaded(p) => Body(p) \in Bodies
  BY ElementOfSeq DEF Types, Times, Body, IsLoaded
<1>2. CASE ~IsLoaded(p)
  BY <1>2, Windows, PatternAssumption DEF Threshold, DisableFor
<1>3. CASE IsLoaded(p)
  BY <1>1, <1>3, PatternAssumption DEF Threshold, DisableFor, IsLoaded
<1>4. QED
  BY <1>2, <1>3

\* What a report does to the breaker and to what a reader knows of it.
LEMMA ReportCases ==
    ASSUME IInv, NEW t \in Threads, Report(t)
    PROVE  /\ failures' \in [Patterns -> [Targets -> 0..MaxThreshold]]
           /\ disabled' \in [Patterns -> [Targets -> Nat]]
           /\ BreakerInv'
<1> DEFINE p == thread[t].armed
           g == thread[t].target
<1>1. p \in Patterns \cup {None} /\ g \in Targets
  BY NotIdle, AtWork, RecordFacts DEF Report
<1> HIDE DEF p, g
<1>2. /\ failures \in [Patterns -> [Targets -> 0..MaxThreshold]] /\ disabled \in [Patterns -> [Targets -> Nat]]
      /\ streak = failures /\ broken = disabled
  BY DEF IInv, Types, BreakerInv
<1>3. CASE UNCHANGED <<failures, disabled, streak, broken>>
  BY <1>2, <1>3 DEF BreakerInv
<1>4. ASSUME p \in Patterns, Succeed(p, g), Remember(p, g, TRUE)
      PROVE  /\ failures' \in [Patterns -> [Targets -> 0..MaxThreshold]]
             /\ disabled' \in [Patterns -> [Targets -> Nat]]
             /\ BreakerInv'
  <2>1. ~(0 >= Threshold(p))
    BY <1>4, ThresholdFacts DEF IInv
  <2>2. streak' = [streak EXCEPT ![p][g] = 0] /\ broken' = broken
    BY <1>4, <2>1 DEF Remember
  <2>3. failures' = [failures EXCEPT ![p][g] = 0] /\ disabled' = disabled
    BY <1>4 DEF Succeed
  <2>4. failures' \in [Patterns -> [Targets -> 0..MaxThreshold]]
    <3>1. 0 \in 0..MaxThreshold
      BY PatternAssumption
    <3>2. QED
      BY <1>2, <2>3, <3>1
  <2>5. BreakerInv'
    BY <1>2, <2>2, <2>3 DEF BreakerInv
  <2>6. QED
    BY <1>2, <2>3, <2>4, <2>5
<1>5. ASSUME p \in Patterns, Fail(p, g), Remember(p, g, FALSE)
      PROVE  /\ failures' \in [Patterns -> [Targets -> 0..MaxThreshold]]
             /\ disabled' \in [Patterns -> [Targets -> Nat]]
             /\ BreakerInv'
  <2>1. OneMore(failures[p][g]) \in 0..MaxThreshold /\ DisableFor(p) \in Nat
    BY <1>1, <1>2, <1>5, ThresholdFacts, PatternAssumption DEF IInv, OneMore
  <2>2. /\ streak' = [streak EXCEPT ![p][g] = OneMore(failures[p][g])]
        /\ broken' = IF OneMore(failures[p][g]) >= Threshold(p)
                     THEN [broken EXCEPT ![p][g] = DisableFor(p)] ELSE broken
    BY <1>2, <1>5 DEF Remember
  <2>3. /\ failures' = [failures EXCEPT ![p][g] = OneMore(failures[p][g])]
        /\ disabled' = IF OneMore(failures[p][g]) >= Threshold(p)
                       THEN [disabled EXCEPT ![p][g] = DisableFor(p)] ELSE disabled
    BY <1>1, <1>2, <1>5 DEF Fail
  <2>4. QED
    BY <1>2, <2>1, <2>2, <2>3 DEF BreakerInv
<1>6. QED
  BY <1>1, <1>3, <1>4, <1>5 DEF Report, p, g

LEMMA ReportInv == ASSUME IInv, NEW t \in Threads, Report(t) PROVE IInv'
<1>1. thread' = [thread EXCEPT ![t] = Idle] /\ thread[t].step = "running"
      /\ UNCHANGED <<overlap, log, late, loaded, mtimes, arms, ledger>>
  BY DEF Report
<1>2. thread'[t] = Idle /\ \A s \in Threads \ {t} : thread'[s] = thread[s]
  BY <1>1 DEF IInv, Types
<1>3. Types'
  BY <1>1, ReportCases DEF IInv, Types
<1>4. t \notin Loading /\ Idle.step = "idle"
  BY <1>1 DEF Loading, Idle
<1>5. ASSUME NEW s \in Threads, thread'[s] # Idle PROVE Sound(thread[s])'
  <2>1. Sound(thread'[s])
    BY <1>2, <1>5 DEF IInv
  <2>2. QED
    BY <1>1, <2>1 DEF Sound, Allowed
<1>6. ArmsInv' /\ BreakerInv'
  BY <1>1, ReportCases DEF IInv, ArmsInv
<1>7. ASSUME ~overlap PROVE ReadInv'
  BY <1>1, <1>2, <1>4, <1>7, LeaveFiles DEF IInv
<1>8. QED
  BY <1>1, <1>3, <1>4, <1>5, <1>6, <1>7 DEF IInv

LEMMA TickInv == ASSUME IInv, Tick PROVE IInv'
<1>1. /\ UNCHANGED <<overlap, log, late, loaded, mtimes, failures, thread, streak>>
      /\ arms' = [p \in Patterns |-> [g \in Targets |-> Older(arms[p][g])]]
      /\ ledger' = [p \in Patterns |-> [g \in Targets |-> Youngest(Older(ledger[p][g]), Day)]]
      /\ disabled' = [p \in Patterns |-> [g \in Targets |-> Less(disabled[p][g])]]
      /\ broken' = [p \in Patterns |-> [g \in Targets |-> Less(broken[p][g])]]
  BY DEF Tick
<1>2. ASSUME NEW p \in Patterns, NEW g \in Targets
      PROVE  /\ Older(arms[p][g]) \in Ages /\ Sorted(Older(arms[p][g]))
             /\ Youngest(Older(ledger[p][g]), Day) \in Ages
             /\ Youngest(Older(ledger[p][g]), Day) = Youngest(Older(arms[p][g]), Day)
             /\ Less(disabled[p][g]) \in Nat
  <2>1. arms[p][g] \in Ages /\ Sorted(arms[p][g]) /\ ledger[p][g] = Youngest(arms[p][g], Day)
        /\ disabled[p][g] \in Nat
    BY DEF IInv, Types, ArmsInv, Ages
  <2>2. Older(arms[p][g]) \in Ages /\ Sorted(Older(arms[p][g]))
    BY <2>1, OlderShape
  <2>3. Youngest(Older(ledger[p][g]), Day) = Youngest(Older(arms[p][g]), Day)
    BY <2>1, OlderForgets
  <2>4. Youngest(Older(arms[p][g]), Day) \in Ages
    BY <2>2, YoungestShape, Windows
  <2>5. QED
    BY <2>1, <2>2, <2>3, <2>4 DEF Less
<1>3. Types'
  BY <1>1, <1>2 DEF IInv, Types, Ages
<1>4. ArmsInv'
  BY <1>1, <1>2 DEF ArmsInv
<1>5. ASSUME NEW t \in Threads, thread[t] # Idle PROVE Sound(thread[t])'
  BY <1>1, <1>5 DEF IInv, Sound, Allowed
<1>6. BreakerInv' /\ (~overlap => ReadInv')
  BY <1>1 DEF IInv, BreakerInv, ReadInv, Loading, Fresh, Ordered, Recently
<1>7. QED
  BY <1>1, <1>3, <1>4, <1>5, <1>6 DEF IInv


-----------------------------------------------------------------------------
LEMMA NextInv == IInv /\ [Next]_vars => IInv'
<1> SUFFICES ASSUME IInv, [Next]_vars PROVE IInv'
  OBVIOUS
<1>1. ASSUME NEW p \in Patterns, Edit(p) PROVE IInv'
  BY <1>1, EditInv
<1>2. CASE Expire \/ UNCHANGED vars
  <2>1. late' \in BOOLEAN /\ (late => late') /\ UNCHANGED <<overlap, log, engine, thread, history>>
    BY <1>2 DEF Expire, vars, IInv, Types
  <2>2. QED
    BY <2>1, FrameInv
<1>3. ASSUME NEW t \in Threads, NEW g \in Targets, Begin(t, g) PROVE IInv'
  BY <1>3, BeginInv
<1>4. ASSUME NEW t \in Threads, NEW p \in Patterns, Stat(t, p) PROVE IInv'
  BY <1>4, StatInv
<1>5. ASSUME NEW t \in Threads, List(t) \/ Load(t) \/ ReadTime(t) \/ ReadContents(t) PROVE IInv'
  BY <1>5, ListInv, LoadInv, ReadTimeInv, ReadContentsInv
<1>6. ASSUME NEW t \in Threads, InstallPatterns(t) \/ InstallMtimes(t) PROVE IInv'
  BY <1>6, InstallPatternsInv, InstallMtimesInv
<1>7. ASSUME NEW t \in Threads, Select(t) \/ Arm(t) \/ Report(t) PROVE IInv'
  BY <1>7, SelectInv, ArmInv, ReportInv
<1>8. CASE Tick
  BY <1>8, TickInv
<1>9. QED
  BY <1>1, <1>2, <1>3, <1>4, <1>5, <1>6, <1>7, <1>8 DEF Next

\* What a thread knows of the files, which armings are remembered, how far the
\* breaker agrees with the reports, and, one thread at the files at a time,
\* that what is loaded is as recent as a match requires.
THEOREM Invariance == Spec => []IInv
BY InitInv, NextInv, PTL DEF Spec

\* The shape of the engine, and what _load may leave behind: no contents older
\* than their modification time.
THEOREM TypeCorrect == Spec => []TypeOK
<1>1. IInv => TypeOK
  <2> SUFFICES ASSUME IInv PROVE TypeOK
    OBVIOUS
  <2>1. ASSUME NEW p \in Patterns, NEW g \in Targets
        PROVE  \A i \in DOMAIN arms[p][g] : arms[p][g][i] \in 0..Day
    BY AgesAreNats DEF IInv, Types, Ages
  <2>2. ASSUME NEW t \in Threads, thread[t] # Idle, thread[t].armed # None
        PROVE  thread[t].step = "running" /\ thread[t].armed \in Patterns
    BY <2>2, AtWork, RecordFacts DEF Sound
  <2>3. ASSUME ~overlap, Loading = {} PROVE Ordered(mtimes)
    BY <2>3 DEF IInv, ReadInv, Loading
  <2>4. \A p \in Patterns : loaded[p] \in 0..Version(p) /\ mtimes[p] \in 0..Version(p)
    BY DEF IInv, Types, Times, Version
  <2>5. QED
    BY <2>1, <2>2, <2>3, <2>4 DEF IInv, Types, Ordered, TypeOK
<1>2. QED
  BY <1>1, Invariance, PTL

\* report_outcome: the breaker is tripped by full streaks alone.
THEOREM EarnedBreaks == Spec => []BreaksAreEarned
<1>1. IInv => BreaksAreEarned
  BY DEF IInv, BreakerInv, BreaksAreEarned
<1>2. QED
  BY <1>1, Invariance, PTL

\* The step that arms is the locked part of the thread's own match.
LEMMA ArmsWhere ==
    ASSUME IInv, Next, NEW t \in Threads, NEW p \in Patterns, NEW g \in Targets, Arms(t, p, g)
    PROVE  Arm(t)
<1>1. /\ thread[t].step = "arm" /\ thread'[t].armed = p /\ p # None
      /\ thread[t] \in Records /\ thread[t].armed = None /\ t \notin Loading
  BY NotIdle, AtWork, PatternAssumption DEF Arms, Sound
<1>2. thread'[t] # thread[t] /\ thread \in [Threads -> {Idle} \cup Records]
  BY <1>1 DEF IInv, Types
<1>3. ASSUME NEW s \in Threads, NEW h \in Targets, Begin(s, h) PROVE FALSE
  <2>1. s # t
    BY <1>1, <1>3, NotIdle DEF Begin
  <2>2. QED
    BY <1>2, <1>3, <2>1 DEF Begin
<1>4. ASSUME NEW s \in Threads, NEW o \in Patterns, Stat(s, o) PROVE FALSE
  <2>1. s # t
    BY <1>1, <1>4 DEF Stat
  <2>2. QED
    BY <1>2, <1>4, <2>1 DEF Stat, GiveUp
<1>5. ASSUME NEW s \in Threads, List(s) \/ Load(s) \/ ReadTime(s) \/ ReadContents(s) PROVE FALSE
  <2>1. s # t
    BY <1>1, <1>5 DEF List, Load, ReadTime, ReadContents
  <2>2. QED
    BY <1>2, <1>5, <2>1 DEF List, Load, ReadTime, ReadContents, GiveUp, NextFile
<1>6. ASSUME NEW s \in Threads, InstallPatterns(s) \/ InstallMtimes(s) \/ Select(s) \/ Report(s)
      PROVE  FALSE
  <2>1. s # t
    BY <1>1, <1>6 DEF InstallPatterns, InstallMtimes, Select, Report
  <2>2. QED
    BY <1>2, <1>6, <2>1 DEF InstallPatterns, InstallMtimes, Select, Report
<1>7. ASSUME NEW s \in Threads, Arm(s) PROVE s = t
  BY <1>2, <1>7 DEF Arm
<1>8. QED
  BY <1>2, <1>3, <1>4, <1>5, <1>6, <1>7 DEF Next, Edit, Expire, Tick

\* What it arms then.
LEMMA ArmsWhat ==
    ASSUME IInv, Next, NEW t \in Threads, NEW p \in Patterns, NEW g \in Targets, Arms(t, p, g)
    PROVE  /\ p = thread[t].pick /\ g = thread[t].target /\ thread[t] \in Records
           /\ Allowed(Picked(t), thread[t].since)
           /\ thread[t].as \in 1..Len(log[p])
           /\ disabled[p][g] = 0 /\ ~Capped(Picked(t), Recent(arms[p][g]))
           /\ ledger' = [ledger EXCEPT ![p][g] = Append(@, 0)]
<1> DEFINE o == thread[t].pick
<1>1. Arm(t) /\ p # None
  BY ArmsWhere, PatternAssumption
<1>2. thread'[t].armed = p /\ g = thread[t].target
  BY DEF Arms
<1>3. /\ thread[t] \in Records /\ thread \in [Threads -> {Idle} \cup Records]
      /\ Sound(thread[t]) /\ thread[t].armed = None /\ thread[t].step = "arm"
  BY <1>1, ArmCases DEF IInv, Types
<1>4. ASSUME thread' = [thread EXCEPT ![t].step = "running"] PROVE FALSE
  <2>1. thread'[t].armed = None
    BY <1>3, <1>4 DEF Records
  <2>2. QED
    BY <1>1, <1>2, <2>1
<1>5. ASSUME thread' = [thread EXCEPT ![t].step = "running", ![t].armed = o] PROVE p = o
  <2> HIDE DEF o
  <2>1. thread'[t] = [thread[t] EXCEPT !.step = "running", !.armed = o]
    BY <1>3, <1>5
  <2>2. QED
    BY <1>2, <1>3, <2>1 DEF Records
<1>6. /\ p = o /\ disabled[o][g] = 0 /\ ~Capped(Picked(t), Recent(arms[o][g]))
      /\ ledger' = [ledger EXCEPT ![o][g] = Append(@, 0)]
  BY <1>1, <1>2, <1>4, <1>5, ArmCases
<1>7. Allowed(Picked(t), thread[t].since) /\ thread[t].as \in 1..Len(log[o])
  BY <1>3 DEF Sound, Picked
<1>8. QED
  BY <1>2, <1>3, <1>6, <1>7

\* match and report_outcome: no arming during a cool-down.
THEOREM BreakerBinds == Spec => BreakerHolds
<1>1. ASSUME IInv, [Next]_vars PROVE [CooledDown]_vars
  <2> SUFFICES ASSUME Next, NEW t \in Threads, NEW p \in Patterns, NEW g \in Targets, Arms(t, p, g)
               PROVE  broken[p][g] = 0
    BY <1>1 DEF CooledDown
  <2>1. QED
    BY <1>1, ArmsWhat DEF IInv, BreakerInv
<1>2. QED
  BY <1>1, Invariance, PTL DEF Spec, BreakerHolds

\* _validate and is_armable: nothing is armed without signature and approval,
\* nor when it had expired before the match.
THEOREM ApprovalBinds == Spec => ApprovalHolds
<1>1. ASSUME IInv, [Next]_vars PROVE [Approved]_vars
  <2> SUFFICES ASSUME Next, NEW t \in Threads, NEW p \in Patterns, NEW g \in Targets, Arms(t, p, g)
               PROVE  /\ Picked(t).signed /\ Picked(t).approved
                      /\ thread[t].since => ~Picked(t).expires
    BY <1>1 DEF Approved
  <2>1. QED
    BY <1>1, ArmsWhat DEF Allowed
<1>2. QED
  BY <1>1, Invariance, PTL DEF Spec, ApprovalHolds

\* _maybe_reload, one thread at the files at a time: nothing is armed under
\* contents older than the match, unless its look at the files failed.
THEOREM RevocationBinds == Spec => RevocationHolds
<1>1. ASSUME IInv, [Next]_vars PROVE [UpToDate]_vars
  <2> SUFFICES ASSUME ~overlap, Next, NEW t \in Threads, NEW p \in Patterns, NEW g \in Targets,
                      Arms(t, p, g), ~thread[t].blind
               PROVE  thread[t].as >= thread[t].seen[p]
    BY <1>1 DEF UpToDate
  <2>1. thread[t] # Idle /\ thread[t].step = "arm"
    BY NotIdle DEF Arms
  <2>2. Fresh(thread[t]) /\ p = thread[t].pick /\ thread[t] \in Records
    BY <1>1, <2>1, ArmsWhat DEF IInv, ReadInv
  <2>3. thread[t].seen[p] <= thread[t].as
    BY <2>1, <2>2 DEF Fresh
  <2>4. thread[t].seen[p] \in Nat /\ thread[t].as \in Nat
    BY <2>2, RecordFacts DEF Times
  <2>5. QED
    BY <2>3, <2>4
<1>2. QED
  BY <1>1, Invariance, PTL DEF Spec, RevocationHolds

\* match under its lock: the caps of the contents it selected bound the
\* armings of any hour and any day.
THEOREM CapsBind == Spec => CapsHold
<1>1. ASSUME IInv, [Next]_vars PROVE [CapHolds]_vars
  <2> SUFFICES ASSUME Next, NEW t \in Threads, NEW p \in Patterns, NEW g \in Targets, Arms(t, p, g)
               PROVE  /\ Picked(t).perHour > 0 => Younger(ledger'[p][g], Hour) <= Picked(t).perHour
                      /\ Picked(t).perDay > 0 => Len(ledger'[p][g]) <= Picked(t).perDay
    BY <1>1 DEF CapHolds
  <2> DEFINE ages == ledger[p][g]
             b == Picked(t)
  <2>1. ages \in Ages /\ ages = Recent(arms[p][g]) /\ ledger \in [Patterns -> [Targets -> Ages]]
    BY <1>1 DEF IInv, Types, ArmsInv, Recent, Ages
  <2>2. ~Capped(b, ages) /\ ledger'[p][g] = Append(ages, 0)
    BY <1>1, <2>1, ArmsWhat
  <2>3. b \in Bodies \ {Absent, Rejected}
    <3>1. /\ p = thread[t].pick /\ thread[t].as \in 1..Len(log[p])
          /\ Allowed(Picked(t), thread[t].since) /\ log[p] \in Seq(Bodies)
      BY <1>1, ArmsWhat DEF IInv, Types
    <3>2. QED
      BY <3>1, ElementOfSeq DEF Picked, Allowed
  <2>4. b.perHour \in Nat /\ b.perDay \in Nat
    BY <2>3, PatternAssumption
  <2>5. /\ Younger(Append(ages, 0), Hour) = Younger(ages, Hour) + 1 /\ Younger(ages, Hour) \in Nat
        /\ Len(Append(ages, 0)) = Len(ages) + 1 /\ Len(ages) \in Nat
    <3> HIDE DEF ages
    <3>1. Hour \in Nat \ {0}
      BY Windows
    <3>2. Len(ages) \in Nat /\ Younger(ages, Hour) \in 0..Len(ages)
      BY <2>1, <3>1, AgesAreNats, YoungerType
    <3>3. /\ Younger(Append(ages, 0), Hour) = Younger(ages, Hour) + 1
          /\ Len(Append(ages, 0)) = Len(ages) + 1
      BY <2>1, <3>1, AppendNew
    <3>4. QED
      BY <3>2, <3>3
  <2> HIDE DEF ages, b
  <2>6. /\ b.perHour > 0 => Younger(ledger'[p][g], Hour) <= b.perHour
        /\ b.perDay > 0 => Len(ledger'[p][g]) <= b.perDay
    BY <2>2, <2>4, <2>5 DEF Capped
  <2>7. QED
    BY <2>6 DEF b
<1>2. QED
  BY <1>1, Invariance, PTL DEF Spec, CapsHold
=============================================================================
