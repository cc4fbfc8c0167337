---------------------------- MODULE BudgetProofs ----------------------------
(***************************************************************************)
(* Proofs about Budget, for any number of threads, fingerprints and limits *)
(* and any delay of the lock.                                              *)
(***************************************************************************)
EXTENDS Budget, FiniteSetTheorems, SequenceTheorems, TLAPS

\* The k-th entry from the right: the k-th youngest admission.
FromEnd(s, k) == s[Len(s) - k + 1]

Types ==
    /\ limits \in LimitSets
    /\ state \in [Threads -> {"idle", "stamped", "running"} \cup Rules]
    /\ print \in [Threads -> Prints]
    /\ elapsed \in [Threads -> 0..LongestCall]
    /\ windows \in [Prints -> Seq(0..Stale)]
    /\ ledger \in [Prints -> Seq(0..limits.window + Delay)]
    /\ calls \in Nat /\ seconds \in Nat /\ spent \in Nat

\* No counter passes its ceiling, and no deque the breaker.
Ceilings ==
    /\ limits.calls # None => calls <= limits.calls
    /\ \A f \in Prints : Len(windows[f]) <= limits.runaway

\* The lock is held before the stamp is older than the delay.
StampsInv == \A t \in Threads : state[t] = "stamped" => elapsed[t] <= Delay

\* The older, the further from the right.
Sorted(ages) == \A j, k \in 1..Len(ages) : j <= k => FromEnd(ages, j) <= FromEnd(ages, k)

\* The deque and the history of admissions are the same calls counted from the
\* right, under stamps up to Delay apart.  What the history has forgotten is
\* outside every window; what the deque has let go is about a window old.
Aligned(made, dq) ==
    /\ \A k \in 1..Len(dq) : k <= Len(made) =>
          FromEnd(made, k) <= FromEnd(dq, k) /\ FromEnd(dq, k) <= FromEnd(made, k) + Delay
    /\ \A k \in 1..Len(dq) : k > Len(made) => FromEnd(dq, k) = Stale
    /\ \A k \in 1..Len(made) : k > Len(dq) => FromEnd(made, k) + Delay > limits.window

WindowsInv == \A f \in Prints : Sorted(ledger[f]) /\ Aligned(ledger[f], windows[f])

Running == {t \in Threads : state[t] = "running"}

\* Below the ceiling, all that was spent is on the counter.  At the ceiling, the
\* calls still in flight may each add one longest call.
SpentInv ==
    limits.seconds # None /\ limits.seconds > 0 =>
        /\ seconds <= limits.seconds
        /\ seconds < limits.seconds => spent <= seconds
        /\ seconds = limits.seconds =>
              spent + Cardinality(Running) * LongestCall < limits.seconds + Overshoot

IInv == Types /\ Ceilings /\ StampsInv /\ WindowsInv /\ SpentInv

-----------------------------------------------------------------------------
(* Numbers                                                                 *)

LEMMA ProductMonotone ==
    ASSUME NEW a \in Nat, NEW b \in Nat, NEW c \in Nat, a <= b
    PROVE  a * c \in Nat /\ b * c \in Nat /\ a * c <= b * c
<1>1. PICK d \in Nat : b = a + d
  <2>1. b - a \in Nat /\ b = a + (b - a)
    OBVIOUS
  <2>2. QED
    BY <2>1
<1>2. a * c \in Nat /\ d * c \in Nat
  OBVIOUS
<1>3. b * c = a * c + d * c
  BY <1>1
<1>4. QED
  BY <1>2, <1>3

LEMMA ProductNext ==
    ASSUME NEW a \in Nat, NEW c \in Nat
    PROVE  a * c \in Nat /\ (a + 1) * c = a * c + c
OBVIOUS

LEMMA LimitFacts ==
    ASSUME limits \in LimitSets
    PROVE  /\ limits.window \in Nat /\ limits.runaway \in Nat
           /\ limits.calls # None => limits.calls \in Nat
           /\ limits.seconds # None => limits.seconds \in Nat
           /\ Delay <= limits.window
           /\ Stale \in Nat /\ Stale = limits.window + Delay + 1
BY BudgetAssumption DEF Stale

LEMMA Times == Delay \in Nat /\ LongestCall \in Nat /\ Delay <= LongestCall
BY BudgetAssumption

\* The smallest member of a set of naturals.
LEMMA LeastExists ==
    ASSUME NEW S \in SUBSET Nat, S # {}
    PROVE  \E i \in S : \A j \in S : i <= j
<1>1. PICK i \in S : \A j \in S : ~(<<j, i>> \in OpToRel(<, Nat))
  BY NatLessThanWellFounded, WFMin
<1>2. \A j \in S : ~(j < i)
  BY <1>1 DEF OpToRel
<1>3. QED
  BY <1>2

-----------------------------------------------------------------------------
(* Sequences of ages, counted from the right                               *)

LEMMA FromEndFacts ==
    ASSUME NEW S, NEW s \in Seq(S)
    PROVE  /\ Len(s) \in Nat /\ DOMAIN s = 1..Len(s)
           /\ \A k \in 1..Len(s) : Len(s) - k + 1 \in 1..Len(s) /\ FromEnd(s, k) \in S
           /\ \A i \in 1..Len(s) : Len(s) - i + 1 \in 1..Len(s)
                                     /\ s[i] = FromEnd(s, Len(s) - i + 1)
<1>1. Len(s) \in Nat /\ DOMAIN s = 1..Len(s) /\ \A i \in 1..Len(s) : s[i] \in S
  OBVIOUS
<1>2. \A i \in 1..Len(s) : Len(s) - i + 1 \in 1..Len(s) /\ Len(s) - (Len(s) - i + 1) + 1 = i
  BY <1>1
<1>3. QED
  BY <1>1, <1>2 DEF FromEnd

LEMMA SeqEntries ==
    ASSUME NEW S, NEW s \in Seq(S) PROVE \A i \in DOMAIN s : s[i] \in S
OBVIOUS

LEMMA SeqMonotone ==
    ASSUME NEW S, NEW T, S \subseteq T, NEW s \in Seq(S) PROVE s \in Seq(T)
<1>1. Len(s) \in Nat /\ s \in [1..Len(s) -> S]
  OBVIOUS
<1>2. s \in [1..Len(s) -> T]
  BY <1>1
<1>3. QED
  BY <1>1, <1>2, SeqDef

LEMMA SuffixShape ==
    ASSUME NEW S, NEW s \in Seq(S), NEW m \in 1..(Len(s) + 1)
    PROVE  /\ SubSeq(s, m, Len(s)) \in Seq(S)
           /\ Len(SubSeq(s, m, Len(s))) = Len(s) - m + 1
           /\ \A k \in 1..(Len(s) - m + 1) : FromEnd(SubSeq(s, m, Len(s)), k) = FromEnd(s, k)
<1> DEFINE n == Len(s)
           r == SubSeq(s, m, n)
<1>1. n \in Nat /\ m \in Int /\ \A i \in m..n : s[i] \in S
  BY FromEndFacts
<1>2. /\ r \in Seq(S) /\ Len(r) = IF m <= n THEN n - m + 1 ELSE 0
      /\ \A i \in 1..(n - m + 1) : r[i] = s[m + i - 1]
  BY <1>1, SubSeqProperties
<1> HIDE DEF n, r
<1>3. m \in 1..(n + 1)
  BY DEF n
<1>4. Len(r) = n - m + 1
  BY <1>1, <1>2, <1>3
<1>5. ASSUME NEW k \in 1..(n - m + 1) PROVE r[Len(r) - k + 1] = s[n - k + 1]
  <2> DEFINE i == Len(r) - k + 1
  <2>1. i \in 1..(n - m + 1) /\ m + i - 1 = n - k + 1
    BY <1>1, <1>3, <1>4
  <2> HIDE DEF i
  <2>2. r[i] = s[m + i - 1]
    BY <1>2, <2>1
  <2>3. QED
    BY <2>1, <2>2 DEF i
<1>6. QED
  BY <1>2, <1>4, <1>5 DEF FromEnd, r, n

LEMMA AppendShape ==
    ASSUME NEW S, NEW s \in Seq(S), NEW x \in S
    PROVE  /\ Append(s, x) \in Seq(S) /\ Len(Append(s, x)) = Len(s) + 1
           /\ FromEnd(Append(s, x), 1) = x
           /\ \A k \in 1..Len(s) : FromEnd(Append(s, x), k + 1) = FromEnd(s, k)
<1> DEFINE r == Append(s, x)
<1>1. Len(s) \in Nat /\ \A k \in 1..Len(s) : Len(s) - k + 1 \in 1..Len(s)
  BY FromEndFacts
<1>2. /\ r \in Seq(S) /\ Len(r) = Len(s) + 1 /\ r[Len(s) + 1] = x
      /\ \A i \in 1..Len(s) : r[i] = s[i]
  BY AppendProperties
<1> HIDE DEF r
<1>3. Len(r) - 1 + 1 = Len(s) + 1 /\ \A k \in 1..Len(s) : Len(r) - (k + 1) + 1 = Len(s) - k + 1
  BY <1>1, <1>2
<1>4. QED
  BY <1>1, <1>2, <1>3 DEF FromEnd, r

LEMMA OlderShape ==
    ASSUME limits \in LimitSets, NEW s \in Seq(0..Stale)
    PROVE  /\ Older(s) \in Seq(0..Stale) /\ Len(Older(s)) = Len(s)
           /\ \A k \in 1..Len(s) : FromEnd(Older(s), k) =
                 IF FromEnd(s, k) < Stale THEN FromEnd(s, k) + 1 ELSE Stale
           /\ Sorted(s) => Sorted(Older(s))
<1>1. Stale \in Nat
  BY LimitFacts
<1>2. /\ Len(s) \in Nat /\ DOMAIN s = 1..Len(s) /\ \A i \in 1..Len(s) : s[i] \in 0..Stale
      /\ \A k \in 1..Len(s) : Len(s) - k + 1 \in 1..Len(s) /\ FromEnd(s, k) \in 0..Stale
  BY FromEndFacts
<1>3. /\ Older(s) \in [1..Len(s) -> 0..Stale]
      /\ \A i \in 1..Len(s) : Older(s)[i] = IF s[i] < Stale THEN s[i] + 1 ELSE Stale
  BY <1>1, <1>2 DEF Older, LeastOf
<1>4. Older(s) \in Seq(0..Stale)
  BY <1>2, <1>3, SeqDef
<1>5. Len(Older(s)) = Len(s)
  <2>1. Len(Older(s)) \in Nat /\ 1..Len(Older(s)) = 1..Len(s)
    BY <1>3, <1>4, FromEndFacts
  <2>2. QED
    BY <1>2, <2>1
<1>6. \A k \in 1..Len(s) : FromEnd(Older(s), k) =
         IF FromEnd(s, k) < Stale THEN FromEnd(s, k) + 1 ELSE Stale
  BY <1>2, <1>3, <1>5 DEF FromEnd
<1>7. Sorted(s) => Sorted(Older(s))
  BY <1>1, <1>2, <1>5, <1>6 DEF Sorted
<1>8. QED
  BY <1>4, <1>5, <1>6, <1>7

LEMMA Interval ==
    ASSUME NEW m \in Nat, NEW n \in Nat, m <= n + 1, 1 <= m
    PROVE  IsFiniteSet(m..n) /\ Cardinality(m..n) = n - m + 1
<1>1. m \in Int /\ n \in Int /\ (IF m > n THEN 0 ELSE n - m + 1) = n - m + 1
  OBVIOUS
<1>2. QED
  BY <1>1, FS_Interval

\* What is within a span is counted among the last n where all else is outside.
LEMMA WithinLast ==
    ASSUME NEW s \in Seq(Nat), NEW span \in Nat, NEW n \in 0..Len(s),
           \A k \in 1..Len(s) : k > n => FromEnd(s, k) > span
    PROVE  Within(s, span) \in 0..n
<1> DEFINE S == {i \in DOMAIN s : s[i] <= span}
           T == (Len(s) - n + 1)..Len(s)
<1>1. /\ Len(s) \in Nat /\ DOMAIN s = 1..Len(s) /\ \A i \in 1..Len(s) : s[i] \in Nat
      /\ \A i \in 1..Len(s) : Len(s) - i + 1 \in 1..Len(s) /\ s[i] = FromEnd(s, Len(s) - i + 1)
  BY FromEndFacts
<1>2. S \in SUBSET T
  <2> SUFFICES ASSUME NEW i \in S PROVE i \in T
    OBVIOUS
  <2>1. i \in 1..Len(s) /\ s[i] <= span /\ s[i] \in Nat
    BY <1>1
  <2>2. Len(s) - i + 1 \in 1..Len(s) /\ ~(FromEnd(s, Len(s) - i + 1) > span)
    BY <1>1, <2>1
  <2>3. ~(Len(s) - i + 1 > n)
    BY <2>2
  <2>4. QED
    BY <1>1, <2>1, <2>3
<1>3. IsFiniteSet(T) /\ Cardinality(T) = n
  <2>1. Len(s) - n + 1 \in Nat /\ Len(s) - n + 1 <= Len(s) + 1 /\ 1 <= Len(s) - n + 1
        /\ Len(s) - (Len(s) - n + 1) + 1 = n
    BY <1>1
  <2>2. QED
    BY <1>1, <2>1, Interval
<1> HIDE DEF S, T
<1>4. IsFiniteSet(S) /\ Cardinality(S) <= n
  BY <1>2, <1>3, FS_Subset
<1>5. Cardinality(S) \in Nat
  BY <1>4, FS_CardinalityType
<1>6. QED
  BY <1>4, <1>5 DEF Within, S

\* Counting from the right stops at the first age outside.
LEMMA WithinSorted ==
    ASSUME NEW s \in Seq(Nat), NEW span \in Nat, Sorted(s)
    PROVE  /\ Within(s, span) \in 0..Len(s)
           /\ \A k \in 1..Len(s) : FromEnd(s, k) <= span <=> k <= Within(s, span)
<1> DEFINE n == Len(s)
           Out == {k \in 1..n : FromEnd(s, k) > span}
<1>1. /\ n \in Nat /\ DOMAIN s = 1..n
      /\ \A k \in 1..n : n - k + 1 \in 1..n /\ FromEnd(s, k) \in Nat
      /\ \A i \in 1..n : n - i + 1 \in 1..n /\ s[i] = FromEnd(s, n - i + 1)
  BY FromEndFacts
<1>2. PICK m \in 0..n : \A k \in 1..n : FromEnd(s, k) <= span <=> k <= m
  <2>1. CASE Out = {}
    <3>1. \A k \in 1..n : ~(FromEnd(s, k) > span)
      BY <2>1
    <3>2. n \in 0..n /\ \A k \in 1..n : FromEnd(s, k) <= span /\ k <= n
      BY <1>1, <3>1
    <3>3. QED
      BY <3>2
  <2>2. CASE Out # {}
    <3>1. Out \in SUBSET Nat
      BY <1>1
    <3>2. PICK k \in Out : \A j \in Out : k <= j
      BY <2>2, <3>1, LeastExists
    <3>3. k \in 1..n /\ k - 1 \in 0..n /\ FromEnd(s, k) > span
      BY <1>1, <3>2
    <3>4. \A j \in 1..n : j >= k => FromEnd(s, j) >= FromEnd(s, k)
      BY <1>1, <3>3 DEF Sorted
    <3>5. \A j \in 1..n : FromEnd(s, j) <= span <=> j <= k - 1
      BY <1>1, <3>2, <3>3, <3>4
    <3>6. QED
      BY <3>3, <3>5
  <2>3. QED
    BY <2>1, <2>2
<1>3. {i \in DOMAIN s : s[i] <= span} = (n - m + 1)..n
  <2>1. \A i \in 1..n : s[i] <= span <=> n - i + 1 <= m
    BY <1>1, <1>2
  <2>2. QED
    BY <1>1, <1>2, <2>1
<1>4. Within(s, span) = m
  <2>1. n - m + 1 \in Nat /\ n - m + 1 <= n + 1 /\ 1 <= n - m + 1 /\ n - (n - m + 1) + 1 = m
    BY <1>1, <1>2
  <2>2. QED
    BY <1>1, <1>3, <2>1, Interval DEF Within
<1>5. QED
  BY <1>2, <1>4

\* The youngest of a sorted sequence are a suffix of it, and all of its young ones.
LEMMA YoungestShape ==
    ASSUME NEW s \in Seq(Nat), NEW span \in Nat, Sorted(s)
    PROVE  /\ Youngest(s, span) \in Seq(0..span)
           /\ Len(Youngest(s, span)) \in 0..Len(s)
           /\ Sorted(Youngest(s, span))
           /\ \A k \in 1..Len(Youngest(s, span)) :
                 FromEnd(Youngest(s, span), k) = FromEnd(s, k) /\ FromEnd(s, k) <= span
           /\ \A k \in 1..Len(s) : k > Len(Youngest(s, span)) => FromEnd(s, k) > span
<1> DEFINE n == Len(s)
           m == Within(s, span)
           r == Youngest(s, span)
<1>1. m \in 0..n /\ \A k \in 1..n : FromEnd(s, k) <= span <=> k <= m
  BY WithinSorted
<1>2. n \in Nat /\ \A k \in 1..n : FromEnd(s, k) \in Nat
  BY FromEndFacts
<1>3. n - m + 1 \in 1..(n + 1) /\ n - (n - m + 1) + 1 = m /\ \A k \in 1..m : k \in 1..n
  BY <1>1, <1>2
<1>4. r \in Seq(Nat) /\ Len(r) = m /\ \A k \in 1..m : FromEnd(r, k) = FromEnd(s, k)
  BY <1>3, SuffixShape DEF Youngest
<1> HIDE DEF n, m, r
<1>5. \A k \in 1..m : FromEnd(r, k) \in 0..span
  BY <1>1, <1>2, <1>3, <1>4
<1>6. r \in Seq(0..span)
  <2>1. \A i \in 1..m : r[i] \in 0..span
    <3>1. \A i \in 1..m : m - i + 1 \in 1..m /\ r[i] = FromEnd(r, m - i + 1)
      BY <1>4, FromEndFacts
    <3>2. QED
      BY <1>5, <3>1
  <2>2. QED
    BY <1>4, <2>1
<1>7. Sorted(r)
  BY <1>3, <1>4 DEF Sorted, n
<1>8. QED
  BY <1>1, <1>2, <1>3, <1>4, <1>6, <1>7 DEF n, m, r

-----------------------------------------------------------------------------
(* The deque and the history                                               *)

\* Pruning leaves a suffix: all that left is older than the cutoff, and the
\* first entry that is left is not.
LEMMA PrunedShape ==
    ASSUME NEW S, NEW dq \in Seq(S), NEW now
    PROVE  /\ Pruned(dq, now) \in Seq(S)
           /\ Len(Pruned(dq, now)) \in 0..Len(dq)
           /\ \A k \in 1..Len(Pruned(dq, now)) : FromEnd(Pruned(dq, now), k) = FromEnd(dq, k)
           /\ \A k \in 1..Len(dq) : k > Len(Pruned(dq, now)) => Drops(FromEnd(dq, k), now)
           /\ Len(Pruned(dq, now)) > 0 =>
                 ~Drops(FromEnd(dq, Len(Pruned(dq, now))), now)
<1> DEFINE n == Len(dq)
           r == Pruned(dq, now)
           keep == {i \in DOMAIN dq : \A j \in 1..i-1 : Drops(dq[j], now)}
           Kept(i) == ~Drops(dq[i], now)
           In == {i \in 1..n : Kept(i)}
<1>1. /\ n \in Nat /\ DOMAIN dq = 1..n
      /\ \A k \in 1..n : n - k + 1 \in 1..n /\ FromEnd(dq, k) = dq[n - k + 1]
  BY FromEndFacts DEF FromEnd
<1>2. r = IF \E i \in keep : Kept(i) THEN SubSeq(dq, CHOOSE i \in keep : Kept(i), n) ELSE <<>>
  BY DEF Pruned
<1>3. CASE \E i \in keep : Kept(i)
  <2>1. PICK i \in keep : Kept(i) /\ r = SubSeq(dq, i, n)
    BY <1>2, <1>3
  <2>2. i \in 1..n /\ \A j \in 1..i-1 : Drops(dq[j], now)
    BY <1>1, <2>1
  <2> HIDE DEF n, keep, r
  <2>3. i \in 1..(n + 1) /\ n - i + 1 \in 0..n /\ n - i + 1 > 0 /\ n - (n - i + 1) + 1 = i
    BY <1>1, <2>2
  <2>4. /\ r \in Seq(S) /\ Len(r) = n - i + 1
        /\ \A k \in 1..(n - i + 1) : FromEnd(r, k) = FromEnd(dq, k)
    BY <2>1, <2>3, SuffixShape DEF n
  <2>5. \A k \in 1..n : k > n - i + 1 => n - k + 1 \in 1..i-1
    BY <1>1, <2>2
  <2>6. \A k \in 1..n : k > n - i + 1 => Drops(FromEnd(dq, k), now)
    BY <1>1, <2>2, <2>5
  <2>7. n - i + 1 \in 1..n
    BY <1>1, <2>2
  <2>8. ~Drops(FromEnd(dq, n - i + 1), now)
    BY <1>1, <2>1, <2>3, <2>7
  <2>9. QED
    BY <2>3, <2>4, <2>6, <2>8 DEF n, r
<1>4. CASE ~\E i \in keep : Kept(i)
  <2>1. r = <<>> /\ r \in Seq(S) /\ Len(r) = 0
    BY <1>2, <1>4
  <2>2. In = {}
    <3> SUFFICES ASSUME In # {} PROVE FALSE
      OBVIOUS
    <3>1. In \in SUBSET Nat
      BY <1>1
    <3>2. PICK i \in In : \A j \in In : i <= j
      BY <3>1, LeastExists
    <3>3. i \in 1..n /\ Kept(i) /\ \A j \in 1..i-1 : j \in 1..n /\ ~(i <= j)
      BY <1>1, <3>2
    <3>4. \A j \in 1..i-1 : Drops(dq[j], now)
      BY <3>2, <3>3
    <3>5. i \in keep
      BY <1>1, <3>3, <3>4
    <3>6. QED
      BY <1>4, <3>3, <3>5
  <2>3. \A k \in 1..n : Drops(FromEnd(dq, k), now)
    BY <1>1, <2>2
  <2> HIDE DEF n, r, keep, In
  <2>4. Len(r) \in 0..n /\ ~(Len(r) > 0) /\ \A k \in 1..Len(r) : FALSE
    BY <1>1, <2>1
  <2>5. QED
    BY <2>1, <2>3, <2>4 DEF n, r
<1>5. QED
  BY <1>3, <1>4

Ages == Seq(0..Stale)

LEMMA LedgerAges ==
    ASSUME limits \in LimitSets, NEW made \in Seq(0..limits.window + Delay)
    PROVE  made \in Ages /\ made \in Seq(Nat)
<1>1. (0..limits.window + Delay) \subseteq (0..Stale) /\ (0..limits.window + Delay) \subseteq Nat
  BY LimitFacts, Times
<1>2. QED
  BY <1>1, SeqMonotone DEF Ages

LEMMA EntryFacts ==
    ASSUME limits \in LimitSets, NEW s \in Ages
    PROVE  Len(s) \in Nat /\ \A k \in 1..Len(s) : FromEnd(s, k) \in 0..Stale
BY FromEndFacts DEF Ages

\* Time passes for both: a call stays outside every window once it is there.
LEMMA AlignedOlder ==
    ASSUME limits \in LimitSets,
           NEW made \in Seq(0..limits.window + Delay), Sorted(made),
           NEW dq \in Ages, Aligned(made, dq)
    PROVE  /\ Youngest(Older(made), limits.window + Delay) \in Seq(0..limits.window + Delay)
           /\ Sorted(Youngest(Older(made), limits.window + Delay))
           /\ Older(dq) \in Ages /\ Len(Older(dq)) = Len(dq)
           /\ Aligned(Youngest(Older(made), limits.window + Delay), Older(dq))
<1> DEFINE span == limits.window + Delay
           L == Older(made)
           Y == Youngest(L, span)
           W == Older(dq)
<1>1. /\ limits.window \in Nat /\ Delay \in Nat /\ span \in Nat
      /\ Stale = span + 1 /\ Stale \in Nat
  BY LimitFacts, Times
<1>2. made \in Ages
  BY LedgerAges
<1>3. Len(made) \in Nat /\ \A k \in 1..Len(made) : FromEnd(made, k) \in 0..span
  BY FromEndFacts
<1>4. Len(dq) \in Nat /\ \A k \in 1..Len(dq) : FromEnd(dq, k) \in 0..Stale
  BY EntryFacts
<1>5. /\ L \in Ages /\ Len(L) = Len(made) /\ Sorted(L)
      /\ \A k \in 1..Len(made) : FromEnd(L, k) =
            IF FromEnd(made, k) < Stale THEN FromEnd(made, k) + 1 ELSE Stale
  BY <1>2, OlderShape DEF Ages
<1>6. /\ W \in Ages /\ Len(W) = Len(dq)
      /\ \A k \in 1..Len(dq) : FromEnd(W, k) =
            IF FromEnd(dq, k) < Stale THEN FromEnd(dq, k) + 1 ELSE Stale
  BY OlderShape DEF Ages
<1>7. L \in Seq(Nat)
  <2>1. (0..Stale) \subseteq Nat
    BY <1>1
  <2>2. QED
    BY <1>5, <2>1, SeqMonotone DEF Ages
<1>8. /\ Y \in Seq(0..span) /\ Len(Y) \in 0..Len(L) /\ Sorted(Y)
      /\ \A k \in 1..Len(Y) : FromEnd(Y, k) = FromEnd(L, k) /\ FromEnd(L, k) <= span
      /\ \A k \in 1..Len(L) : k > Len(Y) => FromEnd(L, k) > span
  BY <1>1, <1>5, <1>7, YoungestShape
<1> HIDE DEF span, L, Y, W
<1>9. \A k \in 1..Len(Y) : k \in 1..Len(made) /\ FromEnd(Y, k) = FromEnd(made, k) + 1
  <2> SUFFICES ASSUME NEW k \in 1..Len(Y)
               PROVE  k \in 1..Len(made) /\ FromEnd(Y, k) = FromEnd(made, k) + 1
    OBVIOUS
  <2>1. k \in 1..Len(made)
    BY <1>3, <1>5, <1>8
  <2>2. FromEnd(made, k) \in 0..span /\ FromEnd(Y, k) = FromEnd(L, k)
        /\ FromEnd(L, k) = IF FromEnd(made, k) < Stale THEN FromEnd(made, k) + 1 ELSE Stale
    BY <1>3, <1>5, <1>8, <2>1
  <2>3. FromEnd(made, k) < Stale
    BY <1>1, <2>2
  <2>4. QED
    BY <2>1, <2>2, <2>3
<1>10. \A k \in 1..Len(W) : k <= Len(Y) =>
          FromEnd(Y, k) <= FromEnd(W, k) /\ FromEnd(W, k) <= FromEnd(Y, k) + Delay
  <2> SUFFICES ASSUME NEW k \in 1..Len(W), k <= Len(Y)
               PROVE  FromEnd(Y, k) <= FromEnd(W, k) /\ FromEnd(W, k) <= FromEnd(Y, k) + Delay
    OBVIOUS
  <2>1. k \in 1..Len(Y) /\ k \in 1..Len(made) /\ k \in 1..Len(dq) /\ k <= Len(made)
    BY <1>3, <1>5, <1>6, <1>8
  <2>2. FromEnd(made, k) <= FromEnd(dq, k) /\ FromEnd(dq, k) <= FromEnd(made, k) + Delay
    BY <2>1 DEF Aligned
  <2>3. FromEnd(Y, k) = FromEnd(made, k) + 1 /\ FromEnd(made, k) \in 0..span
        /\ FromEnd(dq, k) \in 0..Stale
        /\ FromEnd(W, k) = IF FromEnd(dq, k) < Stale THEN FromEnd(dq, k) + 1 ELSE Stale
    BY <1>3, <1>4, <1>6, <1>9, <2>1
  <2>4. CASE FromEnd(dq, k) < Stale
    BY <1>1, <2>2, <2>3, <2>4
  <2>5. CASE ~(FromEnd(dq, k) < Stale)
    <3>1. FromEnd(W, k) = Stale /\ FromEnd(dq, k) = Stale
      BY <1>1, <2>3, <2>5
    <3>2. QED
      BY <1>1, <2>2, <2>3, <3>1
  <2>6. QED
    BY <2>4, <2>5
<1>11. \A k \in 1..Len(W) : k > Len(Y) => FromEnd(W, k) = Stale
  <2> SUFFICES ASSUME NEW k \in 1..Len(W), k > Len(Y) PROVE FromEnd(W, k) = Stale
    OBVIOUS
  <2>1. /\ k \in 1..Len(dq) /\ FromEnd(dq, k) \in 0..Stale
        /\ FromEnd(W, k) = IF FromEnd(dq, k) < Stale THEN FromEnd(dq, k) + 1 ELSE Stale
    BY <1>4, <1>6
  <2>2. CASE k > Len(made)
    <3>1. FromEnd(dq, k) = Stale
      BY <2>1, <2>2 DEF Aligned
    <3>2. QED
      BY <1>1, <2>1, <3>1
  <2>3. CASE k <= Len(made)
    <3>1. k \in 1..Len(made) /\ k \in 1..Len(L)
      BY <1>3, <1>5, <2>1, <2>3
    <3>2. FromEnd(L, k) > span
      BY <1>8, <3>1
    <3>3. FromEnd(made, k) \in 0..span /\ FromEnd(made, k) + 1 > span
      BY <1>1, <1>3, <1>5, <3>1, <3>2
    <3>4. FromEnd(made, k) <= FromEnd(dq, k)
      BY <2>1, <2>3 DEF Aligned
    <3>5. QED
      BY <1>1, <2>1, <3>3, <3>4
  <2>4. QED
    BY <1>3, <2>1, <2>2, <2>3
<1>12. \A k \in 1..Len(Y) : k > Len(W) => FromEnd(Y, k) + Delay > limits.window
  <2> SUFFICES ASSUME NEW k \in 1..Len(Y), k > Len(W)
               PROVE  FromEnd(Y, k) + Delay > limits.window
    OBVIOUS
  <2>1. k \in 1..Len(made) /\ k > Len(dq) /\ FromEnd(Y, k) = FromEnd(made, k) + 1
    BY <1>6, <1>9
  <2>2. FromEnd(made, k) + Delay > limits.window /\ FromEnd(made, k) \in 0..span
    BY <1>3, <2>1 DEF Aligned
  <2>3. QED
    BY <1>1, <2>1, <2>2
<1>13. Aligned(Y, W)
  BY <1>10, <1>11, <1>12 DEF Aligned
<1>14. QED
  BY <1>6, <1>8, <1>13 DEF span, L, Y, W

\* What pruning drops, at most a delay after its stamp, the history shows to be
\* about a window old.
LEMMA AlignedPruned ==
    ASSUME limits \in LimitSets,
           NEW made \in Seq(0..limits.window + Delay),
           NEW dq \in Ages, Aligned(made, dq), NEW now \in 0..Delay
    PROVE  /\ Pruned(dq, now) \in Ages
           /\ Len(Pruned(dq, now)) \in 0..Len(dq)
           /\ Len(Pruned(dq, now)) <= Len(made)
           /\ Aligned(made, Pruned(dq, now))
<1> DEFINE r == Pruned(dq, now)
           n == Len(dq)
<1>1. limits.window \in Nat /\ Delay \in Nat /\ Stale = limits.window + Delay + 1
  BY LimitFacts, Times
<1>2. n \in Nat /\ \A k \in 1..n : FromEnd(dq, k) \in 0..Stale
  BY EntryFacts
<1>3. /\ Len(made) \in Nat
      /\ \A k \in 1..Len(made) : FromEnd(made, k) \in 0..(limits.window + Delay)
  BY FromEndFacts
<1>4. /\ r \in Ages /\ Len(r) \in 0..n
      /\ \A k \in 1..Len(r) : FromEnd(r, k) = FromEnd(dq, k)
      /\ \A k \in 1..n : k > Len(r) => FromEnd(dq, k) > now + limits.window
      /\ Len(r) > 0 => ~(FromEnd(dq, Len(r)) > now + limits.window)
  BY PrunedShape DEF Ages, Drops
<1> HIDE DEF r, n
<1>5. Len(r) <= Len(made)
  <2> SUFFICES ASSUME Len(r) > Len(made) PROVE FALSE
    BY <1>2, <1>3, <1>4
  <2>1. Len(r) \in 1..n /\ Len(r) > 0
    BY <1>2, <1>3, <1>4
  <2>2. FromEnd(dq, Len(r)) = Stale
    BY <2>1 DEF Aligned, n
  <2>3. QED
    BY <1>1, <1>4, <2>1, <2>2
<1>6. \A k \in 1..Len(r) : k \in 1..n
  BY <1>2, <1>4
<1>7. \A k \in 1..Len(made) : k > Len(r) => FromEnd(made, k) + Delay > limits.window
  <2> SUFFICES ASSUME NEW k \in 1..Len(made), k > Len(r)
               PROVE  FromEnd(made, k) + Delay > limits.window
    OBVIOUS
  <2>1. CASE k > n
    BY <2>1 DEF Aligned, n
  <2>2. CASE k <= n
    <3>1. k \in 1..n /\ k <= Len(made)
      BY <1>2, <1>3, <2>2
    <3>2. FromEnd(dq, k) <= FromEnd(made, k) + Delay
      BY <3>1 DEF Aligned, n
    <3>3. FromEnd(dq, k) > now + limits.window /\ FromEnd(dq, k) \in 0..Stale
      BY <1>2, <1>4, <3>1
    <3>4. QED
      BY <1>1, <1>3, <3>2, <3>3
  <2>3. QED
    BY <1>2, <1>3, <2>1, <2>2
<1>8. \A k \in 1..Len(r) : k <= Len(made) =>
         FromEnd(made, k) <= FromEnd(r, k) /\ FromEnd(r, k) <= FromEnd(made, k) + Delay
  BY <1>4, <1>6 DEF Aligned, n
<1>9. \A k \in 1..Len(r) : k > Len(made) => FromEnd(r, k) = Stale
  BY <1>4, <1>6 DEF Aligned, n
<1>10. Aligned(made, r)
  BY <1>7, <1>8, <1>9 DEF Aligned
<1>11. QED
  BY <1>4, <1>5, <1>10 DEF r, n

\* An admission goes to both, a stamp at most a delay old to the deque.
LEMMA AlignedAppend ==
    ASSUME limits \in LimitSets,
           NEW made \in Seq(0..limits.window + Delay), Sorted(made),
           NEW dq \in Ages, Aligned(made, dq), NEW now \in 0..Delay
    PROVE  /\ Append(made, 0) \in Seq(0..limits.window + Delay)
           /\ Sorted(Append(made, 0))
           /\ Append(dq, now) \in Ages /\ Len(Append(dq, now)) = Len(dq) + 1
           /\ Aligned(Append(made, 0), Append(dq, now))
<1> DEFINE L == Append(made, 0)
           W == Append(dq, now)
           m == Len(made)
           n == Len(dq)
<1>1. limits.window \in Nat /\ Delay \in Nat /\ Stale = limits.window + Delay + 1
  BY LimitFacts, Times
<1>2. 0 \in 0..(limits.window + Delay) /\ now \in 0..Stale /\ now \in 0..Delay
  BY <1>1
<1>3. n \in Nat /\ m \in Nat /\ \A k \in 1..m : FromEnd(made, k) \in 0..(limits.window + Delay)
  BY EntryFacts, FromEndFacts
<1>4. /\ L \in Seq(0..limits.window + Delay) /\ Len(L) = m + 1 /\ FromEnd(L, 1) = 0
      /\ \A k \in 1..m : FromEnd(L, k + 1) = FromEnd(made, k)
  <2> DEFINE S == 0..limits.window + Delay
  <2>1. made \in Seq(S) /\ 0 \in S
    BY <1>2
  <2> HIDE DEF S
  <2>2. /\ L \in Seq(S) /\ Len(L) = m + 1 /\ FromEnd(L, 1) = 0
        /\ \A k \in 1..m : FromEnd(L, k + 1) = FromEnd(made, k)
    BY <2>1, AppendShape
  <2>3. QED
    BY <2>2 DEF S
<1>5. /\ W \in Ages /\ Len(W) = n + 1 /\ FromEnd(W, 1) = now
      /\ \A k \in 1..n : FromEnd(W, k + 1) = FromEnd(dq, k)
  <2> DEFINE S == 0..Stale
  <2>1. dq \in Seq(S) /\ now \in S
    BY <1>2 DEF Ages
  <2> HIDE DEF S
  <2>2. /\ W \in Seq(S) /\ Len(W) = n + 1 /\ FromEnd(W, 1) = now
        /\ \A k \in 1..n : FromEnd(W, k + 1) = FromEnd(dq, k)
    BY <2>1, AppendShape
  <2>3. QED
    BY <2>2 DEF Ages, S
<1> HIDE DEF L, W
<1>6. \A k \in 1..(m + 1) : k # 1 => k - 1 \in 1..m /\ FromEnd(L, k) = FromEnd(made, k - 1)
  <2> SUFFICES ASSUME NEW k \in 1..(m + 1), k # 1
               PROVE  k - 1 \in 1..m /\ FromEnd(L, k) = FromEnd(made, k - 1)
    OBVIOUS
  <2>1. k - 1 \in 1..m /\ (k - 1) + 1 = k
    BY <1>3
  <2>2. QED
    BY <1>4, <2>1
<1>7. \A k \in 1..(n + 1) : k # 1 => k - 1 \in 1..n /\ FromEnd(W, k) = FromEnd(dq, k - 1)
  <2> SUFFICES ASSUME NEW k \in 1..(n + 1), k # 1
               PROVE  k - 1 \in 1..n /\ FromEnd(W, k) = FromEnd(dq, k - 1)
    OBVIOUS
  <2>1. k - 1 \in 1..n /\ (k - 1) + 1 = k
    BY <1>3
  <2>2. QED
    BY <1>5, <2>1
<1>8. Sorted(L)
  <2> SUFFICES ASSUME NEW j \in 1..(m + 1), NEW k \in 1..(m + 1), j <= k
               PROVE  FromEnd(L, j) <= FromEnd(L, k)
    BY <1>4 DEF Sorted
  <2>1. CASE j = 1
    <3>1. FromEnd(L, k) \in 0..(limits.window + Delay)
      BY <1>2, <1>3, <1>4, <1>6
    <3>2. QED
      BY <1>1, <1>4, <2>1, <3>1
  <2>2. CASE j # 1
    <3>1. k # 1 /\ j - 1 <= k - 1
      BY <1>3, <2>2
    <3>2. QED
      BY <1>6, <2>2, <3>1 DEF Sorted
  <2>3. QED
    BY <2>1, <2>2
<1> HIDE DEF m, n
<1>9. \A k \in 1..(n + 1) : k <= m + 1 =>
         FromEnd(L, k) <= FromEnd(W, k) /\ FromEnd(W, k) <= FromEnd(L, k) + Delay
  <2> SUFFICES ASSUME NEW k \in 1..(n + 1), k <= m + 1
               PROVE  FromEnd(L, k) <= FromEnd(W, k) /\ FromEnd(W, k) <= FromEnd(L, k) + Delay
    OBVIOUS
  <2>1. CASE k = 1
    BY <1>1, <1>2, <1>4, <1>5, <2>1
  <2>2. CASE k # 1
    <3>1. k - 1 \in 1..n /\ k - 1 <= m /\ k \in 1..(m + 1)
      BY <1>3, <2>2
    <3>2. FromEnd(L, k) = FromEnd(made, k - 1) /\ FromEnd(W, k) = FromEnd(dq, k - 1)
      BY <1>6, <1>7, <2>2, <3>1
    <3>3. QED
      BY <3>1, <3>2 DEF Aligned, m, n
  <2>3. QED
    BY <2>1, <2>2
<1>10. \A k \in 1..(n + 1) : k > m + 1 => FromEnd(W, k) = Stale
  <2> SUFFICES ASSUME NEW k \in 1..(n + 1), k > m + 1 PROVE FromEnd(W, k) = Stale
    OBVIOUS
  <2>1. k # 1 /\ k - 1 \in 1..n /\ k - 1 > m
    BY <1>3
  <2>2. QED
    BY <1>7, <2>1 DEF Aligned, m, n
<1>11. \A k \in 1..(m + 1) : k > n + 1 => FromEnd(L, k) + Delay > limits.window
  <2> SUFFICES ASSUME NEW k \in 1..(m + 1), k > n + 1
               PROVE  FromEnd(L, k) + Delay > limits.window
    OBVIOUS
  <2>1. k # 1 /\ k - 1 \in 1..m /\ k - 1 > n
    BY <1>3
  <2>2. QED
    BY <1>6, <2>1 DEF Aligned, m, n
<1>12. Aligned(L, W)
  BY <1>4, <1>5, <1>9, <1>10, <1>11 DEF Aligned
<1>13. QED
  BY <1>4, <1>5, <1>8, <1>12 DEF L, W, m, n

-----------------------------------------------------------------------------
(* What is spent                                                           *)

LEMMA ThreadFacts ==
    /\ IsFiniteSet(Threads) /\ Cardinality(Threads) \in Nat
    /\ IsFiniteSet(Running) /\ Cardinality(Running) \in Nat
    /\ Cardinality(Running) <= Cardinality(Threads)
    /\ Overshoot \in Nat
<1>1. IsFiniteSet(Threads) /\ Running \in SUBSET Threads
  BY BudgetAssumption DEF Running
<1>2. IsFiniteSet(Running) /\ Cardinality(Running) <= Cardinality(Threads)
  BY <1>1, FS_Subset
<1>3. Cardinality(Threads) \in Nat /\ Cardinality(Running) \in Nat
  BY <1>1, <1>2, FS_CardinalityType
<1>4. Overshoot \in Nat
  BY <1>3, Times, ProductNext DEF Overshoot
<1>5. QED
  BY <1>1, <1>2, <1>3, <1>4

LEMMA SpentKept ==
    ASSUME SpentInv, Running' = Running, UNCHANGED <<limits, seconds, spent>>
    PROVE  SpentInv'
BY DEF SpentInv, Overshoot

LEMMA WindowsKept ==
    ASSUME WindowsInv, UNCHANGED <<limits, windows, ledger>>
    PROVE  WindowsInv'
BY DEF WindowsInv, Sorted, Aligned, FromEnd, Stale

LEMMA InitInv == Init => IInv
<1> SUFFICES ASSUME Init PROVE IInv
  OBVIOUS
<1>1. limits \in LimitSets
  BY DEF Init
<1>2. /\ <<>> \in Seq(0..Stale) /\ <<>> \in Seq(0..limits.window + Delay)
      /\ Len(<<>>) = 0
  OBVIOUS
<1>3. 0 \in 0..LongestCall /\ 0 <= Delay
  BY Times
<1>4. Types
  BY <1>1, <1>2, <1>3 DEF Init, Types
<1>5. Ceilings
  <2>1. limits.calls # None => 0 <= limits.calls
    BY <1>1, LimitFacts
  <2>2. 0 <= limits.runaway
    BY <1>1, LimitFacts
  <2>3. QED
    BY <1>2, <2>1, <2>2 DEF Init, Ceilings
<1>6. StampsInv
  BY <1>3 DEF Init, StampsInv
<1>7. WindowsInv
  BY <1>2 DEF Init, WindowsInv, Sorted, Aligned
<1>8. SpentInv
  <2> SUFFICES ASSUME limits.seconds # None, limits.seconds > 0
               PROVE  /\ seconds <= limits.seconds
                      /\ seconds < limits.seconds => spent <= seconds
                      /\ seconds # limits.seconds
    BY DEF SpentInv
  <2>1. seconds = 0 /\ spent = 0 /\ limits.seconds \in Nat
    BY <1>1, LimitFacts DEF Init
  <2>2. QED
    BY <2>1
<1>9. QED
  BY <1>4, <1>5, <1>6, <1>7, <1>8 DEF IInv

-----------------------------------------------------------------------------
(* Begin, Check, End and Tick                                              *)

LEMMA BeginInv ==
    ASSUME IInv, NEW t \in Threads, NEW f \in Prints, Begin(t, f) PROVE IInv'
<1>1. Types /\ Ceilings /\ StampsInv /\ WindowsInv /\ SpentInv
  BY DEF IInv
<1>2. UNCHANGED <<limits, windows, calls, seconds, ledger, spent>>
  BY DEF Begin
<1>3. 0 \in 0..LongestCall /\ 0 <= Delay
  BY Times
<1>4. Types'
  BY <1>1, <1>2, <1>3 DEF Begin, Types, Stale
<1>5. Ceilings'
  BY <1>1, <1>2 DEF Ceilings
<1>6. StampsInv'
  BY <1>1, <1>3 DEF Begin, StampsInv, Types
<1>7. WindowsInv'
  BY <1>1, <1>2, WindowsKept
<1>8. Running' = Running
  BY <1>1 DEF Begin, Running, Types
<1>9. SpentInv'
  BY <1>1, <1>2, <1>8, SpentKept
<1>10. QED
  BY <1>4, <1>5, <1>6, <1>7, <1>9 DEF IInv

\* A refused call leaves the deque as it was or pruned.
LEMMA RefuseInv ==
    ASSUME IInv, NEW t \in Threads, state[t] = "stamped", NEW rule \in Rules,
           Refuse(t, rule), UNCHANGED <<limits, print, elapsed, seconds, spent>>,
           \/ UNCHANGED windows
           \/ windows' = [windows EXCEPT ![print[t]] = Pruned(windows[print[t]], elapsed[t])]
    PROVE  IInv'
<1> DEFINE f == print[t]
           r == Pruned(windows[f], elapsed[t])
<1>1. Types /\ Ceilings /\ StampsInv /\ WindowsInv /\ SpentInv
  BY DEF IInv
<1>2. /\ UNCHANGED <<limits, print, elapsed, seconds, spent, calls, ledger>>
      /\ state' = [state EXCEPT ![t] = rule]
  BY DEF Refuse
<1>3. limits \in LimitSets /\ limits.runaway \in Nat /\ Stale' = Stale
  BY <1>1, <1>2, LimitFacts DEF Types, Stale
<1>4. /\ f \in Prints /\ windows[f] \in Ages
      /\ ledger[f] \in Seq(0..limits.window + Delay) /\ Aligned(ledger[f], windows[f])
      /\ elapsed[t] \in 0..Delay
  BY <1>1, Times DEF Types, WindowsInv, StampsInv, Ages
<1>5. /\ r \in Ages /\ Len(r) \in 0..Len(windows[f]) /\ Aligned(ledger[f], r)
  BY <1>3, <1>4, AlignedPruned
<1>6. Len(windows[f]) \in Nat /\ Len(windows[f]) <= limits.runaway
  BY <1>1, <1>3, <1>4, EntryFacts DEF Ceilings
<1>7. Len(r) <= limits.runaway
  BY <1>3, <1>5, <1>6
<1> HIDE DEF r
<1>8. \A g \in Prints : windows'[g] = windows[g] \/ (g = f /\ windows'[g] = r)
  BY <1>1, <1>4 DEF Types, r
<1>9. windows' \in [Prints -> Ages]
  BY <1>1, <1>4, <1>5 DEF Types, Ages, r
<1>10. Types'
  BY <1>1, <1>2, <1>3, <1>9 DEF Types, Ages
<1>11. Ceilings'
  BY <1>1, <1>2, <1>7, <1>8 DEF Ceilings
<1>12. StampsInv'
  <2>1. rule # "stamped"
    BY DEF Rules
  <2>2. QED
    BY <1>1, <1>2, <2>1 DEF StampsInv, Types
<1>13. WindowsInv'
  <2> SUFFICES ASSUME NEW g \in Prints
               PROVE  Sorted(ledger[g]) /\ Aligned(ledger[g], windows'[g])
    BY <1>2, <1>3 DEF WindowsInv, Sorted, Aligned, FromEnd
  <2>1. Sorted(ledger[g]) /\ Aligned(ledger[g], windows[g])
    BY <1>1 DEF WindowsInv
  <2>2. QED
    BY <1>5, <1>8, <2>1
<1>14. Running' = Running
  <2>1. rule # "running"
    BY DEF Rules
  <2>2. QED
    BY <1>1, <1>2, <2>1 DEF Running, Types
<1>15. SpentInv'
  BY <1>1, <1>2, <1>14, SpentKept
<1>16. QED
  BY <1>10, <1>11, <1>12, <1>13, <1>15 DEF IInv

LEMMA AdmitInv ==
    ASSUME IInv, NEW t \in Threads, state[t] = "stamped", Admit(t),
           ~OverCalls, ~OverSeconds,
           UNCHANGED <<limits, print, elapsed, seconds, spent>>,
           Guarded => ~Trips(Pruned(windows[print[t]], elapsed[t])),
           windows' = IF Guarded
                      THEN [windows EXCEPT ![print[t]] =
                               Append(Pruned(windows[print[t]], elapsed[t]), elapsed[t])]
                      ELSE windows
    PROVE  IInv'
<1> DEFINE f == print[t]
           r == Pruned(windows[f], elapsed[t])
           W == Append(r, elapsed[t])
           L == Append(ledger[f], 0)
<1>1. Types /\ Ceilings /\ StampsInv /\ WindowsInv /\ SpentInv
  BY DEF IInv
<1>2. /\ state' = [state EXCEPT ![t] = "running"]
      /\ calls' = Counted(calls, 1, limits.calls)
      /\ ledger' = IF Guarded THEN [ledger EXCEPT ![f] = L] ELSE ledger
      /\ windows' = IF Guarded THEN [windows EXCEPT ![f] = W] ELSE windows
  BY DEF Admit
<1>3. limits \in LimitSets /\ limits.runaway \in Nat /\ Stale' = Stale
  BY <1>1, LimitFacts DEF Types, Stale
<1>4. /\ f \in Prints /\ windows[f] \in Ages
      /\ ledger[f] \in Seq(0..limits.window + Delay) /\ Aligned(ledger[f], windows[f])
      /\ Sorted(ledger[f]) /\ elapsed[t] \in 0..Delay
  BY <1>1, Times DEF Types, WindowsInv, StampsInv, Ages
<1>5. r \in Ages /\ Aligned(ledger[f], r)
  BY <1>3, <1>4, AlignedPruned
<1>6. /\ L \in Seq(0..limits.window + Delay) /\ Sorted(L)
      /\ W \in Ages /\ Len(W) = Len(r) + 1 /\ Aligned(L, W)
  BY <1>3, <1>4, <1>5, AlignedAppend
<1>7. Guarded => Len(W) <= limits.runaway
  <2>1. Len(r) \in Nat /\ (Guarded => ~(Len(r) >= limits.runaway))
    BY <1>3, <1>5, EntryFacts DEF Trips
  <2>2. QED
    BY <1>3, <1>6, <2>1
<1> HIDE DEF W, L
<1>8. \A g \in Prints :
         \/ windows'[g] = windows[g] /\ ledger'[g] = ledger[g]
         \/ Guarded /\ windows'[g] = W /\ ledger'[g] = L
  BY <1>1, <1>2, <1>4 DEF Types
<1>9. calls' \in Nat /\ (limits.calls # None => calls' <= limits.calls)
  <2>1. calls \in Nat /\ (limits.calls # None => limits.calls \in Nat)
    BY <1>1, LimitFacts DEF Types
  <2>2. QED
    BY <1>2, <2>1 DEF Counted, LeastOf
<1>10. Types'
  <2>1. windows' \in [Prints -> Ages]
    BY <1>1, <1>2, <1>6 DEF Types, Ages
  <2>2. ledger' \in [Prints -> Seq(0..limits.window + Delay)]
    BY <1>1, <1>2, <1>6 DEF Types
  <2>3. state' \in [Threads -> {"idle", "stamped", "running"} \cup Rules]
    BY <1>1, <1>2 DEF Types
  <2>4. QED
    BY <1>1, <1>3, <1>9, <2>1, <2>2, <2>3 DEF Types, Ages
<1>11. Ceilings'
  BY <1>1, <1>7, <1>8, <1>9 DEF Ceilings
<1>12. StampsInv'
  BY <1>1, <1>2 DEF StampsInv, Types
<1>13. WindowsInv'
  <2> SUFFICES ASSUME NEW g \in Prints
               PROVE  Sorted(ledger'[g]) /\ Aligned(ledger'[g], windows'[g])
    BY <1>3 DEF WindowsInv, Sorted, Aligned, FromEnd
  <2>1. Sorted(ledger[g]) /\ Aligned(ledger[g], windows[g])
    BY <1>1 DEF WindowsInv
  <2>2. QED
    BY <1>6, <1>8, <2>1
<1>14. SpentInv'
  <2> SUFFICES ASSUME limits.seconds # None, limits.seconds > 0
               PROVE  /\ seconds <= limits.seconds
                      /\ seconds < limits.seconds => spent <= seconds
                      /\ seconds # limits.seconds
    BY DEF SpentInv
  <2>1. seconds \in Nat /\ limits.seconds \in Nat /\ ~(seconds >= limits.seconds)
    BY <1>1, LimitFacts DEF Types, OverSeconds
  <2>2. QED
    BY <1>1, <2>1 DEF SpentInv
<1>15. QED
  BY <1>10, <1>11, <1>12, <1>13, <1>14 DEF IInv

LEMMA CheckInv == ASSUME IInv, NEW t \in Threads, Check(t) PROVE IInv'
<1> DEFINE dq == Pruned(windows[print[t]], elapsed[t])
<1>1. state[t] = "stamped" /\ UNCHANGED <<limits, print, elapsed, seconds, spent>>
  BY DEF Check
<1>2. CASE Refuse(t, "budget_calls") /\ UNCHANGED windows
  BY <1>1, <1>2, RefuseInv DEF Rules
<1>3. CASE Refuse(t, "budget_seconds") /\ UNCHANGED windows
  BY <1>1, <1>3, RefuseInv DEF Rules
<1>4. CASE /\ Refuse(t, "budget_runaway")
           /\ windows' = [windows EXCEPT ![print[t]] = Refused(dq, elapsed[t])]
  BY <1>1, <1>4, RefuseInv DEF Rules, Refused
<1>5. CASE /\ ~OverCalls /\ ~OverSeconds /\ ~(Guarded /\ Trips(dq)) /\ Admit(t)
           /\ windows' = IF Guarded
                         THEN [windows EXCEPT ![print[t]] = Append(dq, elapsed[t])]
                         ELSE windows
  BY <1>1, <1>5, AdmitInv
<1>6. QED
  BY <1>2, <1>3, <1>4, <1>5 DEF Check

\* The one step that moves the counters of time.
LEMMA EndSpent == ASSUME IInv, NEW t \in Threads, End(t) PROVE SpentInv'
<1> DEFINE S == limits.seconds
           n == Cardinality(Running)
           c == LongestCall
<1>1. Types /\ SpentInv
  BY DEF IInv
<1>2. /\ state' = [state EXCEPT ![t] = "idle"] /\ UNCHANGED limits
      /\ seconds' = Counted(seconds, elapsed[t], S)
      /\ spent' = IF state[t] = "running" /\ S # None
                  THEN LeastOf(spent + elapsed[t], S + Overshoot)
                  ELSE spent
  BY DEF End
<1> SUFFICES ASSUME S # None, S > 0
             PROVE  /\ seconds' <= S
                    /\ seconds' < S => spent' <= seconds'
                    /\ seconds' = S =>
                          spent' + Cardinality(Running') * c < S + Overshoot
  BY <1>2 DEF SpentInv, Overshoot
<1>3. /\ S \in Nat /\ c \in Nat /\ seconds \in Nat /\ spent \in Nat
      /\ elapsed[t] \in Nat /\ elapsed[t] <= c /\ n \in Nat /\ Overshoot \in Nat
      /\ n <= Cardinality(Threads) /\ Cardinality(Threads) \in Nat
  BY <1>1, LimitFacts, Times, ThreadFacts DEF Types
<1>4. /\ seconds <= S /\ (seconds < S => spent <= seconds)
      /\ seconds = S => spent + n * c < S + Overshoot
  BY <1>1 DEF SpentInv
<1>5. seconds' = (IF seconds + elapsed[t] <= S THEN seconds + elapsed[t] ELSE S)
  BY <1>2 DEF Counted, LeastOf
<1>6. Overshoot = Cardinality(Threads) * c /\ n * c \in Nat /\ n * c <= Overshoot
  BY <1>3, ProductMonotone DEF Overshoot
<1>7. CASE state[t] = "running"
  <2>1. Running' = Running \ {t} /\ t \in Running
    BY <1>1, <1>2, <1>7 DEF Types, Running
  <2>2. Cardinality(Running') = n - 1 /\ n - 1 \in Nat
    <3>1. IsFiniteSet(Running) /\ Cardinality(Running') = n - 1
      BY <2>1, ThreadFacts, FS_RemoveElement
    <3>2. IsFiniteSet(Running')
      BY <2>1, <3>1, FS_Subset
    <3>3. QED
      BY <3>1, <3>2, FS_CardinalityType
  <2> DEFINE m == n - 1
  <2>3. m \in Nat /\ n = m + 1
    BY <1>3, <2>2
  <2> HIDE DEF S, n, c, m
  <2>4. n * c = m * c + c /\ m * c \in Nat
    BY <1>3, <2>3, ProductNext
  <2>5. spent' <= spent + elapsed[t] /\ spent' \in Nat
    BY <1>2, <1>3, <1>7 DEF LeastOf, S
  <2>6. seconds' = S => spent' + m * c < S + Overshoot
    <3>1. CASE seconds = S
      BY <1>3, <1>4, <2>4, <2>5, <3>1
    <3>2. CASE seconds < S
      BY <1>3, <1>4, <1>6, <2>4, <2>5, <3>2
    <3>3. QED
      BY <1>3, <1>4, <3>1, <3>2
  <2>7. seconds' <= S /\ (seconds' < S => spent' <= seconds')
    BY <1>3, <1>4, <1>5, <2>5
  <2>8. Cardinality(Running') = m
    BY <2>2 DEF m
  <2>9. QED
    BY <2>6, <2>7, <2>8 DEF S, c
<1>8. CASE state[t] # "running"
  <2>1. Running' = Running /\ spent' = spent
    BY <1>1, <1>2, <1>8 DEF Types, Running
  <2> HIDE DEF S, c
  <2>2. seconds' = S => spent + n * c < S + Overshoot
    <3>1. CASE seconds = S
      BY <1>4, <3>1
    <3>2. CASE seconds < S
      BY <1>3, <1>4, <1>6, <3>2
    <3>3. QED
      BY <1>3, <1>4, <3>1, <3>2
  <2>3. seconds' <= S /\ (seconds' < S => spent <= seconds')
    BY <1>3, <1>4, <1>5
  <2>4. QED
    BY <2>1, <2>2, <2>3 DEF S, c
<1>9. QED
  BY <1>7, <1>8

LEMMA EndInv == ASSUME IInv, NEW t \in Threads, End(t) PROVE IInv'
<1>1. Types /\ Ceilings /\ StampsInv /\ WindowsInv /\ SpentInv
  BY DEF IInv
<1>2. /\ UNCHANGED <<limits, print, windows, calls, ledger>>
      /\ state' = [state EXCEPT ![t] = "idle"]
      /\ elapsed' = [elapsed EXCEPT ![t] = 0]
  BY DEF End
<1>3. 0 \in 0..LongestCall
  BY Times
<1>4. seconds' \in Nat /\ spent' \in Nat
  <2>1. /\ seconds \in Nat /\ spent \in Nat /\ elapsed[t] \in Nat
        /\ limits.seconds # None => limits.seconds \in Nat
        /\ Overshoot \in Nat
    BY <1>1, LimitFacts, ThreadFacts, Times DEF Types
  <2>2. seconds' = Counted(seconds, elapsed[t], limits.seconds)
        /\ spent' = IF state[t] = "running" /\ limits.seconds # None
                    THEN LeastOf(spent + elapsed[t], limits.seconds + Overshoot)
                    ELSE spent
    BY DEF End
  <2>3. QED
    BY <2>1, <2>2 DEF Counted, LeastOf
<1>5. Types'
  BY <1>1, <1>2, <1>3, <1>4 DEF Types, Stale
<1>6. Ceilings'
  BY <1>1, <1>2 DEF Ceilings
<1>7. StampsInv'
  BY <1>1, <1>2 DEF StampsInv, Types
<1>8. WindowsInv'
  BY <1>1, <1>2, WindowsKept
<1>9. QED
  BY <1>5, <1>6, <1>7, <1>8, EndSpent DEF IInv

LEMMA TickInv == ASSUME IInv, Tick PROVE IInv'
<1> DEFINE W(f) == Older(windows[f])
           L(f) == Youngest(Older(ledger[f]), limits.window + Delay)
<1>1. Types /\ Ceilings /\ StampsInv /\ WindowsInv /\ SpentInv
  BY DEF IInv
<1>2. /\ UNCHANGED <<limits, state, print, calls, seconds, spent>>
      /\ windows' = [f \in Prints |-> W(f)] /\ ledger' = [f \in Prints |-> L(f)]
      /\ elapsed' = [t \in Threads |-> IF state[t] = "idle" THEN 0 ELSE elapsed[t] + 1]
      /\ \A t \in Threads : /\ state[t] = "stamped" => elapsed[t] < Delay
                            /\ state[t] # "idle" => elapsed[t] < LongestCall
  BY DEF Tick
<1>3. limits \in LimitSets /\ Stale' = Stale
  BY <1>1, <1>2 DEF Types, Stale
<1>4. ASSUME NEW f \in Prints
      PROVE  /\ L(f) \in Seq(0..limits.window + Delay) /\ Sorted(L(f))
             /\ W(f) \in Ages /\ Len(W(f)) = Len(windows[f]) /\ Aligned(L(f), W(f))
  <2>1. /\ ledger[f] \in Seq(0..limits.window + Delay) /\ Sorted(ledger[f])
        /\ windows[f] \in Ages /\ Aligned(ledger[f], windows[f])
    BY <1>1 DEF Types, WindowsInv, Ages
  <2>2. QED
    BY <1>3, <2>1, AlignedOlder
<1> HIDE DEF W, L
<1>5. \A t \in Threads : /\ elapsed'[t] \in 0..LongestCall
                         /\ state[t] = "stamped" => elapsed'[t] <= Delay
  <2> SUFFICES ASSUME NEW t \in Threads
               PROVE  /\ elapsed'[t] \in 0..LongestCall
                      /\ state[t] = "stamped" => elapsed'[t] <= Delay
    OBVIOUS
  <2>1. elapsed[t] \in 0..LongestCall /\ elapsed[t] \in Nat
    BY <1>1, Times DEF Types
  <2>2. CASE state[t] = "idle"
    BY <1>2, <2>2, Times
  <2>3. CASE state[t] # "idle"
    BY <1>2, <2>1, <2>3, Times
  <2>4. QED
    BY <2>2, <2>3
<1>6. Types'
  <2>1. windows' \in [Prints -> Ages] /\ ledger' \in [Prints -> Seq(0..limits.window + Delay)]
    BY <1>2, <1>4
  <2>2. elapsed' \in [Threads -> 0..LongestCall]
    BY <1>2, <1>5
  <2>3. QED
    BY <1>1, <1>2, <1>3, <2>1, <2>2 DEF Types, Ages
<1>7. Ceilings'
  BY <1>1, <1>2, <1>4 DEF Ceilings
<1>8. StampsInv'
  BY <1>2, <1>5 DEF StampsInv
<1>9. WindowsInv'
  <2> SUFFICES ASSUME NEW f \in Prints
               PROVE  Sorted(ledger'[f]) /\ Aligned(ledger'[f], windows'[f])
    BY <1>2, <1>3 DEF WindowsInv, Sorted, Aligned, FromEnd
  <2>1. ledger'[f] = L(f) /\ windows'[f] = W(f)
    BY <1>2
  <2>2. QED
    BY <1>4, <2>1
<1>10. Running' = Running
  BY <1>2 DEF Running
<1>11. SpentInv'
  BY <1>1, <1>2, <1>10, SpentKept
<1>12. QED
  BY <1>6, <1>7, <1>8, <1>9, <1>11 DEF IInv

LEMMA StutterInv == ASSUME IInv, UNCHANGED vars PROVE IInv'
<1>1. Types /\ Ceilings /\ StampsInv /\ WindowsInv /\ SpentInv
  BY DEF IInv
<1>2. UNCHANGED <<limits, state, print, elapsed, windows, calls, seconds, ledger, spent>>
  BY DEF vars
<1>3. Types' /\ Ceilings' /\ StampsInv'
  BY <1>1, <1>2 DEF Types, Ceilings, StampsInv, Stale
<1>4. Running' = Running
  BY <1>2 DEF Running
<1>5. WindowsInv' /\ SpentInv'
  BY <1>1, <1>2, <1>4, WindowsKept, SpentKept
<1>6. QED
  BY <1>3, <1>5 DEF IInv

LEMMA NextInv == IInv /\ [Next]_vars => IInv'
<1> SUFFICES ASSUME IInv, [Next]_vars PROVE IInv'
  OBVIOUS
<1>1. CASE \E t \in Threads, f \in Prints : Begin(t, f)
  BY <1>1, BeginInv
<1>2. CASE \E t \in Threads : Check(t) \/ End(t)
  BY <1>2, CheckInv, EndInv
<1>3. CASE Tick
  BY <1>3, TickInv
<1>4. CASE UNCHANGED vars
  BY <1>4, StutterInv
<1>5. QED
  BY <1>1, <1>2, <1>3, <1>4 DEF Next

-----------------------------------------------------------------------------
\* The inductive invariant holds in every reachable state.
THEOREM Invariance == Spec => []IInv
<1>1. Init => IInv
  BY InitInv
<1>2. IInv /\ [Next]_vars => IInv'
  BY NextInv
<1>3. QED
  BY <1>1, <1>2, PTL DEF Spec

\* Every state has its type, no deque grows past the breaker and no counter of
\* calls past its ceiling.
THEOREM TypeCorrect == Spec => []TypeOK
<1>1. IInv => TypeOK
  <2> SUFFICES ASSUME IInv PROVE TypeOK
    OBVIOUS
  <2>1. Types /\ Ceilings
    BY DEF IInv
  <2>2. ASSUME NEW f \in Prints
        PROVE  /\ Len(windows[f]) <= limits.runaway
               /\ \A i \in DOMAIN windows[f] : windows[f][i] \in 0..Stale
    <3>1. windows[f] \in Seq(0..Stale)
      BY <2>1 DEF Types
    <3>2. \A i \in DOMAIN windows[f] : windows[f][i] \in 0..Stale
      BY <3>1, SeqEntries, Zenon
    <3>3. QED
      BY <2>1, <3>2 DEF Ceilings
  <2>3. QED
    BY <2>1, <2>2 DEF TypeOK, Types, Ceilings
<1>2. QED
  BY <1>1, Invariance, PTL

\* However threads overlap, no more than runaway calls with one fingerprint are
\* admitted in any span of the window less the delay of the lock: the deque
\* holds them all.
THEOREM RunawayGuards == Spec => []RunawayHolds
<1>1. IInv => RunawayHolds
  <2> SUFFICES ASSUME IInv, NEW f \in Prints
               PROVE  Within(ledger[f], limits.window - Delay) <= limits.runaway
    BY DEF RunawayHolds
  <2> DEFINE L == ledger[f]
             W == windows[f]
             span == limits.window - Delay
             n == IF Len(W) <= Len(L) THEN Len(W) ELSE Len(L)
  <2>1. /\ limits \in LimitSets /\ L \in Seq(0..limits.window + Delay) /\ W \in Ages
        /\ Aligned(L, W) /\ Len(W) <= limits.runaway
    BY DEF IInv, Types, Ceilings, WindowsInv, Ages
  <2>2. /\ limits.window \in Nat /\ Delay \in Nat /\ span \in Nat /\ limits.runaway \in Nat
    BY <2>1, LimitFacts, Times
  <2>3. L \in Seq(Nat) /\ Len(L) \in Nat /\ Len(W) \in Nat
        /\ \A k \in 1..Len(L) : FromEnd(L, k) \in Nat
    BY <2>1, LedgerAges, FromEndFacts, EntryFacts
  <2>4. n \in 0..Len(L) /\ n <= limits.runaway
    BY <2>1, <2>2, <2>3
  <2>5. \A k \in 1..Len(L) : k > Len(W) => FromEnd(L, k) + Delay > limits.window
    BY <2>1 DEF Aligned
  <2> HIDE DEF L, W
  <2>6. \A k \in 1..Len(L) : k > n => FromEnd(L, k) > span
    BY <2>2, <2>3, <2>5
  <2> HIDE DEF n, span
  <2>7. Within(L, span) \in 0..n
    BY <2>2, <2>3, <2>4, <2>6, WithinLast
  <2>8. QED
    BY <2>2, <2>3, <2>4, <2>7 DEF L, span
<1>2. QED
  BY <1>1, Invariance, PTL

\* Admitted calls pass the time ceiling by less than one longest call per thread.
THEOREM CeilingOvershoot == Spec => []OvershootBounded
<1>1. IInv => OvershootBounded
  <2> SUFFICES ASSUME IInv, limits.seconds # None, limits.seconds > 0
               PROVE  spent < limits.seconds + Overshoot
    BY DEF OvershootBounded
  <2>1. /\ seconds <= limits.seconds
        /\ seconds < limits.seconds => spent <= seconds
        /\ seconds = limits.seconds =>
              spent + Cardinality(Running) * LongestCall < limits.seconds + Overshoot
    BY DEF IInv, SpentInv
  <2>2. limits.seconds \in Nat /\ seconds \in Nat /\ spent \in Nat
    BY LimitFacts DEF IInv, Types
  <2>3. Cardinality(Running) * LongestCall \in Nat /\ Overshoot \in Nat
    BY ThreadFacts, Times, ProductNext
  <2>4. QED
    BY <2>1, <2>2, <2>3
<1>2. QED
  BY <1>1, Invariance, PTL

\* The guard trips only where runaway calls with the fingerprint were admitted in
\* the last window, give or take the delay of the lock.
THEOREM EarnedTrips == Spec => TripsAreEarned
<1>1. IInv /\ [Next]_vars => [EarnedTrip]_vars
  <2> SUFFICES ASSUME IInv, Next, NEW t \in Threads,
                      state'[t] = "budget_runaway", state[t] = "stamped"
               PROVE  Within(ledger[print[t]], limits.window + Delay) >= limits.runaway
    BY DEF EarnedTrip
  <2> DEFINE f == print[t]
             L == ledger[f]
             dq == Pruned(windows[f], elapsed[t])
             span == limits.window + Delay
  <2>1. Types /\ StampsInv /\ WindowsInv
    BY DEF IInv
  <2>2. Check(t) /\ Trips(dq)
    <3>1. CASE \E u \in Threads, g \in Prints : Begin(u, g)
      BY <2>1, <3>1 DEF Begin, Types
    <3>2. CASE \E u \in Threads : End(u)
      BY <2>1, <3>2 DEF End, Types
    <3>3. CASE Tick
      BY <3>3 DEF Tick
    <3>4. CASE \E u \in Threads : Check(u)
      <4>1. PICK u \in Threads : Check(u)
        BY <3>4
      <4>2. u = t
        BY <2>1, <4>1 DEF Check, Refuse, Admit, Types
      <4>3. Trips(dq)
        BY <2>1, <4>1, <4>2 DEF Check, Refuse, Admit, Types
      <4>4. QED
        BY <4>1, <4>2, <4>3
    <3>5. QED
      BY <3>1, <3>2, <3>3, <3>4 DEF Next
  <2>3. /\ limits \in LimitSets /\ L \in Seq(0..span) /\ windows[f] \in Ages
        /\ Aligned(L, windows[f]) /\ Sorted(L) /\ elapsed[t] \in 0..Delay
    BY <2>1, Times DEF Types, WindowsInv, StampsInv, Ages
  <2>4. Len(dq) <= Len(L) /\ dq \in Ages
    BY <2>3, AlignedPruned
  <2>5. span \in Nat /\ limits.runaway \in Nat
    BY <2>3, LimitFacts, Times
  <2>6. L \in Seq(Nat) /\ Len(L) \in Nat /\ \A k \in 1..Len(L) : FromEnd(L, k) \in 0..span
    BY <2>3, LedgerAges, FromEndFacts
  <2>7. Len(dq) \in Nat /\ Len(dq) >= limits.runaway
    BY <2>2, <2>3, <2>4, EntryFacts DEF Trips
  <2> HIDE DEF L, dq, span
  <2>8. Within(L, span) = Len(L)
    <3>1. /\ Within(L, span) \in 0..Len(L)
          /\ \A k \in 1..Len(L) : FromEnd(L, k) <= span <=> k <= Within(L, span)
      BY <2>3, <2>5, <2>6, WithinSorted
    <3>2. CASE Len(L) = 0
      BY <3>1, <3>2
    <3>3. CASE Len(L) # 0
      <4>1. Len(L) \in 1..Len(L)
        BY <2>6, <3>3
      <4>2. FromEnd(L, Len(L)) <= span
        BY <2>5, <2>6, <4>1
      <4>3. QED
        BY <2>6, <3>1, <4>1, <4>2
    <3>4. QED
      BY <3>2, <3>3
  <2>9. QED
    BY <2>4, <2>5, <2>6, <2>7, <2>8 DEF L, span
<1>2. QED
  BY <1>1, Invariance, PTL DEF Spec, TripsAreEarned

=============================================================================
