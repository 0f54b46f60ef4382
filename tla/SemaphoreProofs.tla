--------------------------- MODULE SemaphoreProofs ---------------------------
(***************************************************************************)
(* Theorems about Semaphore for any finite set of callers, any limits and  *)
(* both users.                                                             *)
(***************************************************************************)
EXTENDS Semaphore, FiniteSetTheorems, SequenceTheorems, TLAPS

SemInv == /\ TypeOK
          /\ holders \cap waits = {}
          /\ SlotsCounted /\ QueueIsWaits /\ NoneStranded

\* Every set of callers is finite.
LEMMA Counted == ASSUME NEW S \in SUBSET Callers
                 PROVE  IsFiniteSet(S) /\ Cardinality(S) \in Nat
  BY SemaphoreAssumption, FS_Subset, FS_CardinalityType

\* resize admits as many as fit: no more than there are, none beyond the
\* ceiling, and all of them or as many as reach it.
LEMMA FitBounds ==
    ASSUME NEW q \in Seq(Callers), NEW n \in Nat, NEW m \in Nat
    PROVE  LET k == Fit(q, n, m)
           IN  /\ k \in 0..Len(q)
               /\ k = Len(q) \/ ~Free(n + k, m)
               /\ k > 0 => m = 0 \/ n + k <= m
  BY DEF Fit, Free

\* The first k waiters are k callers whose acquire is pending.
LEMMA FirstCounted ==
    ASSUME SemInv, NEW k \in 0..Len(queue)
    PROVE  /\ First(queue, k) \subseteq waits
           /\ First(queue, k) \subseteq Callers
           /\ Cardinality(First(queue, k)) = k
<1> USE DEF SemInv, TypeOK, QueueIsWaits
<1>1. First(queue, k) \subseteq waits
  BY DEF First, ToSet
<1>2. DEFINE f == [i \in 1..k |-> queue[i]]
<1>3. f \in Bijection(1..k, First(queue, k))
  <2>1. f \in [1..k -> First(queue, k)]
    BY DEF First
  <2>2. \A i, j \in 1..k : f[i] = f[j] => i = j
    OBVIOUS
  <2>3. \A x \in First(queue, k) : \E i \in 1..k : f[i] = x
    BY DEF First
  <2> QED BY <2>1, <2>2, <2>3 DEF Bijection, Injection, Surjection, IsInjective
<1>4. IsFiniteSet(1..k) /\ Cardinality(1..k) = k
  BY FS_Interval
<1>5. Cardinality(First(queue, k)) = k
  BY <1>3, <1>4, FS_Bijection DEF ExistsBijection
<1> QED BY <1>1, <1>5

\* A caller at the end of the queue.
LEMMA Appended ==
    ASSUME NEW s \in Seq(Callers), NEW c \in Callers, c \notin ToSet(s),
           \A i, j \in 1..Len(s) : s[i] = s[j] => i = j
    PROVE  LET t == Append(s, c)
           IN  /\ t \in Seq(Callers) /\ t # <<>>
               /\ ToSet(t) = ToSet(s) \cup {c}
               /\ \A i, j \in 1..Len(t) : t[i] = t[j] => i = j
<1> DEFINE t == Append(s, c)
<1>1. /\ t \in Seq(Callers) /\ t # <<>> /\ Len(t) = Len(s) + 1
      /\ \A i \in 1..Len(s) : t[i] = s[i]
      /\ t[Len(s) + 1] = c
  BY AppendProperties
<1>2. DOMAIN t = 1..(Len(s) + 1) /\ DOMAIN s = 1..Len(s) /\ Len(s) \in Nat
  BY <1>1
<1> HIDE DEF t
<1>3. \A i \in 1..Len(s) : t[i] # c
  BY <1>1, <1>2 DEF ToSet
<1>4. ToSet(t) = ToSet(s) \cup {c}
  <2>1. \A i \in 1..(Len(s) + 1) : i \in 1..Len(s) \/ i = Len(s) + 1
    BY <1>2
  <2>2. 1..Len(s) \subseteq 1..(Len(s) + 1) /\ Len(s) + 1 \in 1..(Len(s) + 1)
    BY <1>2
  <2> QED BY <1>1, <1>2, <2>1, <2>2 DEF ToSet
<1>5. \A i, j \in 1..Len(t) : t[i] = t[j] => i = j
  BY <1>1, <1>2, <1>3
<1> QED BY <1>1, <1>4, <1>5 DEF t

\* What the queue keeps when the first k are taken off it.
LEMMA RestQueue ==
    ASSUME SemInv, NEW k \in 0..Len(queue)
    PROVE  /\ Rest(queue, k) \in Seq(Callers)
           /\ Len(Rest(queue, k)) = Len(queue) - k
           /\ \A i \in 1..(Len(queue) - k) : Rest(queue, k)[i] = queue[i + k]
           /\ ToSet(Rest(queue, k)) = waits \ First(queue, k)
<1> USE DEF SemInv, TypeOK
<1>1. \A i \in (k + 1)..Len(queue) : queue[i] \in Callers
  OBVIOUS
<1>2. /\ Rest(queue, k) \in Seq(Callers)
      /\ Len(Rest(queue, k)) = Len(queue) - k
      /\ \A i \in 1..(Len(queue) - k) : Rest(queue, k)[i] = queue[i + k]
  BY <1>1, SubSeqProperties DEF Rest
<1>3. ToSet(Rest(queue, k)) = {queue[i] : i \in (k + 1)..Len(queue)}
  <2>1. \A i \in (k + 1)..Len(queue) : i - k \in 1..(Len(queue) - k) /\ queue[i] = Rest(queue, k)[i - k]
    BY <1>2
  <2>2. \A i \in 1..(Len(queue) - k) : i + k \in (k + 1)..Len(queue) /\ Rest(queue, k)[i] = queue[i + k]
    BY <1>2
  <2>3. DOMAIN Rest(queue, k) = 1..(Len(queue) - k)
    BY <1>2
  <2>4. ToSet(Rest(queue, k)) = {Rest(queue, k)[i] : i \in 1..(Len(queue) - k)}
    BY <2>3 DEF ToSet
  <2> HIDE DEF SemInv, TypeOK
  <2> QED BY <2>1, <2>2, <2>4
<1>4. {queue[i] : i \in (k + 1)..Len(queue)} = waits \ First(queue, k)
  BY DEF QueueIsWaits, ToSet, First
<1> QED BY <1>2, <1>3, <1>4

\* The holders, the waiters and the queue after the first k are admitted.
LEMMA Admitted ==
    ASSUME SemInv, NEW k \in 0..Len(queue)
    PROVE  /\ holders \cup Woken(k) \in SUBSET Callers
           /\ Cardinality(holders \cup Woken(k)) = current + k
           /\ (holders \cup Woken(k)) \cap (waits \ First(queue, k)) = {}
           /\ \A i, j \in 1..Len(Rest(queue, k)) :
                Rest(queue, k)[i] = Rest(queue, k)[j] => i = j
<1>1. Woken(k) = First(queue, k) /\ First(queue, k) \subseteq waits
  BY FirstCounted DEF Woken
<1>2. Cardinality(holders \cup First(queue, k)) = Cardinality(holders) + k
  <2>1. holders \cap First(queue, k) = {}
    BY <1>1 DEF SemInv
  <2>2. holders \in SUBSET Callers /\ First(queue, k) \in SUBSET Callers
    BY FirstCounted DEF SemInv, TypeOK
  <2>3. IsFiniteSet(holders) /\ IsFiniteSet(First(queue, k)) /\ Cardinality(holders) \in Nat
    BY <2>2, Counted
  <2>4. Cardinality(holders \cup First(queue, k))
          = Cardinality(holders) + Cardinality(First(queue, k)) - Cardinality({})
    BY <2>1, <2>3, FS_Union
  <2> QED BY <2>3, <2>4, FirstCounted, FS_EmptySet
<1>3. \A i, j \in 1..(Len(queue) - k) : Rest(queue, k)[i] = Rest(queue, k)[j] => i = j
  <2>1. \A i \in 1..(Len(queue) - k) : Rest(queue, k)[i] = queue[i + k] /\ i + k \in 1..Len(queue)
    BY RestQueue DEF SemInv, TypeOK
  <2>2. \A i, j \in 1..Len(queue) : queue[i] = queue[j] => i = j
    BY DEF SemInv, QueueIsWaits
  <2> QED BY <2>1, <2>2
<1> QED
  BY <1>1, <1>2, <1>3, RestQueue, FirstCounted DEF SemInv, TypeOK, SlotsCounted

LEMMA CeilingType == \A n \in Limits : Ceiling(n) \in Nat
  BY SemaphoreAssumption DEF Ceiling

LEMMA SemInit == Init => SemInv
<1> SUFFICES ASSUME Init PROVE SemInv
  OBVIOUS
<1>1. TypeOK
  BY CeilingType DEF Init, TypeOK
<1>2. SlotsCounted
  BY FS_EmptySet DEF Init, SlotsCounted
<1>3. QueueIsWaits
  BY DEF Init, QueueIsWaits, ToSet
<1> QED BY <1>1, <1>2, <1>3 DEF Init, SemInv, NoneStranded

\* What a step may do to the holders: the property AdmitsWithinCap.
WithinCap == holders' \ holders # {} => max' = 0 \/ Cardinality(holders') <= max'

LEMMA AcquireStep ==
    ASSUME SemInv, NEW c \in Callers, Acquire(c)
    PROVE  SemInv' /\ WithinCap
<1> DEFINE k == Fit(queue, current, max')
<1> DEFINE H == holders \cup Woken(k)
<1> DEFINE W == waits \ First(queue, k)
<1>1. max' \in Nat /\ UNCHANGED setting
  BY CeilingType DEF SemInv, TypeOK, Acquire
<1>2. /\ k \in 0..Len(queue)
      /\ k = Len(queue) \/ ~Free(current + k, max')
      /\ k > 0 => max' = 0 \/ current + k <= max'
  BY <1>1, FitBounds DEF SemInv, TypeOK
<1>3. c \notin H /\ c \notin W /\ c \notin waits
  BY DEF Acquire, Idle, Woken
<1>4. /\ current \in Nat /\ queue \in Seq(Callers) /\ waits \in SUBSET Callers
      /\ holders \in SUBSET Callers
  BY DEF SemInv, TypeOK
<1>5. /\ H \in SUBSET Callers /\ Cardinality(H) = current + k /\ H \cap W = {}
      /\ \A i, j \in 1..Len(Rest(queue, k)) :
           Rest(queue, k)[i] = Rest(queue, k)[j] => i = j
  BY <1>2, Admitted
<1>6. /\ Rest(queue, k) \in Seq(Callers) /\ Len(Rest(queue, k)) = Len(queue) - k
      /\ ToSet(Rest(queue, k)) = W
  BY <1>2, RestQueue
<1>7. CASE Free(current + k, max')
  <2>1. /\ current' = current + k + 1 /\ queue' = Rest(queue, k) /\ waits' = W
        /\ holders' = H \cup {c}
    BY <1>7 DEF Acquire
  <2>2. Cardinality(holders') = current'
    BY <2>1, <1>3, <1>5, Counted, FS_AddElement
  <2>3. max' = 0 \/ current' <= max'
    BY <1>1, <1>2, <1>4, <1>7, <2>1 DEF Free
  <2>4. k = Len(queue)
    BY <1>2, <1>7
  <2>5. queue' = <<>>
    BY <1>6, <2>1, <2>4
  <2>6. TypeOK' /\ (holders \cap waits = {})'
    BY <1>1, <1>2, <1>3, <1>4, <1>5, <1>6, <2>1 DEF SemInv, TypeOK
  <2>7. QueueIsWaits'
    BY <1>5, <1>6, <2>1 DEF QueueIsWaits
  <2> QED BY <2>2, <2>3, <2>5, <2>6, <2>7 DEF SemInv, SlotsCounted, NoneStranded, WithinCap
<1>8. CASE ~Free(current + k, max')
  <2>1. /\ current' = current + k /\ queue' = Append(Rest(queue, k), c)
        /\ waits' = W \cup {c} /\ holders' = H
    BY <1>4, <1>2, <1>8 DEF Acquire
  <2>2. /\ queue' \in Seq(Callers) /\ queue' # <<>> /\ ToSet(queue') = W \cup {c}
        /\ \A i, j \in 1..Len(queue') : queue'[i] = queue'[j] => i = j
    BY <1>3, <1>5, <1>6, <2>1, Appended
  <2>3. TypeOK'
    BY <1>1, <1>2, <1>4, <1>5, <2>1, <2>2 DEF SemInv, TypeOK
  <2>4. QueueIsWaits' /\ (holders \cap waits = {})'
    BY <1>3, <1>5, <2>1, <2>2 DEF QueueIsWaits
  <2>5. NoneStranded'
    BY <1>8, <2>1 DEF NoneStranded
  <2>6. WithinCap
    <3>1. CASE k = 0
      <4>1. First(queue, 0) = {}
        BY DEF First
      <4> QED BY <2>1, <3>1, <4>1 DEF WithinCap, Woken
    <3>2. CASE k > 0
      BY <1>2, <1>5, <2>1, <3>2 DEF WithinCap
    <3> QED BY <1>2, <3>1, <3>2
  <2> QED BY <1>5, <2>1, <2>3, <2>4, <2>5, <2>6 DEF SemInv, SlotsCounted
<1> QED BY <1>7, <1>8

LEMMA AcquireAbortedStep ==
    ASSUME SemInv, NEW c \in Callers, AcquireAborted(c)
    PROVE  SemInv' /\ WithinCap
<1> DEFINE k == Fit(queue, current, max')
<1> DEFINE W == waits \ First(queue, k)
<1>1. max' \in Nat /\ UNCHANGED setting
  BY CeilingType DEF SemInv, TypeOK, AcquireAborted
<1>2. /\ k \in 0..Len(queue)
      /\ k = Len(queue) \/ ~Free(current + k, max')
      /\ k > 0 => max' = 0 \/ current + k <= max'
  BY <1>1, FitBounds DEF SemInv, TypeOK
<1>3. /\ current' = current + k /\ queue' = Rest(queue, k) /\ waits' = W
      /\ holders' = holders \cup Woken(k)
  BY DEF AcquireAborted
<1> HIDE DEF k
<1>4. TypeOK' /\ (holders \cap waits = {})' /\ QueueIsWaits' /\ SlotsCounted'
  <2>1. /\ Rest(queue, k) \in Seq(Callers) /\ ToSet(Rest(queue, k)) = W
        /\ holders \cup Woken(k) \in SUBSET Callers
        /\ Cardinality(holders \cup Woken(k)) = current + k
        /\ (holders \cup Woken(k)) \cap W = {}
        /\ \A i, j \in 1..Len(Rest(queue, k)) :
             Rest(queue, k)[i] = Rest(queue, k)[j] => i = j
    BY <1>2, Admitted, RestQueue
  <2>2. setting \in Limits /\ current + k \in Nat /\ W \in SUBSET Callers
    BY <1>2 DEF SemInv, TypeOK
  <2> QED BY <1>1, <1>3, <2>1, <2>2 DEF TypeOK, QueueIsWaits, SlotsCounted
<1>5. NoneStranded'
  <2>1. CASE k = Len(queue)
    BY <1>2, <1>3, <2>1, RestQueue DEF NoneStranded, SemInv, TypeOK
  <2>2. CASE ~Free(current + k, max')
    BY <1>3, <2>2 DEF NoneStranded
  <2> QED BY <1>2, <2>1, <2>2
<1>6. WithinCap
  <2>1. CASE k = 0
    <3>1. First(queue, 0) = {}
      BY DEF First
    <3> QED BY <1>3, <2>1, <3>1 DEF WithinCap, Woken
  <2>2. CASE k > 0
    BY <1>2, <1>3, <2>2, Admitted DEF WithinCap
  <2> QED BY <1>2, <2>1, <2>2
<1> QED BY <1>4, <1>5, <1>6 DEF SemInv

\* A waiter taken out of the queue.
LEMMA Removed ==
    ASSUME NEW q \in Seq(Callers), NEW i \in 1..Len(q),
           \A j, l \in 1..Len(q) : q[j] = q[l] => j = l
    PROVE  LET t == RemoveAt(q, i)
           IN  /\ t \in Seq(Callers)
               /\ ToSet(t) = ToSet(q) \ {q[i]}
               /\ \A j, l \in 1..Len(t) : t[j] = t[l] => j = l
<1> DEFINE a == SubSeq(q, 1, i - 1)
<1> DEFINE b == SubSeq(q, i + 1, Len(q))
<1> DEFINE t == a \o b
<1>1. a \in Seq(Callers) /\ Len(a) = i - 1 /\ \A j \in 1..(i - 1) : a[j] = q[j]
  BY SubSeqProperties
<1>2. /\ b \in Seq(Callers) /\ Len(b) = Len(q) - i
      /\ \A j \in 1..(Len(q) - i) : b[j] = q[i + j]
  BY SubSeqProperties
<1> HIDE DEF a, b
<1>3. /\ t \in Seq(Callers) /\ Len(t) = Len(q) - 1
      /\ \A j \in 1..(i - 1) : t[j] = q[j]
      /\ \A j \in i..(Len(q) - 1) : t[j] = q[j + 1]
  <2>1. t \in Seq(Callers) /\ Len(t) = Len(a) + Len(b)
    BY <1>1, <1>2, ConcatProperties
  <2>2. Len(q) \in Nat /\ i \in Nat /\ 1 <= i /\ i <= Len(q)
    OBVIOUS
  <2>3. ASSUME NEW j \in 1..(Len(a) + Len(b))
        PROVE  t[j] = IF j <= Len(a) THEN a[j] ELSE b[j - Len(a)]
    BY <1>1, <1>2, ConcatProperties
  <2> HIDE DEF t
  <2>4. ASSUME NEW j \in 1..(i - 1) PROVE t[j] = q[j]
    <3>1. j \in 1..(Len(a) + Len(b)) /\ j <= Len(a)
      BY <1>1, <1>2, <2>2
    <3> QED BY <1>1, <2>3, <3>1
  <2>5. ASSUME NEW j \in i..(Len(q) - 1) PROVE t[j] = q[j + 1]
    <3>1. j \in 1..(Len(a) + Len(b)) /\ ~(j <= Len(a))
      BY <1>1, <1>2, <2>2
    <3>2. t[j] = b[j - (i - 1)]
      BY <1>1, <2>3, <3>1
    <3>3. j - (i - 1) \in 1..(Len(q) - i) /\ i + (j - (i - 1)) = j + 1
      BY <2>2
    <3> QED BY <1>2, <3>2, <3>3
  <2> QED BY <1>1, <1>2, <2>1, <2>2, <2>4, <2>5
<1>4. DOMAIN t = 1..(Len(q) - 1) /\ DOMAIN q = 1..Len(q) /\ Len(q) \in Nat
  BY <1>3
<1> HIDE DEF t
<1>5. \A x : x \in ToSet(t) => x \in ToSet(q) \ {q[i]}
  <2>1. SUFFICES ASSUME NEW j \in 1..(Len(q) - 1) PROVE t[j] \in ToSet(q) \ {q[i]}
    BY <1>4 DEF ToSet
  <2>2. ASSUME NEW l \in 1..Len(q), l # i PROVE q[l] \in ToSet(q) \ {q[i]}
    BY <1>4, <2>2 DEF ToSet
  <2>3. CASE j < i
    <3>1. t[j] = q[j] /\ j \in 1..Len(q) /\ j # i
      BY <1>3, <1>4, <2>3
    <3> QED BY <2>2, <3>1
  <2>4. CASE j >= i
    <3>1. t[j] = q[j + 1] /\ j + 1 \in 1..Len(q) /\ j + 1 # i
      BY <1>3, <1>4, <2>4
    <3> QED BY <2>2, <3>1
  <2> QED BY <1>4, <2>3, <2>4
<1>6. \A x : x \in ToSet(q) \ {q[i]} => x \in ToSet(t)
  <2>1. SUFFICES ASSUME NEW j \in 1..Len(q), j # i PROVE q[j] \in ToSet(t)
    BY <1>4 DEF ToSet
  <2>2. CASE j < i
    BY <1>3, <1>4, <2>1, <2>2 DEF ToSet
  <2>3. CASE j > i
    <3>1. j - 1 \in i..(Len(q) - 1) /\ q[j] = q[(j - 1) + 1]
      BY <1>4, <2>3
    <3>2. t[j - 1] = q[j] /\ j - 1 \in DOMAIN t
      BY <1>3, <1>4, <3>1
    <3> QED BY <3>2 DEF ToSet
  <2> QED BY <2>1, <2>2, <2>3
<1>7. \A j, l \in 1..Len(t) : t[j] = t[l] => j = l
  BY <1>3, <1>4
<1> QED BY <1>3, <1>5, <1>6, <1>7 DEF t, a, b, RemoveAt

LEMMA AbortStep ==
    ASSUME SemInv, NEW c \in Callers, Abort(c)
    PROVE  SemInv' /\ WithinCap
<1>1. PICK i \in 1..Len(queue) : queue[i] = c /\ queue' = RemoveAt(queue, i)
  BY DEF Abort
<1>2. /\ queue' \in Seq(Callers) /\ ToSet(queue') = waits \ {c}
      /\ \A j, l \in 1..Len(queue') : queue'[j] = queue'[l] => j = l
  BY <1>1, Removed DEF SemInv, TypeOK, QueueIsWaits
<1>3. queue # <<>>
  BY <1>1
<1> QED
  BY <1>2, <1>3 DEF Abort, SemInv, TypeOK, QueueIsWaits, SlotsCounted, NoneStranded, WithinCap

LEMMA FinishStep ==
    ASSUME SemInv, NEW c \in Callers, Finish(c)
    PROVE  SemInv' /\ WithinCap
<1> DEFINE k == IF RereadOnRelease THEN Fit(queue, current, max') ELSE 0
<1> DEFINE n == current + k - 1
<1> DEFINE j == IF Free(n, max') /\ k < Len(queue) THEN k + 1 ELSE k
<1>1. max' \in Nat /\ UNCHANGED setting
  BY CeilingType DEF SemInv, TypeOK, Finish
<1>2. c \in holders /\ current \in Nat \ {0}
  <2>1. c \in holders
    BY DEF Finish
  <2>2. IsFiniteSet(holders) /\ Cardinality(holders) \in Nat
    BY Counted DEF SemInv, TypeOK
  <2>3. Cardinality(holders) # 0
    BY <2>1, <2>2, FS_EmptySet
  <2> QED BY <2>1, <2>2, <2>3 DEF SemInv, SlotsCounted
<1>3. /\ k \in 0..Len(queue)
      /\ k > 0 => max' = 0 \/ current + k <= max'
      /\ k = Len(queue) \/ ~Free(current + k, max')
  <2>1. queue \in Seq(Callers) /\ current \in Nat
    BY DEF SemInv, TypeOK
  <2>2. CASE RereadOnRelease
    BY <1>1, <2>1, <2>2, FitBounds
  <2>3. CASE ~RereadOnRelease
    <3>1. k = 0 /\ max' = max
      BY <2>3 DEF Finish
    <3>2. Len(queue) = 0 \/ ~Free(current, max)
      BY <2>1 DEF SemInv, NoneStranded
    <3> QED BY <2>1, <3>1, <3>2
  <2> QED BY <2>2, <2>3
<1>4. queue \in Seq(Callers) /\ Len(queue) \in Nat
  BY DEF SemInv, TypeOK
<1> HIDE DEF k
<1>5. /\ j \in 0..Len(queue)
      /\ j > 0 => max' = 0 \/ current + j - 1 <= max'
      /\ j = Len(queue) \/ ~Free(current + j - 1, max')
  <2>1. CASE Free(n, max') /\ k < Len(queue)
    <3>1. j = k + 1 /\ (max' = 0 \/ current + k - 1 < max')
      BY <2>1 DEF Free
    <3>2. k \in Nat /\ k + 1 \in 0..Len(queue)
      BY <1>3, <1>4, <2>1
    <3>3. ~Free(current + k, max')
      BY <1>3, <2>1
    <3> HIDE DEF j
    <3> QED BY <1>1, <1>2, <1>4, <3>1, <3>2, <3>3
  <2>2. CASE ~(Free(n, max') /\ k < Len(queue))
    <3>1. j = k
      BY <2>2
    <3>2. k = Len(queue) \/ ~Free(current + k - 1, max')
      BY <1>3, <1>4, <2>2
    <3> HIDE DEF j
    <3> QED BY <1>1, <1>2, <1>3, <1>4, <3>1, <3>2
  <2> QED BY <2>1, <2>2
<1>6. /\ current' = current + j - 1 /\ queue' = Rest(queue, j)
      /\ waits' = waits \ First(queue, j)
      /\ holders' = (holders \ {c}) \cup Woken(j)
  BY <1>2, <1>3, <1>4 DEF Finish, k
<1> HIDE DEF j
<1>7. c \notin Woken(j)
  BY <1>2 DEF Woken, SemInv
<1>8. holders' = (holders \cup Woken(j)) \ {c} /\ c \in holders \cup Woken(j)
  BY <1>2, <1>6, <1>7
<1>9. Cardinality(holders') = current'
  <2>1. holders \cup Woken(j) \in SUBSET Callers /\ Cardinality(holders \cup Woken(j)) = current + j
    BY <1>5, Admitted
  <2>2. IsFiniteSet(holders \cup Woken(j))
    BY <2>1, Counted
  <2>3. Cardinality((holders \cup Woken(j)) \ {c}) = Cardinality(holders \cup Woken(j)) - 1
    BY <1>8, <2>2, FS_RemoveElement
  <2>4. Cardinality(holders') = Cardinality((holders \cup Woken(j)) \ {c})
    BY <1>8
  <2>5. current' = current + j - 1
    BY <1>6
  <2> QED BY <1>2, <1>5, <2>1, <2>3, <2>4, <2>5
<1>10. TypeOK' /\ (holders \cap waits = {})' /\ QueueIsWaits'
  <2>1. current' \in Nat
    BY <1>2, <1>5, <1>6
  <2> QED BY <1>1, <1>5, <1>6, <1>8, <2>1, Admitted, RestQueue DEF SemInv, TypeOK, QueueIsWaits
<1>11. NoneStranded'
  <2>1. CASE j = Len(queue)
    BY <1>4, <1>5, <1>6, <2>1, RestQueue DEF NoneStranded
  <2>2. CASE ~Free(current + j - 1, max')
    BY <1>6, <2>2 DEF NoneStranded
  <2> QED BY <1>5, <2>1, <2>2
<1>12. WithinCap
  <2>1. CASE j = 0
    <3>1. First(queue, 0) = {}
      BY DEF First
    <3> QED BY <1>6, <2>1, <3>1 DEF WithinCap, Woken
  <2>2. CASE j > 0
    BY <1>5, <1>6, <1>9, <2>2 DEF WithinCap
  <2> QED BY <1>5, <2>1, <2>2
<1> QED BY <1>9, <1>10, <1>11, <1>12 DEF SemInv, SlotsCounted

LEMMA SemStep == SemInv /\ [Next]_vars => SemInv' /\ [WithinCap]_vars
<1> SUFFICES ASSUME SemInv, [Next]_vars PROVE SemInv' /\ [WithinCap]_vars
  OBVIOUS
<1>1. CASE Configure
  BY <1>1 DEF Configure, SemInv, TypeOK, SlotsCounted, QueueIsWaits, NoneStranded, WithinCap
<1>2. CASE \E c \in Callers : Acquire(c) \/ AcquireAborted(c) \/ Abort(c) \/ Finish(c)
  BY <1>2, AcquireStep, AcquireAbortedStep, AbortStep, FinishStep
<1>3. CASE UNCHANGED vars
  BY <1>3 DEF vars, SemInv, TypeOK, SlotsCounted, QueueIsWaits, NoneStranded
<1> QED BY <1>1, <1>2, <1>3 DEF Next

LEMMA SemInvariant == Spec => []SemInv
  BY SemInit, SemStep, PTL DEF Spec

\* Every variable keeps its type; the count never goes below zero.
THEOREM SemaphoreTyped == Spec => []TypeOK
<1>1. SemInv => TypeOK
  BY DEF SemInv
<1> QED BY <1>1, SemInvariant, PTL

\* No slot is leaked or invented, and the queue holds the pending acquires and
\* nobody who gave up.
THEOREM SemaphoreAccounts == Spec => []Accounted
<1>1. SemInv => Accounted
  BY DEF SemInv, Accounted
<1> QED BY <1>1, SemInvariant, PTL

\* Nobody waits while there is room.
THEOREM SemaphoreNeverStrands == Spec => []NoneStranded
<1>1. SemInv => NoneStranded
  BY DEF SemInv
<1> QED BY <1>1, SemInvariant, PTL

\* Nobody is let in past the ceiling, whatever the limit was when the others
\* were.
THEOREM SemaphoreCaps == Spec => AdmitsWithinCap
<1>1. SemInv /\ [Next]_vars => SemInv' /\
        [holders' \ holders # {} => max' = 0 \/ Cardinality(holders') <= max']_vars
  BY SemStep DEF WithinCap
<1> QED BY <1>1, SemInvariant, PTL DEF Spec, AdmitsWithinCap
=============================================================================
