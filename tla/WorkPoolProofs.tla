---------------------------- MODULE WorkPoolProofs -----------------------------
(***************************************************************************)
(* Theorems about WorkPool for any number of items, any limits and any     *)
(* number of refused registrations.  The argument: what is held (on the    *)
(* dispatch chain, on the fresh queue, on a worker) is held once and was   *)
(* never given to a turn, so that a dispatch, and the queue a worker       *)
(* leaves behind, cannot hand an item out again; and each worker took an   *)
(* item of its own.                                                        *)
(***************************************************************************)
EXTENDS WorkPool, FiniteSetTheorems, SequenceTheorems, Functions, TLAPS

Holds(s, i) == \E k \in DOMAIN s : s[k] = i
NoTwice(s) == \A j, k \in DOMAIN s : s[j] = s[k] => j = k

Held(i) == Holds(chain, i) \/ Holds(freshQueue, i) \/ Queuers(i) # {}

HeldOnce ==
    /\ NoTwice(chain) /\ NoTwice(freshQueue)
    /\ \A i \in Items :
        /\ ~(Holds(chain, i) /\ Holds(freshQueue, i))
        /\ Queuers(i) # {} => ~Holds(chain, i) /\ ~Holds(freshQueue, i)
        /\ \A v, w \in Queuers(i) : v = w

(* What is held was pushed, what waits is held, what a worker holds waits,   *)
(* and with fresh agents no worker holds any.                                *)
HeldWaits ==
    \A i \in Items :
        /\ Held(i) => status[i] # "none"
        /\ status[i] = "queued" /\ i \notin stray => Held(i)
        /\ Queuers(i) # {} => status[i] = "queued" /\ ~fresh

(* Items are pushed, and workers born, in order.                             *)
InTurn ==
    /\ Pushed = 1..Cardinality(Pushed)
    /\ Workers \ Unborn = 1..Cardinality(Workers \ Unborn)

(* A turn has items of its own, which wait no more.                          *)
Turned ==
    /\ \A b \in DOMAIN batches : batches[b].items # {}
    /\ \A b, c \in DOMAIN batches, i \in Items :
          i \in batches[b].items /\ i \in batches[c].items => b = c
    /\ \A b \in DOMAIN batches, i \in Items :
          i \in batches[b].items => status[i] \notin {"none", "queued"}
    /\ \A i \in Items : status[i] \in {"running", "completed"} =>
          \E b \in DOMAIN batches : i \in batches[b].items

(* Every worker was given a turn, and is busy with at most one.              *)
Staffed ==
    /\ \A w \in Workers \ Unborn : \E b \in DOMAIN batches : batches[b].worker = w
    /\ \A b \in DOMAIN batches : batches[b].job = "running" =>
          workers[batches[b].worker].state = "running"
    /\ \A b, c \in DOMAIN batches :
          batches[b].job = "running" /\ batches[c].job = "running"
             /\ batches[b].worker = batches[c].worker => b = c

(* A worker that is being spawned found room for itself.                     *)
Limited ==
    /\ WithinLimit
    /\ spawning => \E lim \in Limits : Room(lim)

(* Once the pool has drained, or is closed, only strays can still wait.      *)
Reported ==
    /\ ~started => poolJob = "none"
    /\ poolJob \in {"reaping", "settled"} => \A i \in Pushed \ stray : Settled(status, i)
    /\ closed => \A i \in Items : status[i] = "queued" => i \in stray

PoolInv ==
    /\ TypeOK /\ HeldOnce /\ HeldWaits /\ InTurn
    /\ Turned /\ Staffed /\ Limited /\ Reported

-----------------------------------------------------------------------------
(* Sequences without repetition.                                             *)
LEMMA TailHolds ==
  ASSUME NEW s \in Seq(Items), s # <<>>, NoTwice(s)
  PROVE  /\ Tail(s) \in Seq(Items) /\ NoTwice(Tail(s))
         /\ Head(s) \in Items /\ Holds(s, Head(s))
         /\ \A i : Holds(Tail(s), i) <=> Holds(s, i) /\ i # Head(s)
<1> DEFINE t == Tail(s)
<1>1. /\ t \in Seq(Items) /\ Head(s) \in Items /\ Head(s) = s[1]
      /\ Len(t) = Len(s) - 1 /\ Len(s) \in Nat \ {0}
      /\ \A i \in 1..Len(t) : t[i] = s[i + 1]
  BY HeadTailProperties, EmptySeq
<1>2. DOMAIN s = 1..Len(s) /\ DOMAIN t = 1..(Len(s) - 1)
  BY <1>1, LenProperties
<1> HIDE DEF t
<1>3. NoTwice(t)
  <2> SUFFICES ASSUME NEW j \in 1..(Len(s) - 1), NEW k \in 1..(Len(s) - 1), t[j] = t[k]
               PROVE  j = k
    BY <1>2 DEF NoTwice
  <2>1. /\ j \in Nat /\ k \in Nat /\ j + 1 \in 1..Len(s) /\ k + 1 \in 1..Len(s)
        /\ j \in 1..Len(t) /\ k \in 1..Len(t)
    BY <1>1
  <2>2. s[j + 1] = s[k + 1]
    BY <1>1, <2>1
  <2>3. j + 1 = k + 1
    BY <1>2, <2>1, <2>2 DEF NoTwice
  <2> QED
    BY <2>1, <2>3
<1>4. Holds(s, Head(s))
  BY <1>1, <1>2 DEF Holds
<1>5. ASSUME NEW i PROVE Holds(t, i) <=> Holds(s, i) /\ i # Head(s)
  <2>1. ASSUME Holds(t, i) PROVE Holds(s, i) /\ i # Head(s)
    <3>1. PICK k \in 1..(Len(s) - 1) : t[k] = i
      BY <1>2, <2>1 DEF Holds
    <3>2. k + 1 \in DOMAIN s /\ s[k + 1] = i /\ k + 1 # 1 /\ 1 \in DOMAIN s
      BY <1>1, <1>2, <3>1
    <3> QED
      BY <1>1, <3>2 DEF Holds, NoTwice
  <2>2. ASSUME Holds(s, i), i # Head(s) PROVE Holds(t, i)
    <3>1. PICK k \in 1..Len(s) : s[k] = i
      BY <1>2, <2>2 DEF Holds
    <3>2. k - 1 \in 1..(Len(s) - 1) /\ t[k - 1] = i
      BY <1>1, <1>2, <2>2, <3>1
    <3> QED
      BY <1>2, <3>2 DEF Holds
  <2> QED
    BY <2>1, <2>2
<1> QED
  BY <1>1, <1>3, <1>4, <1>5 DEF t

LEMMA ConcatHolds ==
  ASSUME NEW s \in Seq(Items), NEW t \in Seq(Items), NoTwice(s), NoTwice(t),
         \A i \in Items : ~(Holds(s, i) /\ Holds(t, i))
  PROVE  /\ s \o t \in Seq(Items) /\ NoTwice(s \o t)
         /\ \A i : Holds(s \o t, i) <=> Holds(s, i) \/ Holds(t, i)
<1> DEFINE u == s \o t
<1>1. /\ u \in Seq(Items) /\ Len(u) = Len(s) + Len(t)
      /\ \A i \in 1..(Len(s) + Len(t)) : u[i] = IF i <= Len(s) THEN s[i] ELSE t[i - Len(s)]
  BY ConcatProperties
<1>2. /\ Len(s) \in Nat /\ Len(t) \in Nat
      /\ DOMAIN s = 1..Len(s) /\ DOMAIN t = 1..Len(t) /\ DOMAIN u = 1..(Len(s) + Len(t))
      /\ \A k \in 1..Len(s) : s[k] \in Items
      /\ \A k \in 1..Len(t) : t[k] \in Items
  BY <1>1, LenProperties, ElementOfSeq
<1> HIDE DEF u
<1>3. \A k \in 1..(Len(s) + Len(t)) :
         \/ k \in 1..Len(s) /\ u[k] = s[k]
         \/ k - Len(s) \in 1..Len(t) /\ u[k] = t[k - Len(s)]
  BY <1>1, <1>2
<1>4. NoTwice(u)
  <2> SUFFICES ASSUME NEW j \in 1..(Len(s) + Len(t)), NEW k \in 1..(Len(s) + Len(t)), u[j] = u[k]
               PROVE  j = k
    BY <1>2 DEF NoTwice
  <2>1. CASE j \in 1..Len(s) /\ u[j] = s[j] /\ k \in 1..Len(s) /\ u[k] = s[k]
    BY <1>2, <2>1 DEF NoTwice
  <2>2. CASE /\ j - Len(s) \in 1..Len(t) /\ u[j] = t[j - Len(s)]
             /\ k - Len(s) \in 1..Len(t) /\ u[k] = t[k - Len(s)]
    <3>1. \A a, b \in 1..Len(t) : t[a] = t[b] => a = b
      BY <1>2 DEF NoTwice
    <3>2. j - Len(s) = k - Len(s)
      BY <2>2, <3>1
    <3> QED
      BY <1>2, <3>2
  <2>3. CASE /\ j \in 1..Len(s) /\ u[j] = s[j]
             /\ k - Len(s) \in 1..Len(t) /\ u[k] = t[k - Len(s)]
    BY <1>2, <2>3 DEF Holds
  <2>4. CASE /\ k \in 1..Len(s) /\ u[k] = s[k]
             /\ j - Len(s) \in 1..Len(t) /\ u[j] = t[j - Len(s)]
    BY <1>2, <2>4 DEF Holds
  <2> QED
    BY <1>3, <2>1, <2>2, <2>3, <2>4
<1>5. ASSUME NEW i PROVE Holds(u, i) <=> Holds(s, i) \/ Holds(t, i)
  <2>1. Holds(u, i) => Holds(s, i) \/ Holds(t, i)
    BY <1>2, <1>3 DEF Holds
  <2>2. ASSUME Holds(s, i) PROVE Holds(u, i)
    <3>1. PICK k \in 1..Len(s) : s[k] = i
      BY <1>2, <2>2 DEF Holds
    <3>2. k \in 1..(Len(s) + Len(t)) /\ u[k] = i
      BY <1>1, <1>2, <3>1
    <3> QED
      BY <1>2, <3>2 DEF Holds
  <2>3. ASSUME Holds(t, i) PROVE Holds(u, i)
    <3>1. PICK k \in 1..Len(t) : t[k] = i
      BY <1>2, <2>3 DEF Holds
    <3>2. /\ k + Len(s) \in 1..(Len(s) + Len(t)) /\ ~(k + Len(s) <= Len(s))
          /\ (k + Len(s)) - Len(s) = k
      BY <1>2
    <3>3. u[k + Len(s)] = i
      BY <1>1, <3>1, <3>2
    <3> QED
      BY <1>2, <3>2, <3>3 DEF Holds
  <2> QED
    BY <2>1, <2>2, <2>3
<1> QED
  BY <1>1, <1>4, <1>5 DEF u

LEMMA OneHolds ==
  ASSUME NEW x \in Items
  PROVE  /\ <<x>> \in Seq(Items) /\ NoTwice(<<x>>)
         /\ \A i : Holds(<<x>>, i) <=> i = x
  BY DEF Holds, NoTwice

LEMMA AppendHolds ==
  ASSUME NEW s \in Seq(Items), NEW x \in Items, NoTwice(s), ~Holds(s, x)
  PROVE  /\ Append(s, x) \in Seq(Items) /\ NoTwice(Append(s, x))
         /\ \A i : Holds(Append(s, x), i) <=> Holds(s, i) \/ i = x
<1>1. Append(s, x) = s \o <<x>>
  BY AppendIsConcat
<1> DEFINE t == <<x>>
<1>2. t \in Seq(Items) /\ NoTwice(t) /\ \A i : Holds(t, i) <=> i = x
  BY OneHolds
<1> HIDE DEF t
<1>3. \A i \in Items : ~(Holds(s, i) /\ Holds(t, i))
  BY <1>2
<1>4. /\ s \o t \in Seq(Items) /\ NoTwice(s \o t)
      /\ \A i : Holds(s \o t, i) <=> Holds(s, i) \/ Holds(t, i)
  BY <1>2, <1>3, ConcatHolds
<1> QED
  BY <1>1, <1>2, <1>4 DEF t

-----------------------------------------------------------------------------
WorkerType == [state : {"none", "running", "idle", "gone"}, queue : SUBSET Items]
BatchType == [worker : Workers, items : SUBSET Items,
              job : {"none", "running", "settled"}, phase : {"turn", "clear"}]

LEMMA BatchFacts ==
  ASSUME TypeOK
  PROVE  /\ batches \in Seq(BatchType) /\ Len(batches) \in Nat
         /\ DOMAIN batches = 1..Len(batches)
         /\ \A b \in DOMAIN batches :
               /\ batches[b] \in BatchType
               /\ batches[b].worker \in Workers
               /\ batches[b].items \in SUBSET Items
               /\ batches[b].job \in {"none", "running", "settled"}
               /\ batches[b].phase \in {"turn", "clear"}
<1>1. batches \in Seq(BatchType)
  BY DEF TypeOK, BatchType
<1>2. /\ Len(batches) \in Nat /\ DOMAIN batches = 1..Len(batches)
      /\ \A b \in DOMAIN batches : batches[b] \in BatchType
  BY <1>1, LenProperties, ElementOfSeq
<1> QED
  BY <1>1, <1>2 DEF BatchType

(* The head of the chain is dropped.                                         *)
LEMMA SkipKeeps == ASSUME PoolInv, dispatchSkip PROVE PoolInv'
<1> USE DEF PoolInv
<1>1. /\ chain \in Seq(Items) /\ chain # <<>> /\ chain' = Tail(chain)
      /\ UNCHANGED <<fresh, status, spawning, workers, freshQueue, batches,
                     poolJob, seen, started, closed, full, stray>>
      /\ closed \/ status[Head(chain)] # "queued"
      /\ ~spawning
  BY DEF dispatchSkip, TypeOK
<1>2. /\ chain' \in Seq(Items) /\ NoTwice(chain')
      /\ \A i : Holds(chain', i) <=> Holds(chain, i) /\ i # Head(chain)
      /\ Head(chain) \in Items
  BY <1>1, TailHolds DEF HeldOnce
<1>3. \A i \in Items : Queuers(i)' = Queuers(i)
  BY <1>1 DEF Queuers
<1>4. HeldOnce'
  BY <1>1, <1>2, <1>3 DEF HeldOnce
<1>5. HeldWaits'
  BY <1>1, <1>2, <1>3 DEF HeldWaits, Held, Reported
<1>6. TypeOK'
  BY <1>1, <1>2 DEF TypeOK
<1>7. InTurn' /\ Turned' /\ Staffed' /\ Limited' /\ Reported'
  BY <1>1 DEF InTurn, Turned, Staffed, Limited, Reported, Pushed, Unborn, WithinLimit, Present, Room, Settled
<1> QED
  BY <1>4, <1>5, <1>6, <1>7

(* The chain waits for a new worker.                                         *)
LEMMA SpawnKeeps == ASSUME PoolInv, dispatchSpawn PROVE PoolInv'
<1> USE DEF PoolInv
<1>1. /\ spawning' = TRUE /\ chain # <<>>
      /\ UNCHANGED <<fresh, status, chain, workers, freshQueue, batches,
                     poolJob, seen, started, closed, full, stray>>
  BY DEF dispatchSpawn
<1>2. TypeOK' /\ HeldOnce' /\ HeldWaits'
  BY <1>1 DEF TypeOK, HeldOnce, HeldWaits, Held, Queuers
<1>5. InTurn' /\ Turned' /\ Staffed' /\ Reported' /\ WithinLimit'
  BY <1>1 DEF InTurn, Turned, Staffed, Limited, Reported, Pushed, Unborn, WithinLimit, Present,
     Settled
<1>3. \E lim \in Limits : Room(lim)
  <2>1. CASE Present = {}
    <3>1. PICK lim \in Limits : TRUE
      BY WorkPoolAssumption
    <3>2. lim \in Nat /\ lim > 0
      BY <3>1, WorkPoolAssumption
    <3> QED
      BY <2>1, <3>2, FS_EmptySet DEF Room
  <2>2. CASE Present # {}
    <3>1. Idle = {} /\ Busy = {} => Present = {}
      BY DEF Idle, Busy, Present
    <3> QED
      BY <2>2, <3>1 DEF dispatchSpawn
  <2> QED
    BY <2>1, <2>2
<1>4. Limited'
  BY <1>1, <1>5, <1>3 DEF Limited, Room, Present
<1> QED
  BY <1>2, <1>4, <1>5

(* The head of the chain is queued for a worker, or on one.                  *)
LEMMA QueueKeeps == ASSUME PoolInv, dispatchQueue PROVE PoolInv'
<1> USE DEF PoolInv
<1> DEFINE x == Head(chain)
<1>1. /\ chain \in Seq(Items) /\ chain # <<>> /\ chain' = Tail(chain)
      /\ freshQueue \in Seq(Items)
      /\ workers \in [Workers -> WorkerType]
      /\ UNCHANGED <<fresh, status, spawning, batches, poolJob, seen, started,
                     closed, full, stray>>
      /\ status[x] = "queued" /\ ~spawning
  BY DEF dispatchQueue, TypeOK, WorkerType
<1>2. /\ chain' \in Seq(Items) /\ NoTwice(chain')
      /\ \A i : Holds(chain', i) <=> Holds(chain, i) /\ i # x
      /\ x \in Items /\ Holds(chain, x)
  BY <1>1, TailHolds DEF HeldOnce
<1> HIDE DEF x
<1>3. CASE freshQueue' = Append(freshQueue, x) /\ UNCHANGED workers
  <2>1. ~Holds(freshQueue, x)
    BY <1>2 DEF HeldOnce
  <2>2. /\ freshQueue' \in Seq(Items) /\ NoTwice(freshQueue')
        /\ \A i : Holds(freshQueue', i) <=> Holds(freshQueue, i) \/ i = x
    BY <1>1, <1>2, <1>3, <2>1, AppendHolds DEF HeldOnce
  <2>3. \A i \in Items : Queuers(i)' = Queuers(i)
    BY <1>3 DEF Queuers
  <2>4. HeldOnce'
    BY <1>2, <2>2, <2>3 DEF HeldOnce
  <2>5. HeldWaits'
    BY <1>1, <1>2, <2>2, <2>3 DEF HeldWaits, Held
  <2>6. TypeOK'
    BY <1>1, <1>2, <1>3, <2>2 DEF TypeOK
  <2>7. InTurn' /\ Turned' /\ Staffed' /\ Limited' /\ Reported'
    BY <1>1, <1>3 DEF InTurn, Turned, Staffed, Limited, Reported, Pushed, Unborn, WithinLimit,
       Present, Room, Settled
  <2> QED
    BY <2>4, <2>5, <2>6, <2>7
<1>4. CASE /\ \E w \in Busy : workers' = [workers EXCEPT ![w].queue = @ \cup {x}]
           /\ ~fresh /\ UNCHANGED freshQueue
  <2>1. PICK w \in Busy : workers' = [workers EXCEPT ![w].queue = @ \cup {x}]
    BY <1>4
  <2>2. w \in Workers /\ workers[w] \in WorkerType
    BY <1>1 DEF Busy, Present
  <2>3. /\ workers' \in [Workers -> WorkerType]
        /\ \A v \in Workers : workers'[v].state = workers[v].state
        /\ \A v \in Workers : workers'[v].queue =
              IF v = w THEN workers[v].queue \cup {x} ELSE workers[v].queue
    BY <1>1, <1>2, <2>1, <2>2 DEF WorkerType
  <2>4. \A i \in Items : Queuers(i)' = IF i = x THEN Queuers(i) \cup {w} ELSE Queuers(i)
    BY <2>2, <2>3 DEF Queuers
  <2>5. Queuers(x) = {} /\ ~Holds(freshQueue, x)
    BY <1>2 DEF HeldOnce
  <2>6. HeldOnce'
    BY <1>2, <1>4, <2>4, <2>5 DEF HeldOnce
  <2>7. HeldWaits'
    BY <1>1, <1>2, <1>4, <2>4 DEF HeldWaits, Held
  <2>8. TypeOK'
    BY <1>1, <1>2, <1>4, <2>3 DEF TypeOK, WorkerType
  <2>9. Unborn' = Unborn /\ Present' = Present
    BY <2>3 DEF Unborn, Present
  <2>10. InTurn' /\ Turned' /\ Limited' /\ Reported'
    BY <1>1, <2>9 DEF InTurn, Turned, Limited, Reported, Pushed, WithinLimit, Room, Settled
  <2>11. Staffed'
    BY <1>1, <2>3, <2>9, BatchFacts DEF Staffed
  <2> QED
    BY <2>6, <2>7, <2>8, <2>10, <2>11
<1> QED
  BY <1>3, <1>4 DEF dispatchQueue, x

(* The aggregate reports.                                                    *)
LEMMA AggregateKeeps == ASSUME PoolInv, aggregate PROVE PoolInv'
<1> USE DEF PoolInv
<1>1. /\ poolJob = "reaping" /\ poolJob' = "settled" /\ closed' = TRUE
      /\ UNCHANGED <<fresh, status, chain, spawning, workers, freshQueue, batches,
                     seen, started, full, stray>>
  BY DEF aggregate, AggregateDue
<1>2. TypeOK' /\ HeldOnce' /\ HeldWaits'
  BY <1>1 DEF TypeOK, HeldOnce, HeldWaits, Held, Queuers
<1>6. InTurn' /\ Turned' /\ Staffed' /\ Limited'
  BY <1>1 DEF InTurn, Turned, Staffed, Limited, Pushed, Unborn, WithinLimit, Present, Room
<1>3. \A i \in Pushed \ stray : Settled(status, i)
  BY <1>1 DEF Reported
<1>4. \A i \in Items : status[i] = "queued" => i \in stray
  BY <1>3 DEF Settled, Terminal, Pushed
<1>5. Reported'
  BY <1>1, <1>3, <1>4 DEF Reported, Pushed, Settled
<1> QED
  BY <1>2, <1>5, <1>6

(* The aggregate learns of a drain: then every item pushed has its outcome.  *)
LEMMA DrainKeeps ==
  ASSUME PoolInv, NEW st \in [Items -> {"none", "queued", "running"} \cup Terminal],
         notifyDrained(st, batches), status' = st, UNCHANGED <<started, stray>>,
         \A i \in Items : st[i] = "none" <=> status[i] = "none",
         \A i \in Items : Settled(status, i) => Settled(st, i)
  PROVE  /\ poolJob' \in {"none", "waiting", "reaping", "settled"}
         /\ seen' \in 0..Len(batches)
         /\ ~started' => poolJob' = "none"
         /\ poolJob' \in {"reaping", "settled"} =>
               \A i \in Pushed' \ stray' : Settled(status', i)
<1> USE DEF PoolInv
<1>1. /\ seen \in 0..Len(batches) /\ Len(batches) \in Nat
      /\ poolJob \in {"none", "waiting", "reaping", "settled"}
  BY LenProperties DEF TypeOK
<1>2. Pushed' = Pushed
  BY DEF Pushed
<1>3. CASE poolJob = "waiting" /\ isDrained(st)
  <2>1. poolJob' = "reaping" /\ seen' = Len(batches) /\ started
    BY <1>3 DEF notifyDrained, Reported
  <2>2. \A i \in Items : status[i] # "none" => Settled(st, i)
    <3> TAKE i \in Items
    <3>1. st[i] \in {"none", "queued", "running"} \cup Terminal
      OBVIOUS
    <3> QED
      BY <1>3, <3>1 DEF isDrained, Settled
  <2>3. \A i \in Pushed' \ stray' : Settled(status', i)
    BY <1>2, <2>2 DEF Pushed
  <2> QED
    BY <1>1, <2>1, <2>3
<1>4. CASE ~(poolJob = "waiting" /\ isDrained(st))
  <2>1. UNCHANGED <<poolJob, seen>>
    BY <1>4 DEF notifyDrained
  <2>2. poolJob \in {"reaping", "settled"} => \A i \in Pushed \ stray : Settled(st, i)
    BY DEF Reported, Pushed
  <2> QED
    BY <1>1, <1>2, <2>1, <2>2 DEF Reported
<1> QED
  BY <1>3, <1>4

-----------------------------------------------------------------------------
(* Turns that start and end.                                                 *)
LEMMA PresentFinite ==
  ASSUME NEW S \in SUBSET Workers
  PROVE  IsFiniteSet(S) /\ Cardinality(S) \in Nat
<1>1. MaxItems \in Int /\ 1 \in Int
  BY WorkPoolAssumption
<1>2. IsFiniteSet(Workers)
  BY <1>1, FS_Interval DEF Workers
<1> QED
  BY <1>2, FS_Subset, FS_CardinalityType

(* The pool stays within its limit when workers only leave.                  *)
LEMMA FewerWithin ==
  ASSUME PoolInv, Present' \subseteq Present, UNCHANGED spawning
  PROVE  Limited'
<1>1. Present \in SUBSET Workers
  BY DEF Present
<1>2. /\ IsFiniteSet(Present) /\ Cardinality(Present) \in Nat
      /\ Cardinality(Present') \in Nat /\ Cardinality(Present') <= Cardinality(Present)
  BY <1>1, PresentFinite, FS_Subset
<1>3. \A lim \in Limits : lim \in Nat
  BY WorkPoolAssumption
<1> QED
  BY <1>2, <1>3 DEF PoolInv, Limited, WithinLimit, Room

LEMMA OverFacts ==
  ASSUME TypeOK, NEW b \in DOMAIN batches
  PROVE  /\ Over(b) \in Seq(BatchType) /\ Len(Over(b)) = Len(batches)
         /\ DOMAIN Over(b) = DOMAIN batches
         /\ \A c \in DOMAIN batches :
               /\ Over(b)[c].worker = batches[c].worker
               /\ Over(b)[c].items = batches[c].items
               /\ Over(b)[c].job = IF c = b THEN "settled" ELSE batches[c].job
<1> DEFINE e == [batches[b] EXCEPT !.job = "settled"]
<1>1. batches \in Seq(BatchType) /\ b \in 1..Len(batches) /\ batches[b] \in BatchType
  BY BatchFacts
<1>2. /\ e \in BatchType /\ e.worker = batches[b].worker
      /\ e.items = batches[b].items /\ e.job = "settled"
  BY <1>1 DEF BatchType
<1>3. Over(b) = [batches EXCEPT ![b] = e]
  BY DEF Over
<1> HIDE DEF e
<1>4. /\ Over(b) \in Seq(BatchType) /\ Len(Over(b)) = Len(batches)
      /\ \A c \in 1..Len(batches) : Over(b)[c] = IF c = b THEN e ELSE batches[c]
  BY <1>1, <1>2, <1>3, ExceptSeq
<1>5. DOMAIN Over(b) = DOMAIN batches
  BY <1>3
<1> QED
  BY <1>2, <1>4, <1>5, BatchFacts

(* A turn is over and its worker idle or gone.                               *)
LEMMA OverKeeps ==
  ASSUME PoolInv, NEW b \in DOMAIN batches, batches[b].job = "running",
         batches' = Over(b), notifyDrained(status, batches),
         UNCHANGED <<status, spawning, started, closed, stray>>,
         \A v \in Workers : workers'[v].state \in
            IF v = batches[b].worker THEN {"idle", "gone"} ELSE {workers[v].state}
  PROVE  /\ InTurn' /\ Turned' /\ Staffed' /\ Limited' /\ Reported'
         /\ batches' \in Seq(BatchType)
         /\ poolJob' \in {"none", "waiting", "reaping", "settled"}
         /\ seen' \in 0..Len(batches')
<1> USE DEF PoolInv
<1>1. /\ batches' \in Seq(BatchType) /\ Len(batches') = Len(batches)
      /\ DOMAIN batches' = DOMAIN batches
      /\ \A c \in DOMAIN batches :
            /\ batches'[c].worker = batches[c].worker
            /\ batches'[c].items = batches[c].items
            /\ batches'[c].job = IF c = b THEN "settled" ELSE batches[c].job
  BY OverFacts
<1>2. batches[b].worker \in Workers /\ workers[batches[b].worker].state = "running"
  BY BatchFacts DEF Staffed
<1>3. Unborn' = Unborn /\ Present' \subseteq Present
  BY <1>2 DEF Unborn, Present
<1>4. Pushed' = Pushed
  BY DEF Pushed
<1>5. InTurn'
  BY <1>3, <1>4 DEF InTurn
<1>6. Turned'
  BY <1>1 DEF Turned
<1>7. Staffed'
  <2>1. \A w \in Workers \ Unborn' : \E c \in DOMAIN batches' : batches'[c].worker = w
    BY <1>1, <1>3 DEF Staffed
  <2>2. \A c, d \in DOMAIN batches' :
           batches'[c].job = "running" /\ batches'[d].job = "running"
              /\ batches'[c].worker = batches'[d].worker => c = d
    BY <1>1 DEF Staffed
  <2>3. ASSUME NEW c \in DOMAIN batches', batches'[c].job = "running"
        PROVE  workers'[batches'[c].worker].state = "running"
    <3>1. c # b /\ batches[c].job = "running" /\ c \in DOMAIN batches
      BY <1>1, <2>3
    <3>2. batches[c].worker # batches[b].worker /\ batches[c].worker \in Workers
      BY <3>1, BatchFacts DEF Staffed
    <3>3. workers[batches[c].worker].state = "running"
      BY <3>1 DEF Staffed
    <3> QED
      BY <1>1, <3>1, <3>2, <3>3
  <2> QED
    BY <2>1, <2>2, <2>3 DEF Staffed
<1>8. Limited'
  BY <1>3, FewerWithin
<1>9. /\ poolJob' \in {"none", "waiting", "reaping", "settled"}
      /\ seen' \in 0..Len(batches)
      /\ ~started' => poolJob' = "none"
      /\ poolJob' \in {"reaping", "settled"} =>
            \A i \in Pushed' \ stray' : Settled(status', i)
  <2>1. status \in [Items -> {"none", "queued", "running"} \cup Terminal]
    BY DEF TypeOK
  <2> QED
    BY <2>1, DrainKeeps
<1>10. Reported'
  BY <1>9 DEF Reported, Settled
<1> QED
  BY <1>1, <1>5, <1>6, <1>7, <1>8, <1>9, <1>10

LEMMA NewBatchFacts ==
  ASSUME NEW base \in Seq(BatchType), NEW w \in Workers, NEW S \in SUBSET Items,
         NEW ok \in BOOLEAN
  PROVE  LET bs == Append(base, NewBatch(w, S, ok)) IN
         /\ bs \in Seq(BatchType) /\ Len(base) \in Nat /\ Len(bs) = Len(base) + 1
         /\ DOMAIN base = 1..Len(base) /\ DOMAIN bs = 1..(Len(base) + 1)
         /\ \A c \in DOMAIN base : bs[c] = base[c]
         /\ bs[Len(base) + 1].worker = w /\ bs[Len(base) + 1].items = S
<1> DEFINE e == NewBatch(w, S, ok)
<1>1. e \in BatchType /\ e.worker = w /\ e.items = S
  BY DEF NewBatch, BatchType
<1> HIDE DEF e
<1>2. Len(base) \in Nat /\ DOMAIN base = 1..Len(base)
  BY LenProperties
<1> DEFINE bs == Append(base, e)
<1>3. /\ bs \in Seq(BatchType) /\ Len(bs) = Len(base) + 1
      /\ \A c \in 1..Len(base) : bs[c] = base[c]
      /\ bs[Len(base) + 1] = e
  BY <1>1, <1>2, AppendProperties
<1>4. DOMAIN bs = 1..(Len(base) + 1)
  BY <1>3, LenProperties
<1> QED
  BY <1>1, <1>2, <1>3, <1>4 DEF e

(* A worker starts a turn with items that waited.                            *)
LEMMA TurnKeeps ==
  ASSUME PoolInv, NEW w \in Workers, NEW S \in SUBSET Items, S # {},
         \A i \in S : status[i] = "queued",
         NEW base \in Seq(BatchType), DOMAIN base = DOMAIN batches,
         \A c \in DOMAIN batches :
            /\ base[c].worker = batches[c].worker /\ base[c].items = batches[c].items
            /\ base[c].job = "running" => batches[c].job = "running" /\ batches[c].worker # w,
         NEW ok \in BOOLEAN, batches' = Append(base, NewBatch(w, S, ok)),
         status' = Run(status, S),
         \A v \in Workers : workers'[v].state = IF v = w THEN "running" ELSE workers[v].state,
         UNCHANGED <<poolJob, seen, started, closed, stray>>
  PROVE  /\ Turned' /\ Staffed' /\ Reported' /\ Pushed' = Pushed
         /\ status' \in [Items -> {"none", "queued", "running"} \cup Terminal]
         /\ batches' \in Seq(BatchType) /\ seen' \in 0..Len(batches')
<1> USE DEF PoolInv
<1> DEFINE n == Len(base) + 1
<1>1. /\ batches' \in Seq(BatchType) /\ Len(base) \in Nat /\ Len(batches') = n
      /\ DOMAIN batches = 1..Len(base) /\ DOMAIN batches' = 1..n
      /\ \A c \in DOMAIN batches : batches'[c] = base[c]
      /\ batches'[n].worker = w /\ batches'[n].items = S
  BY NewBatchFacts
<1>2. /\ n \in DOMAIN batches' /\ n \notin DOMAIN batches
      /\ \A c \in DOMAIN batches' : c \in DOMAIN batches \/ c = n
      /\ \A c \in DOMAIN batches : c \in DOMAIN batches'
  BY <1>1
<1>3. Len(batches) = Len(base)
  BY <1>1, BatchFacts
<1> HIDE DEF n
<1>4. /\ status' \in [Items -> {"none", "queued", "running"} \cup Terminal]
      /\ \A i \in Items : status'[i] = IF i \in S THEN "running" ELSE status[i]
  BY DEF TypeOK, Run
<1>5. Pushed' = Pushed
  BY <1>4 DEF Pushed
<1>6. \A c \in DOMAIN batches : batches'[c].items = batches[c].items /\ batches'[c].worker = batches[c].worker
  BY <1>1
<1>7. \A c \in DOMAIN batches : \A i \in S : i \notin batches[c].items
  BY DEF Turned
<1>8. Turned'
  <2>1. \A c \in DOMAIN batches' : batches'[c].items # {}
    BY <1>1, <1>2, <1>6 DEF Turned
  <2>2. \A b, c \in DOMAIN batches', i \in Items :
           i \in batches'[b].items /\ i \in batches'[c].items => b = c
    BY <1>1, <1>2, <1>6, <1>7 DEF Turned
  <2>3. \A b \in DOMAIN batches', i \in Items :
           i \in batches'[b].items => status'[i] \notin {"none", "queued"}
    BY <1>1, <1>2, <1>4, <1>6 DEF Turned
  <2>4. ASSUME NEW i \in Items, status'[i] \in {"running", "completed"}
        PROVE  \E b \in DOMAIN batches' : i \in batches'[b].items
    <3>1. CASE i \in S
      BY <1>1, <1>2, <3>1
    <3>2. CASE i \notin S
      <4>1. PICK b \in DOMAIN batches : i \in batches[b].items
        BY <1>4, <2>4, <3>2 DEF Turned
      <4> QED
        BY <1>2, <1>6, <4>1
    <3> QED
      BY <3>1, <3>2
  <2> QED
    BY <2>1, <2>2, <2>3, <2>4 DEF Turned
<1>9. Staffed'
  <2>1. ASSUME NEW v \in Workers \ Unborn'
        PROVE  \E c \in DOMAIN batches' : batches'[c].worker = v
    <3>1. CASE v = w
      BY <1>1, <1>2, <3>1
    <3>2. CASE v # w
      <4>1. v \in Workers \ Unborn
        BY <2>1, <3>2 DEF Unborn
      <4>2. PICK c \in DOMAIN batches : batches[c].worker = v
        BY <4>1 DEF Staffed
      <4> QED
        BY <1>2, <1>6, <4>2
    <3> QED
      BY <3>1, <3>2
  <2>2. \A c \in DOMAIN batches :
           batches'[c].job = "running" => batches[c].job = "running" /\ batches[c].worker # w
    BY <1>1
  <2>3. ASSUME NEW c \in DOMAIN batches', batches'[c].job = "running"
        PROVE  workers'[batches'[c].worker].state = "running"
    <3>1. CASE c = n
      BY <1>1, <3>1
    <3>2. CASE c \in DOMAIN batches
      BY <1>6, <2>2, <2>3, <3>2, BatchFacts DEF Staffed
    <3> QED
      BY <1>2, <3>1, <3>2
  <2>4. ASSUME NEW c \in DOMAIN batches', NEW d \in DOMAIN batches',
               batches'[c].job = "running", batches'[d].job = "running",
               batches'[c].worker = batches'[d].worker
        PROVE  c = d
    BY <1>1, <1>2, <1>6, <2>2, <2>4 DEF Staffed
  <2> QED
    BY <2>1, <2>3, <2>4 DEF Staffed
<1>10. Reported'
  <2>1. \A i \in Items : Settled(status, i) => i \notin S
    BY DEF Settled, Terminal
  <2>2. \A i \in Items : Settled(status, i) => Settled(status', i)
    BY <1>4, <2>1 DEF Settled
  <2>3. \A i \in Items : status'[i] = "queued" => status[i] = "queued"
    BY <1>4
  <2>4. poolJob' \in {"reaping", "settled"} => \A i \in Pushed' \ stray' : Settled(status', i)
    BY <1>5, <2>2 DEF Reported, Pushed
  <2> QED
    BY <2>3, <2>4 DEF Reported
<1>11. seen' \in 0..Len(batches')
  BY <1>1, <1>3 DEF TypeOK, n
<1> QED
  BY <1>1, <1>4, <1>5, <1>8, <1>9, <1>10, <1>11

(* The head of the chain leaves it for a turn.                               *)
LEMMA HeadRuns ==
  ASSUME PoolInv, chain # <<>>, status[Head(chain)] = "queued", chain' = Tail(chain),
         status' = Run(status, {Head(chain)}), UNCHANGED <<fresh, freshQueue, stray>>,
         \A v \in Workers : workers'[v].queue = workers[v].queue
  PROVE  HeldOnce' /\ HeldWaits' /\ chain' \in Seq(Items)
<1> USE DEF PoolInv
<1> DEFINE x == Head(chain)
<1>1. /\ chain' \in Seq(Items) /\ NoTwice(chain')
      /\ \A i : Holds(chain', i) <=> Holds(chain, i) /\ i # x
      /\ x \in Items /\ Holds(chain, x)
  BY TailHolds DEF HeldOnce, TypeOK
<1>2. \A i \in Items : status'[i] = IF i = x THEN "running" ELSE status[i]
  BY DEF Run
<1> HIDE DEF x
<1>3. \A i \in Items : Queuers(i)' = Queuers(i)
  BY DEF Queuers
<1>4. Queuers(x) = {} /\ ~Holds(freshQueue, x)
  BY <1>1 DEF HeldOnce
<1>5. HeldOnce'
  BY <1>1, <1>3 DEF HeldOnce
<1>6. HeldWaits'
  BY <1>1, <1>2, <1>3, <1>4 DEF HeldWaits, Held
<1> QED
  BY <1>1, <1>5, <1>6

LEMMA RegistersType ==
  ASSUME full \in 0..MaxFull, NEW ok, Registers(ok)
  PROVE  full' \in 0..MaxFull
  BY WorkPoolAssumption DEF Registers

(* The batches as they are can be the base of a new turn of an idle worker,  *)
(* or of one that was just born.                                             *)
LEMMA BatchesAreBase ==
  ASSUME PoolInv, NEW w \in Workers, workers[w].state # "running"
  PROVE  /\ batches \in Seq(BatchType)
         /\ \A c \in DOMAIN batches : batches[c].job = "running" => batches[c].worker # w
  BY BatchFacts DEF PoolInv, Staffed

(* An idle worker takes the head of the chain.                               *)
LEMMA IdleKeeps == ASSUME PoolInv, dispatchIdle PROVE PoolInv'
<1> USE DEF PoolInv
<1> DEFINE x == Head(chain)
<1>1. /\ chain # <<>> /\ ~spawning /\ status[x] = "queued" /\ chain' = Tail(chain)
      /\ UNCHANGED <<fresh, spawning, freshQueue, poolJob, seen, started, closed, stray>>
  BY DEF dispatchIdle
<1>2. PICK w \in Idle, ok \in BOOLEAN :
         /\ StartTurn(w, {x}, ok)
         /\ workers' = [workers EXCEPT ![w].state = "running"]
  BY DEF dispatchIdle
<1>3. /\ x \in Items
      /\ w \in Workers /\ workers[w].state = "idle" /\ workers[w] \in WorkerType
      /\ workers \in [Workers -> WorkerType]
  BY <1>1, HeadTailProperties DEF TypeOK, Idle, Present, WorkerType
<1> HIDE DEF x
<1>4. /\ workers' \in [Workers -> WorkerType]
      /\ \A v \in Workers : workers'[v].queue = workers[v].queue
      /\ \A v \in Workers : workers'[v].state = IF v = w THEN "running" ELSE workers[v].state
  BY <1>2, <1>3 DEF WorkerType
<1>5. HeldOnce' /\ HeldWaits' /\ chain' \in Seq(Items)
  BY <1>1, <1>2, <1>4, HeadRuns DEF StartTurn, x
<1>6. /\ Turned' /\ Staffed' /\ Reported' /\ Pushed' = Pushed
      /\ status' \in [Items -> {"none", "queued", "running"} \cup Terminal]
      /\ batches' \in Seq(BatchType) /\ seen' \in 0..Len(batches')
  <2>1. /\ batches' = Append(batches, NewBatch(w, {x}, ok)) /\ status' = Run(status, {x})
    BY <1>2 DEF StartTurn
  <2>2. /\ batches \in Seq(BatchType)
        /\ \A c \in DOMAIN batches : batches[c].job = "running" => batches[c].worker # w
    BY <1>3, BatchesAreBase
  <2>3. {x} \in SUBSET Items /\ {x} # {} /\ \A i \in {x} : status[i] = "queued"
    BY <1>1, <1>3
  <2> QED
    BY <1>1, <1>3, <1>4, <2>1, <2>2, <2>3, TurnKeeps
<1>7. Unborn' = Unborn /\ Present' = Present
  BY <1>3, <1>4 DEF Unborn, Present
<1>8. InTurn' /\ Limited'
  BY <1>1, <1>6, <1>7, FewerWithin DEF InTurn
<1>9. full' \in 0..MaxFull
  BY <1>2, RegistersType DEF StartTurn, TypeOK
<1>10. TypeOK'
  BY <1>1, <1>4, <1>5, <1>6, <1>9 DEF TypeOK, WorkerType, BatchType
<1> QED
  BY <1>5, <1>6, <1>8, <1>10

(* There is a worker left to be born while an item waits on the chain: every *)
(* worker that was born took an item of its own.                             *)
LEMMA WorkerLeft ==
  ASSUME PoolInv, NEW x \in Items, status[x] = "queued"
  PROVE  /\ Cardinality(Workers \ Unborn) \in Nat
         /\ Cardinality(Workers \ Unborn) + 1 \in Workers
<1> USE DEF PoolInv
<1> DEFINE Born == Workers \ Unborn
           Others == Items \ {x}
           turn == [w \in Born |-> CHOOSE b \in DOMAIN batches : batches[b].worker = w]
           item == [w \in Born |-> CHOOSE i \in Items : i \in batches[turn[w]].items]
<1>1. ASSUME NEW w \in Born
      PROVE  turn[w] \in DOMAIN batches /\ batches[turn[w]].worker = w
  BY DEF Staffed
<1> HIDE DEF turn
<1>2. ASSUME NEW w \in Born
      PROVE  item[w] \in Items /\ item[w] \in batches[turn[w]].items
  <2>1. \E i \in Items : i \in batches[turn[w]].items
    BY <1>1, BatchFacts DEF Turned
  <2> QED
    BY <2>1
<1>3. item = [w \in Born |-> item[w]]
  OBVIOUS
<1> HIDE DEF item
<1>4. \A w \in Born : item[w] \in Others
  BY <1>1, <1>2 DEF Turned
<1>5. \A v, w \in Born : item[v] = item[w] => v = w
  BY <1>1, <1>2 DEF Turned
<1>6. item \in Injection(Born, Others)
  BY <1>3, <1>4, <1>5 DEF Injection, IsInjective
<1>7. /\ IsFiniteSet(Items) /\ Cardinality(Items) = MaxItems /\ MaxItems \in Nat
      /\ Workers = Items
  BY FS_Interval, WorkPoolAssumption DEF Items, Workers
<1>8. IsFiniteSet(Others) /\ Cardinality(Others) = MaxItems - 1
  BY <1>7, FS_RemoveElement
<1>9. Cardinality(Born) <= MaxItems - 1
  BY <1>6, <1>8, FS_Injection
<1>10. Cardinality(Born) \in Nat
  BY PresentFinite
<1> HIDE DEF Born
<1>11. Cardinality(Born) + 1 \in 1..MaxItems
  BY <1>7, <1>9, <1>10
<1> QED
  BY <1>10, <1>11 DEF Born, Workers

(* The id of a new worker arrives, for an item that still waits...           *)
LEMMA BirthKeeps ==
  ASSUME PoolInv, spawned, status[Head(chain)] = "queued", ~closed
  PROVE  PoolInv'
<1> USE DEF PoolInv
<1> DEFINE x == Head(chain)
           n == Cardinality(Workers \ Unborn)
           w == n + 1
<1>1. /\ spawning /\ spawning' = FALSE /\ chain # <<>> /\ chain' = Tail(chain)
      /\ status[x] = "queued"
      /\ UNCHANGED <<fresh, freshQueue, poolJob, seen, started, closed, stray>>
  BY DEF spawned, TypeOK
<1>2. PICK ok \in BOOLEAN :
         /\ StartTurn(w, {x}, ok)
         /\ workers' = [workers EXCEPT ![w].state = "running"]
  BY DEF spawned
<1>3. x \in Items
  BY <1>1, HeadTailProperties DEF TypeOK
<1>4. n \in Nat /\ w \in Workers /\ Workers \ Unborn = 1..n
  BY <1>1, <1>3, WorkerLeft DEF InTurn
<1>5. w \notin 1..n /\ 1..w = (1..n) \cup {w}
  BY <1>4
<1> HIDE DEF x, w, n
<1>6. /\ workers \in [Workers -> WorkerType] /\ workers[w] \in WorkerType
      /\ w \in Unborn /\ workers[w].state = "none"
  BY <1>4, <1>5 DEF TypeOK, WorkerType, Unborn
<1>7. /\ workers' \in [Workers -> WorkerType]
      /\ \A v \in Workers : workers'[v].queue = workers[v].queue
      /\ \A v \in Workers : workers'[v].state = IF v = w THEN "running" ELSE workers[v].state
  BY <1>2, <1>4, <1>6 DEF WorkerType
<1>8. HeldOnce' /\ HeldWaits' /\ chain' \in Seq(Items)
  BY <1>1, <1>2, <1>7, HeadRuns DEF StartTurn, x
<1>9. /\ Turned' /\ Staffed' /\ Reported' /\ Pushed' = Pushed
      /\ status' \in [Items -> {"none", "queued", "running"} \cup Terminal]
      /\ batches' \in Seq(BatchType) /\ seen' \in 0..Len(batches')
  <2>1. /\ batches' = Append(batches, NewBatch(w, {x}, ok)) /\ status' = Run(status, {x})
    BY <1>2 DEF StartTurn
  <2>2. /\ batches \in Seq(BatchType)
        /\ \A c \in DOMAIN batches : batches[c].job = "running" => batches[c].worker # w
    BY <1>4, <1>6, BatchesAreBase
  <2>3. {x} \in SUBSET Items /\ {x} # {} /\ \A i \in {x} : status[i] = "queued"
    BY <1>1, <1>3
  <2> QED
    BY <1>1, <1>4, <1>7, <2>1, <2>2, <2>3, TurnKeeps
<1>10. InTurn'
  <2>1. Workers \ Unborn' = (Workers \ Unborn) \cup {w}
    BY <1>4, <1>7 DEF Unborn
  <2>2. Workers \ Unborn' = 1..w
    BY <1>4, <1>5, <2>1
  <2>3. w \in Nat /\ Cardinality(1..w) = w
    BY <1>4, FS_Interval DEF w
  <2> QED
    BY <1>9, <2>2, <2>3 DEF InTurn
<1>11. Limited'
  <2>1. Present' = Present \cup {w} /\ w \notin Present
    BY <1>4, <1>6, <1>7 DEF Present
  <2>2. Present \in SUBSET Workers
    BY DEF Present
  <2>3. /\ Cardinality(Present) \in Nat /\ Cardinality(Present') = Cardinality(Present) + 1
    BY <2>1, <2>2, PresentFinite, FS_AddElement
  <2>4. PICK lim \in Limits : Cardinality(Present) < lim
    BY <1>1 DEF Limited, Room
  <2>5. lim \in Nat
    BY WorkPoolAssumption
  <2>6. Cardinality(Present') <= lim
    BY <2>3, <2>4, <2>5
  <2> QED
    BY <1>1, <2>6 DEF Limited, WithinLimit
<1>12. full' \in 0..MaxFull
  BY <1>2, RegistersType DEF StartTurn, TypeOK
<1>13. TypeOK'
  BY <1>1, <1>7, <1>8, <1>9, <1>12 DEF TypeOK, WorkerType, BatchType
<1> QED
  BY <1>8, <1>9, <1>10, <1>11, <1>13

(* ...or for one that was closed or cancelled meanwhile.                     *)
LEMMA SpawnedKeeps == ASSUME PoolInv, spawned PROVE PoolInv'
<1> USE DEF PoolInv
<1>1. CASE ~(closed \/ status[Head(chain)] # "queued")
  BY <1>1, BirthKeeps
<1>2. CASE closed \/ status[Head(chain)] # "queued"
  <2>1. /\ chain \in Seq(Items) /\ chain # <<>> /\ chain' = Tail(chain) /\ spawning' = FALSE
        /\ UNCHANGED <<fresh, status, workers, freshQueue, batches,
                       poolJob, seen, started, closed, full, stray>>
    BY <1>2 DEF spawned, TypeOK
  <2>2. /\ chain' \in Seq(Items) /\ NoTwice(chain')
        /\ \A i : Holds(chain', i) <=> Holds(chain, i) /\ i # Head(chain)
        /\ Head(chain) \in Items
    BY <2>1, TailHolds DEF HeldOnce
  <2>3. \A i \in Items : Queuers(i)' = Queuers(i)
    BY <2>1 DEF Queuers
  <2>4. HeldOnce'
    BY <2>1, <2>2, <2>3 DEF HeldOnce
  <2>5. HeldWaits'
    BY <1>2, <2>1, <2>2, <2>3 DEF HeldWaits, Held, Reported
  <2>6. TypeOK'
    BY <2>1, <2>2 DEF TypeOK
  <2>7. InTurn' /\ Turned' /\ Staffed' /\ Limited' /\ Reported'
    BY <2>1 DEF InTurn, Turned, Staffed, Limited, Reported, Pushed, Unborn, WithinLimit,
       Present, Settled
  <2> QED
    BY <2>4, <2>5, <2>6, <2>7
<1> QED
  BY <1>1, <1>2

(* A turn ends: its items have their outcomes.                               *)
LEMMA TurnEndKeeps == ASSUME PoolInv, NEW b \in DOMAIN batches, turnEnds(b) PROVE PoolInv'
<1> USE DEF PoolInv
<1> DEFINE S == batches[b].items
           e == [batches[b] EXCEPT !.phase = "clear"]
<1>1. /\ batches \in Seq(BatchType) /\ DOMAIN batches = 1..Len(batches) /\ Len(batches) \in Nat
      /\ batches[b] \in BatchType /\ S \in SUBSET Items
  BY BatchFacts
<1>2. /\ e \in BatchType /\ e.worker = batches[b].worker /\ e.items = S
      /\ e.job = batches[b].job
  BY <1>1 DEF BatchType
<1>3. /\ batches' = [batches EXCEPT ![b] = e]
      /\ UNCHANGED <<fresh, chain, spawning, workers, freshQueue, poolJob, seen,
                     started, closed, full, stray>>
  BY DEF turnEnds
<1>4. /\ status' \in [Items -> {"none", "queued", "running"} \cup Terminal]
      /\ \A i \in Items : IF i \in S THEN status'[i] \in Terminal ELSE status'[i] = status[i]
  BY DEF turnEnds, TypeOK, Terminal
<1> HIDE DEF S, e
<1>5. /\ batches' \in Seq(BatchType) /\ Len(batches') = Len(batches)
      /\ DOMAIN batches' = DOMAIN batches
      /\ \A c \in DOMAIN batches :
            /\ batches'[c].worker = batches[c].worker
            /\ batches'[c].items = batches[c].items
            /\ batches'[c].job = batches[c].job
  BY <1>1, <1>2, <1>3, ExceptSeq DEF S
<1>6. \A i \in S : status[i] \notin {"none", "queued"}
  BY <1>1 DEF Turned, S
<1>7. \A i \in Items : /\ status'[i] = "none" <=> status[i] = "none"
                       /\ status'[i] = "queued" <=> status[i] = "queued"
                       /\ Settled(status, i) => Settled(status', i)
  BY <1>4, <1>6 DEF Settled, Terminal
<1>8. /\ \A i \in Items : Queuers(i)' = Queuers(i)
      /\ Pushed' = Pushed /\ Unborn' = Unborn /\ Present' = Present
  BY <1>3, <1>7 DEF Queuers, Pushed, Unborn, Present
<1>9. HeldOnce' /\ HeldWaits'
  BY <1>3, <1>7, <1>8 DEF HeldOnce, HeldWaits, Held
<1>10. InTurn' /\ Limited'
  BY <1>3, <1>8, FewerWithin DEF InTurn
<1>11. Turned'
  <2>1. \A i \in Items : status'[i] \in {"running", "completed"} =>
           status[i] \in {"running", "completed"} \/ i \in S
    BY <1>4
  <2>2. \A i \in Items : status'[i] \in {"running", "completed"} =>
           \E c \in DOMAIN batches : i \in batches[c].items
    BY <2>1 DEF Turned, S
  <2>3. \A c \in DOMAIN batches, i \in Items :
           i \in batches[c].items => status'[i] \notin {"none", "queued"}
    BY <1>7 DEF Turned
  <2>4. \A c, d \in DOMAIN batches, i \in Items :
           i \in batches[c].items /\ i \in batches[d].items => c = d
    BY DEF Turned
  <2>5. \A c \in DOMAIN batches : batches[c].items # {}
    BY DEF Turned
  <2> QED
    BY <1>5, <2>2, <2>3, <2>4, <2>5 DEF Turned
<1>12. Staffed'
  BY <1>3, <1>5, <1>8 DEF Staffed
<1>13. Reported'
  <2>1. poolJob' \in {"reaping", "settled"} => \A i \in Pushed' \ stray' : Settled(status', i)
    BY <1>3, <1>7, <1>8 DEF Reported, Pushed
  <2>2. closed' => \A i \in Items : status'[i] = "queued" => i \in stray'
    BY <1>3, <1>7 DEF Reported
  <2> QED
    BY <1>3, <2>1, <2>2 DEF Reported
<1>14. TypeOK'
  BY <1>3, <1>4, <1>5 DEF TypeOK, BatchType
<1> QED
  BY <1>9, <1>10, <1>11, <1>12, <1>13, <1>14

(* A turn is over: the worker leaves for a fresh one...                      *)
LEMMA FreshKeeps == ASSUME PoolInv, NEW b \in DOMAIN batches, finishFresh(b) PROVE PoolInv'
<1> USE DEF PoolInv
<1>1. /\ batches[b].job = "running" /\ batches' = Over(b) /\ notifyDrained(status, batches)
      /\ workers' = [workers EXCEPT ![batches[b].worker] = Gone]
      /\ UNCHANGED <<fresh, status, spawning, started, closed, full, stray>>
  BY DEF finishFresh, Cleared
<1>2. workers \in [Workers -> WorkerType] /\ batches[b].worker \in Workers
  BY BatchFacts DEF TypeOK, WorkerType
<1>3. /\ workers' \in [Workers -> WorkerType]
      /\ \A v \in Workers : workers'[v] = IF v = batches[b].worker THEN Gone ELSE workers[v]
  BY <1>1, <1>2 DEF Gone, WorkerType
<1>4. /\ InTurn' /\ Turned' /\ Staffed' /\ Limited' /\ Reported'
      /\ batches' \in Seq(BatchType)
      /\ poolJob' \in {"none", "waiting", "reaping", "settled"}
      /\ seen' \in 0..Len(batches')
  BY <1>1, <1>3, OverKeeps DEF Gone
<1>5. \A i \in Items : Queuers(i) = {} /\ Queuers(i)' = {}
  <2> TAKE i \in Items
  <2>1. Queuers(i) = {}
    BY DEF HeldWaits, finishFresh
  <2> QED
    BY <1>3, <2>1 DEF Queuers, Gone
<1>6. /\ HeldOnce' /\ HeldWaits' /\ chain' \in Seq(Items) /\ freshQueue' \in Seq(Items)
      /\ (spawning' => chain' # <<>>)
  <2>1. CASE freshQueue = <<>>
    <3>1. UNCHANGED <<freshQueue, chain>>
      BY <2>1 DEF finishFresh
    <3> QED
      BY <1>1, <1>5, <3>1 DEF HeldOnce, HeldWaits, Held, TypeOK
  <2>2. CASE freshQueue # <<>>
    <3> DEFINE x == Head(freshQueue)
    <3>1. freshQueue' = Tail(freshQueue) /\ chain' = Append(chain, x)
      BY <2>2 DEF finishFresh
    <3>2. chain \in Seq(Items) /\ freshQueue \in Seq(Items)
      BY DEF TypeOK
    <3>3. /\ freshQueue' \in Seq(Items) /\ NoTwice(freshQueue')
          /\ \A i : Holds(freshQueue', i) <=> Holds(freshQueue, i) /\ i # x
          /\ x \in Items /\ Holds(freshQueue, x)
      BY <2>2, <3>1, <3>2, TailHolds DEF HeldOnce
    <3> HIDE DEF x
    <3>4. NoTwice(chain) /\ ~Holds(chain, x)
      BY <3>3 DEF HeldOnce
    <3>5. /\ chain' \in Seq(Items) /\ NoTwice(chain')
          /\ \A i : Holds(chain', i) <=> Holds(chain, i) \/ i = x
      BY <3>1, <3>2, <3>3, <3>4, AppendHolds
    <3>6. chain' # <<>>
      <4>1. Len(chain') = Len(chain) + 1 /\ Len(chain) \in Nat
        BY <3>1, <3>2, <3>3, AppendProperties, LenProperties
      <4> QED
        BY <4>1, EmptySeq
    <3>7. HeldOnce'
      BY <1>5, <3>3, <3>5 DEF HeldOnce
    <3>8. HeldWaits'
      BY <1>1, <1>5, <3>3, <3>5 DEF HeldWaits, Held
    <3> QED
      BY <3>3, <3>5, <3>6, <3>7, <3>8
  <2> QED
    BY <2>1, <2>2
<1>7. TypeOK'
  BY <1>1, <1>3, <1>4, <1>6 DEF TypeOK, WorkerType, BatchType
<1> QED
  BY <1>4, <1>6, <1>7

(* ...becomes idle...                                                        *)
LEMMA IdleAgainKeeps == ASSUME PoolInv, NEW b \in DOMAIN batches, finishIdle(b) PROVE PoolInv'
<1> USE DEF PoolInv
<1> DEFINE w == batches[b].worker
<1>1. /\ batches[b].job = "running" /\ batches' = Over(b) /\ notifyDrained(status, batches)
      /\ workers' = [workers EXCEPT ![w].state = "idle"]
      /\ UNCHANGED <<fresh, status, chain, freshQueue, spawning, started, closed, full, stray>>
  BY DEF finishIdle, Cleared
<1>2. workers \in [Workers -> WorkerType] /\ w \in Workers
  BY BatchFacts DEF TypeOK, WorkerType
<1>3. /\ workers' \in [Workers -> WorkerType]
      /\ \A v \in Workers : workers'[v].queue = workers[v].queue
      /\ \A v \in Workers : workers'[v].state = IF v = w THEN "idle" ELSE workers[v].state
  BY <1>1, <1>2 DEF WorkerType
<1>4. /\ InTurn' /\ Turned' /\ Staffed' /\ Limited' /\ Reported'
      /\ batches' \in Seq(BatchType)
      /\ poolJob' \in {"none", "waiting", "reaping", "settled"}
      /\ seen' \in 0..Len(batches')
  BY <1>1, <1>3, OverKeeps
<1>5. \A i \in Items : Queuers(i)' = Queuers(i)
  BY <1>3 DEF Queuers
<1>6. HeldOnce' /\ HeldWaits'
  BY <1>1, <1>5 DEF HeldOnce, HeldWaits, Held
<1>7. TypeOK'
  BY <1>1, <1>3, <1>4 DEF TypeOK, WorkerType, BatchType
<1> QED
  BY <1>4, <1>6, <1>7

(* ...leaves, what waited for it going back on the chain...                  *)
LEMMA DeadKeeps == ASSUME PoolInv, NEW b \in DOMAIN batches, finishDead(b) PROVE PoolInv'
<1> USE DEF PoolInv
<1> DEFINE w == batches[b].worker
           S == workers[w].queue
<1>1. /\ batches[b].job = "running" /\ batches' = Over(b) /\ notifyDrained(status, batches)
      /\ workers' = [workers EXCEPT ![w] = Gone]
      /\ UNCHANGED <<fresh, status, freshQueue, spawning, started, closed, full, stray>>
  BY DEF finishDead, Cleared
<1>2. /\ workers \in [Workers -> WorkerType] /\ w \in Workers /\ S \in SUBSET Items
      /\ chain \in Seq(Items) /\ Len(chain) \in Nat
  BY BatchFacts, LenProperties DEF TypeOK, WorkerType
<1>3. /\ workers' \in [Workers -> WorkerType]
      /\ \A v \in Workers : workers'[v] = IF v = w THEN Gone ELSE workers[v]
  BY <1>1, <1>2 DEF Gone, WorkerType
<1>4. /\ InTurn' /\ Turned' /\ Staffed' /\ Limited' /\ Reported'
      /\ batches' \in Seq(BatchType)
      /\ poolJob' \in {"none", "waiting", "reaping", "settled"}
      /\ seen' \in 0..Len(batches')
  BY <1>1, <1>3, OverKeeps DEF Gone
<1>5. PICK q \in InOrder(S) : chain' = chain \o q
  BY DEF finishDead
<1> HIDE DEF w, S
<1>6. q \in Seq(Items) /\ NoTwice(q) /\ \A i : Holds(q, i) <=> i \in S
  <2> DEFINE c == Cardinality(S)
  <2>1. c \in Nat
    <3>1. IsFiniteSet(Items)
      BY FS_Interval, WorkPoolAssumption DEF Items
    <3> QED
      BY <1>2, <3>1, FS_Subset, FS_CardinalityType
  <2>2. /\ q \in [1..c -> S] /\ DOMAIN q = 1..c
        /\ \A j, k \in 1..c : j < k => q[j] < q[k]
        /\ \A i \in S : \E k \in 1..c : q[k] = i
    BY DEF InOrder
  <2> HIDE DEF c
  <2>3. q \in [1..c -> Items]
    BY <1>2, <2>2
  <2>4. q \in Seq(Items)
    BY <2>1, <2>3
  <2>5. \A k \in 1..c : q[k] \in Int
    BY <2>3, WorkPoolAssumption DEF Items
  <2>6. \A j, k \in 1..c : q[j] = q[k] => ~(j < k) /\ ~(k < j)
    BY <2>2, <2>5
  <2>7. \A j, k \in 1..c : ~(j < k) /\ ~(k < j) => j = k
    BY <2>1
  <2>8. NoTwice(q)
    BY <2>2, <2>6, <2>7 DEF NoTwice
  <2>9. \A i : Holds(q, i) <=> i \in S
    BY <2>2 DEF Holds
  <2> QED
    BY <2>4, <2>8, <2>9
<1>7. \A i \in Items : i \in S <=> w \in Queuers(i)
  BY <1>2 DEF Queuers, S
<1>8. \A i \in Items : ~(Holds(chain, i) /\ Holds(q, i))
  BY <1>6, <1>7 DEF HeldOnce
<1>9. /\ chain' \in Seq(Items) /\ NoTwice(chain')
      /\ \A i : Holds(chain', i) <=> Holds(chain, i) \/ i \in S
  <2>1. NoTwice(chain)
    BY DEF HeldOnce
  <2> QED
    BY <1>2, <1>5, <1>6, <1>8, <2>1, ConcatHolds
<1>10. \A i \in Items : Queuers(i)' = Queuers(i) \ {w}
  BY <1>3 DEF Queuers, Gone
<1>11. HeldOnce'
  BY <1>1, <1>7, <1>9, <1>10 DEF HeldOnce
<1>12. HeldWaits'
  <2>1. \A i \in Items : Held(i)' <=> Held(i)
    BY <1>1, <1>7, <1>9, <1>10 DEF HeldOnce, Held
  <2> QED
    BY <1>1, <1>10, <2>1 DEF HeldWaits
<1>13. spawning' => chain' # <<>>
  <2>1. ASSUME chain # <<>> PROVE chain' # <<>>
    BY <1>2, <1>5, <1>6, <2>1, ConcatEqualIffEmpty
  <2> QED
    BY <1>1, <2>1 DEF TypeOK
<1>14. TypeOK'
  BY <1>1, <1>3, <1>4, <1>9, <1>13 DEF TypeOK, WorkerType, BatchType
<1> QED
  BY <1>4, <1>11, <1>12, <1>14

(* ...or goes on with what waited for it.                                    *)
LEMMA NextTurnKeeps == ASSUME PoolInv, NEW b \in DOMAIN batches, finishNext(b) PROVE PoolInv'
<1> USE DEF PoolInv
<1> DEFINE w == batches[b].worker
           S == workers[w].queue
<1>1. PICK ok \in BOOLEAN :
         Registers(ok) /\ batches' = Append(Over(b), NewBatch(w, S, ok))
  BY DEF finishNext
<1>2. /\ batches[b].job = "running" /\ S # {} /\ status' = Run(status, S)
      /\ workers' = [workers EXCEPT ![w].queue = {}]
      /\ UNCHANGED <<fresh, chain, spawning, freshQueue, poolJob, seen, started, closed, stray>>
  BY DEF finishNext, Cleared
<1>3. /\ workers \in [Workers -> WorkerType] /\ w \in Workers /\ S \in SUBSET Items
      /\ workers[w].state = "running"
  BY <1>2, BatchFacts DEF TypeOK, WorkerType, Staffed
<1>4. /\ workers' \in [Workers -> WorkerType]
      /\ \A v \in Workers : workers'[v].queue = IF v = w THEN {} ELSE workers[v].queue
      /\ \A v \in Workers : workers'[v].state = workers[v].state
  BY <1>2, <1>3 DEF WorkerType
<1>5. \A c \in DOMAIN batches :
         c # b /\ batches[c].job = "running" => batches[c].worker # w
  BY <1>2 DEF Staffed
<1> HIDE DEF w, S
<1>6. \A i \in Items : i \in S <=> w \in Queuers(i)
  BY <1>3 DEF Queuers, S
<1>7. \A i \in S : status[i] = "queued" /\ i \in Items
  BY <1>3, <1>6 DEF HeldWaits
<1>8. /\ Turned' /\ Staffed' /\ Reported' /\ Pushed' = Pushed
      /\ status' \in [Items -> {"none", "queued", "running"} \cup Terminal]
      /\ batches' \in Seq(BatchType) /\ seen' \in 0..Len(batches')
  <2>1. /\ Over(b) \in Seq(BatchType) /\ DOMAIN Over(b) = DOMAIN batches
        /\ \A c \in DOMAIN batches :
              /\ Over(b)[c].worker = batches[c].worker
              /\ Over(b)[c].items = batches[c].items
              /\ Over(b)[c].job = IF c = b THEN "settled" ELSE batches[c].job
    BY OverFacts
  <2>2. \A c \in DOMAIN batches :
           /\ Over(b)[c].worker = batches[c].worker /\ Over(b)[c].items = batches[c].items
           /\ Over(b)[c].job = "running" => batches[c].job = "running" /\ batches[c].worker # w
    BY <1>5, <2>1
  <2>3. \A v \in Workers : workers'[v].state = IF v = w THEN "running" ELSE workers[v].state
    BY <1>3, <1>4 DEF w
  <2>4. UNCHANGED <<poolJob, seen, started, closed, stray>>
    BY <1>2
  <2> HIDE DEF PoolInv
  <2> QED
    BY <1>1, <1>2, <1>3, <1>7, <2>1, <2>2, <2>3, <2>4, TurnKeeps
<1>9. Unborn' = Unborn /\ Present' = Present
  BY <1>4 DEF Unborn, Present
<1>10. InTurn' /\ Limited'
  BY <1>2, <1>8, <1>9, FewerWithin DEF InTurn
<1>11. \A i \in Items : Queuers(i)' = IF i \in S THEN {} ELSE Queuers(i)
  <2> TAKE i \in Items
  <2>1. Queuers(i)' = Queuers(i) \ {w}
    BY <1>4 DEF Queuers
  <2>2. i \in S => Queuers(i) = {w}
    BY <1>6 DEF HeldOnce
  <2>3. i \notin S => w \notin Queuers(i)
    BY <1>6
  <2> QED
    BY <2>1, <2>2, <2>3
<1>12. HeldOnce'
  BY <1>2, <1>11 DEF HeldOnce
<1>13. \A i \in Items : status'[i] = IF i \in S THEN "running" ELSE status[i]
  BY <1>2 DEF Run
<1>14. HeldWaits'
  BY <1>2, <1>6, <1>11, <1>13 DEF HeldWaits, HeldOnce, Held
<1>15. full' \in 0..MaxFull
  BY <1>1, RegistersType DEF TypeOK
<1>16. TypeOK'
  BY <1>2, <1>4, <1>8, <1>15 DEF TypeOK, WorkerType, BatchType
<1> QED
  BY <1>8, <1>10, <1>12, <1>14, <1>16

LEMMA EmptyHolds == NoTwice(<<>>) /\ <<>> \in Seq(Items) /\ \A i : ~Holds(<<>>, i)
  BY DEF NoTwice, Holds

(* The pool is closed: what waits is cancelled.                              *)
LEMMA CloseKeeps == ASSUME PoolInv, close PROVE PoolInv'
<1> USE DEF PoolInv
<1> DEFINE st == [i \in Items |-> IF status[i] = "queued" THEN "cancelled" ELSE status[i]]
<1>1. /\ closed' = TRUE /\ status' = st /\ freshQueue' = <<>> /\ notifyDrained(st, batches)
      /\ workers' = [w \in Workers |-> [workers[w] EXCEPT !.queue = {}]]
      /\ UNCHANGED <<fresh, chain, spawning, batches, started, full, stray>>
  BY DEF close
<1>2. /\ st \in [Items -> {"none", "queued", "running"} \cup Terminal]
      /\ \A i \in Items : st[i] = IF status[i] = "queued" THEN "cancelled" ELSE status[i]
  BY DEF TypeOK, Terminal
<1> HIDE DEF st
<1>3. /\ workers' \in [Workers -> WorkerType]
      /\ \A v \in Workers : workers'[v].queue = {} /\ workers'[v].state = workers[v].state
  BY <1>1 DEF TypeOK, WorkerType
<1>4. /\ \A i \in Items : Queuers(i)' = {}
      /\ Unborn' = Unborn /\ Present' = Present /\ Pushed' = Pushed
  BY <1>1, <1>2, <1>3 DEF Queuers, Unborn, Present, Pushed
<1>5. HeldOnce'
  BY <1>1, <1>4, EmptyHolds DEF HeldOnce
<1>6. HeldWaits'
  BY <1>1, <1>2, <1>4, EmptyHolds DEF HeldWaits, Held
<1>7. InTurn' /\ Limited'
  BY <1>1, <1>4, FewerWithin DEF InTurn
<1>8. Turned'
  <2>1. \A i \in Items : /\ status'[i] \in {"running", "completed"} <=> status[i] \in {"running", "completed"}
                         /\ status[i] \notin {"none", "queued"} => status'[i] \notin {"none", "queued"}
    BY <1>1, <1>2
  <2> QED
    BY <1>1, <2>1 DEF Turned
<1>9. Staffed'
  BY <1>1, <1>3, <1>4, BatchFacts DEF Staffed
<1>10. /\ poolJob' \in {"none", "waiting", "reaping", "settled"}
       /\ seen' \in 0..Len(batches)
       /\ ~started' => poolJob' = "none"
       /\ poolJob' \in {"reaping", "settled"} =>
             \A i \in Pushed' \ stray' : Settled(status', i)
  <2>1. /\ \A i \in Items : st[i] = "none" <=> status[i] = "none"
        /\ \A i \in Items : Settled(status, i) => Settled(st, i)
    BY <1>2 DEF Settled, Terminal
  <2> QED
    BY <1>1, <1>2, <2>1, DrainKeeps
<1>11. Reported'
  BY <1>1, <1>2, <1>10 DEF Reported
<1>12. TypeOK'
  BY <1>1, <1>2, <1>3, <1>10, EmptyHolds DEF TypeOK, WorkerType
<1> QED
  BY <1>5, <1>6, <1>7, <1>8, <1>9, <1>11, <1>12

(* New items are recorded and, unless the aggregate job was refused, put on  *)
(* the chain.                                                                *)
LEMMA PushKeeps == ASSUME PoolInv, NEW n \in 1..MaxItems, push(n) PROVE PoolInv'
<1> USE DEF PoolInv
<1> DEFINE p == Cardinality(Pushed)
           first == p + 1
           new == first..(first + n - 1)
           q == [k \in 1..n |-> first + k - 1]
<1>1. PICK ok \in BOOLEAN :
         /\ IF started THEN ok /\ UNCHANGED full ELSE Registers(ok)
         /\ started' = TRUE
         /\ poolJob' = IF ~started /\ ok THEN "waiting" ELSE poolJob
         /\ chain' = IF ok THEN chain \o q ELSE chain
  BY DEF push
<1>2. /\ new \subseteq Items /\ ~closed
      /\ status' = [i \in Items |-> IF i \in new THEN "queued" ELSE status[i]]
      /\ stray' = IF poolJob' = "waiting" THEN stray ELSE stray \cup new
      /\ UNCHANGED <<fresh, spawning, workers, freshQueue, batches, seen, closed>>
  BY DEF push
<1>3. p \in Nat /\ Pushed = 1..p /\ n \in Nat /\ n > 0
  <2>1. Pushed \in SUBSET Workers
    BY DEF Pushed, Workers, Items
  <2> QED
    BY <2>1, PresentFinite, WorkPoolAssumption DEF InTurn
<1>4. /\ \A i \in new : i \notin 1..p
      /\ (1..p) \cup new = 1..(p + n)
  BY <1>3
<1>5. q \in Seq(Items) /\ NoTwice(q) /\ \A i : Holds(q, i) <=> i \in new
  <2>1. \A k \in 1..n : q[k] = p + k /\ q[k] \in new
    BY <1>3
  <2>2. DOMAIN q = 1..n
    OBVIOUS
  <2>3. \A i \in new : i - p \in 1..n /\ p + (i - p) = i
    BY <1>3
  <2>4. q \in [1..n -> Items]
    BY <1>2, <2>1
  <2> HIDE DEF q
  <2>5. q \in Seq(Items)
    BY <1>3, <2>4
  <2>6. NoTwice(q)
    BY <1>3, <2>1, <2>2 DEF NoTwice
  <2> HIDE DEF new
  <2>7. \A i : Holds(q, i) <=> i \in new
    BY <2>1, <2>2, <2>3 DEF Holds
  <2> QED
    BY <2>5, <2>6, <2>7
<1> HIDE DEF new, q, first, p
<1>6. /\ status' \in [Items -> {"none", "queued", "running"} \cup Terminal]
      /\ \A i \in Items : status'[i] = IF i \in new THEN "queued" ELSE status[i]
  BY <1>2 DEF TypeOK
<1>7. \A i \in new : i \in Items /\ status[i] = "none" /\ ~Held(i)
  BY <1>2, <1>3, <1>4 DEF Pushed, HeldWaits
<1>8. /\ chain' \in Seq(Items) /\ NoTwice(chain')
      /\ \A i \in Items : Holds(chain', i) <=> Holds(chain, i) \/ (ok /\ i \in new)
      /\ (spawning' => chain' # <<>>)
  <2>1. chain \in Seq(Items) /\ NoTwice(chain) /\ (spawning => chain # <<>>)
    BY DEF TypeOK, HeldOnce
  <2>2. CASE ok
    <3>1. \A i \in Items : ~(Holds(chain, i) /\ Holds(q, i))
      BY <1>5, <1>7 DEF Held
    <3>2. chain' = chain \o q
      BY <1>1, <2>2
    <3>3. chain # <<>> => chain' # <<>>
      BY <1>5, <2>1, <3>2, ConcatEqualIffEmpty
    <3>4. /\ chain' \in Seq(Items) /\ NoTwice(chain')
          /\ \A i : Holds(chain', i) <=> Holds(chain, i) \/ Holds(q, i)
      BY <1>5, <2>1, <3>1, <3>2, ConcatHolds
    <3> QED
      BY <1>2, <1>5, <2>1, <2>2, <3>3, <3>4
  <2>3. CASE ~ok
    BY <1>1, <1>2, <2>1, <2>3
  <2> QED
    BY <2>2, <2>3
<1>9. /\ \A i \in Items : Queuers(i)' = Queuers(i)
      /\ Unborn' = Unborn /\ Present' = Present /\ Pushed' = Pushed \cup new
  BY <1>2, <1>6 DEF Queuers, Unborn, Present, Pushed
<1>10. HeldOnce'
  BY <1>2, <1>7, <1>8, <1>9 DEF HeldOnce, Held
<1>11. HeldWaits'
  <2>1. poolJob' = "waiting" => ok
    BY <1>1 DEF Reported
  <2>2. \A i \in new : ok \/ i \in stray'
    BY <1>2, <2>1
  <2>3. \A i \in Items : i \notin stray' => i \notin stray
    BY <1>2
  <2> QED
    BY <1>2, <1>6, <1>7, <1>8, <1>9, <2>2, <2>3 DEF HeldWaits, Held
<1>12. InTurn'
  <2> DEFINE m == p + n
  <2>1. m \in Int /\ 1 \in Int /\ ~(1 > m) /\ m - 1 + 1 = m
    BY <1>3
  <2>2. Pushed' = 1..m
    BY <1>3, <1>4, <1>9
  <2> HIDE DEF m
  <2>3. Cardinality(1..m) = m
    BY <2>1, FS_Interval
  <2> QED
    BY <1>9, <2>2, <2>3 DEF InTurn
<1>13. Limited'
  BY <1>2, <1>9, FewerWithin
<1>14. Turned'
  <2>1. \A b \in DOMAIN batches, i \in Items : i \in batches[b].items => i \notin new
    BY <1>7 DEF Turned
  <2>2. \A b \in DOMAIN batches, i \in Items :
           i \in batches[b].items => status'[i] \notin {"none", "queued"}
    BY <1>6, <2>1 DEF Turned
  <2>3. \A i \in Items : status'[i] \in {"running", "completed"} =>
           status[i] \in {"running", "completed"}
    BY <1>6
  <2> QED
    BY <1>2, <2>2, <2>3 DEF Turned
<1>15. Staffed'
  BY <1>2, <1>9 DEF Staffed
<1>16. Reported'
  <2>1. poolJob' \in {"reaping", "settled"} =>
           poolJob' = poolJob /\ Pushed' \ stray' \subseteq Pushed \ stray
    BY <1>1, <1>2, <1>9
  <2>2. \A i \in Items : Settled(status, i) => Settled(status', i)
    BY <1>6, <1>7 DEF Settled, Terminal
  <2>3. poolJob' \in {"reaping", "settled"} => \A i \in Pushed' \ stray' : Settled(status', i)
    BY <2>1, <2>2 DEF Reported, Pushed
  <2> QED
    BY <1>1, <1>2, <2>3 DEF Reported
<1>17. TypeOK'
  <2>1. full' \in 0..MaxFull
    BY <1>1, RegistersType DEF TypeOK
  <2>2. poolJob' \in {"none", "waiting", "reaping", "settled"} /\ started' \in BOOLEAN
    BY <1>1 DEF TypeOK
  <2> QED
    BY <1>2, <1>6, <1>8, <2>1, <2>2 DEF TypeOK
<1> QED
  BY <1>10, <1>11, <1>12, <1>13, <1>14, <1>15, <1>16, <1>17

LEMMA PoolInit == Init => PoolInv
<1> SUFFICES ASSUME Init PROVE PoolInv
  OBVIOUS
<1>1. /\ fresh \in BOOLEAN /\ status = [i \in Items |-> "none"]
      /\ chain = <<>> /\ spawning = FALSE /\ freshQueue = <<>> /\ batches = <<>>
      /\ workers = [w \in Workers |-> [state |-> "none", queue |-> {}]]
      /\ poolJob = "none" /\ seen = 0 /\ started = FALSE
      /\ closed = FALSE /\ full = 0 /\ stray = {}
  BY DEF Init
<1>2. DOMAIN batches = {} /\ Len(batches) = 0
  BY <1>1
<1>3. TypeOK
  <2>1. /\ chain \in Seq(Items) /\ freshQueue \in Seq(Items)
        /\ batches \in Seq([worker : Workers, items : SUBSET Items,
                            job : {"none", "running", "settled"},
                            phase : {"turn", "clear"}])
    BY <1>1
  <2>2. /\ status \in [Items -> {"none", "queued", "running"} \cup Terminal]
        /\ workers \in [Workers -> [state : {"none", "running", "idle", "gone"},
                                    queue : SUBSET Items]]
    BY <1>1
  <2>3. seen \in 0..Len(batches) /\ full \in 0..MaxFull /\ stray \in SUBSET Items
    BY <1>1, <1>2, WorkPoolAssumption
  <2>4. /\ poolJob \in {"none", "waiting", "reaping", "settled"}
        /\ fresh \in BOOLEAN /\ started \in BOOLEAN /\ closed \in BOOLEAN
        /\ spawning \in BOOLEAN /\ (spawning => chain # <<>>)
    BY <1>1
  <2> QED
    BY <2>1, <2>2, <2>3, <2>4 DEF TypeOK
<1>4. Unborn = Workers /\ Present = {} /\ Pushed = {} /\ \A i \in Items : Queuers(i) = {}
  BY <1>1 DEF Unborn, Present, Pushed, Queuers
<1>5. HeldOnce /\ HeldWaits
  BY <1>1, <1>4, EmptyHolds DEF HeldOnce, HeldWaits, Held
<1>6. Cardinality({}) = 0 /\ 1..0 = {} /\ Workers \ Workers = {}
  BY FS_EmptySet
<1>7. InTurn
  BY <1>4, <1>6 DEF InTurn
<1>8. Turned /\ Staffed /\ Reported
  BY <1>1, <1>2, <1>4 DEF Turned, Staffed, Reported
<1>9. Limited
  <2>1. PICK lim \in Limits : TRUE
    BY WorkPoolAssumption
  <2>2. lim \in Nat
    BY WorkPoolAssumption
  <2> QED
    BY <1>1, <1>4, <1>6, <2>1, <2>2 DEF Limited, WithinLimit
<1> QED
  BY <1>3, <1>5, <1>7, <1>8, <1>9 DEF PoolInv

LEMMA PoolNext == PoolInv /\ [Next]_vars => PoolInv'
<1> SUFFICES ASSUME PoolInv, [Next]_vars PROVE PoolInv'
  OBVIOUS
<1>1. ASSUME NEW n \in 1..MaxItems, push(n) PROVE PoolInv'
  BY <1>1, PushKeeps
<1>2. CASE dispatchSkip \/ dispatchIdle \/ dispatchSpawn \/ dispatchQueue \/ spawned
  BY <1>2, SkipKeeps, IdleKeeps, SpawnKeeps, QueueKeeps, SpawnedKeeps
<1>3. ASSUME NEW b \in Turns, turnEnds(b) PROVE PoolInv'
  BY <1>3, TurnEndKeeps DEF Turns
<1>4. ASSUME NEW b \in Turns, finishFresh(b) \/ finishNext(b) \/ finishIdle(b) \/ finishDead(b)
      PROVE  PoolInv'
  BY <1>4, FreshKeeps, NextTurnKeeps, IdleAgainKeeps, DeadKeeps DEF Turns
<1>5. CASE close \/ aggregate
  BY <1>5, CloseKeeps, AggregateKeeps
<1>6. CASE UNCHANGED vars
  <2> USE <1>6 DEF PoolInv, vars
  <2>1. TypeOK' /\ HeldOnce' /\ HeldWaits'
    BY DEF TypeOK, HeldOnce, HeldWaits, Held, Queuers
  <2>2. InTurn' /\ Turned' /\ Staffed'
    BY DEF InTurn, Turned, Staffed, Pushed, Unborn
  <2>3. Limited' /\ Reported'
    BY DEF Limited, Reported, WithinLimit, Room, Present, Pushed, Settled
  <2> QED
    BY <2>1, <2>2, <2>3
<1> QED
  BY <1>1, <1>2, <1>3, <1>4, <1>5, <1>6 DEF Next

-----------------------------------------------------------------------------
(* The invariant and what it says of the pool.                               *)
LEMMA PoolInvariant == Spec => []PoolInv
<1>1. Init => PoolInv
  BY PoolInit
<1>2. PoolInv /\ [Next]_vars => PoolInv'
  BY PoolNext
<1> QED
  BY <1>1, <1>2, PTL DEF Spec

(* Every variable keeps its type, whatever is pushed, refused or closed.     *)
THEOREM PoolTyped == Spec => []TypeOK
<1>1. PoolInv => TypeOK
  BY DEF PoolInv
<1> QED
  BY <1>1, PoolInvariant, PTL

(* The places of an item in a sequence without repetition.                   *)
LEMMA PlacesIn ==
  ASSUME NEW s \in Seq(Items), NoTwice(s), NEW i
  PROVE  LET P == {k \in DOMAIN s : s[k] = i} IN
         Cardinality(P) = IF Holds(s, i) THEN 1 ELSE 0
<1> DEFINE P == {k \in DOMAIN s : s[k] = i}
<1>1. CASE Holds(s, i)
  <2>1. PICK k \in DOMAIN s : s[k] = i
    BY <1>1 DEF Holds
  <2>2. P = {k}
    BY <2>1 DEF NoTwice
  <2> QED
    BY <1>1, <2>2, FS_Singleton
<1>2. CASE ~Holds(s, i)
  <2>1. P = {}
    BY <1>2 DEF Holds
  <2> QED
    BY <1>2, <2>1, FS_EmptySet
<1> QED
  BY <1>1, <1>2

(* An accepted item that waits is held in exactly one place (the dispatch    *)
(* chain, the fresh queue, a worker's queue), across spawns, deaths of       *)
(* workers and closes: task/workpool.ts neither loses nor doubles it.        *)
THEOREM PoolHoldsOnce == Spec => []OnePlace
<1>1. ASSUME PoolInv PROVE OnePlace
  <2> USE <1>1 DEF PoolInv
  <2> SUFFICES ASSUME NEW i \in Items
               PROVE  /\ Places(i) <= 1
                      /\ status[i] = "queued" /\ i \notin stray => Places(i) = 1
                      /\ Queuers(i) # {} => status[i] = "queued"
    BY DEF OnePlace
  <2> DEFINE A == Cardinality({k \in DOMAIN chain : chain[k] = i})
             B == Cardinality({k \in DOMAIN freshQueue : freshQueue[k] = i})
             C == Cardinality(Queuers(i))
  <2>1. /\ A = IF Holds(chain, i) THEN 1 ELSE 0
        /\ B = IF Holds(freshQueue, i) THEN 1 ELSE 0
    BY PlacesIn DEF TypeOK, HeldOnce
  <2>2. C = IF Queuers(i) # {} THEN 1 ELSE 0
    <3>1. CASE Queuers(i) = {}
      BY <3>1, FS_EmptySet
    <3>2. CASE Queuers(i) # {}
      <4>1. PICK w : w \in Queuers(i)
        BY <3>2
      <4>2. Queuers(i) = {w}
        BY <4>1 DEF HeldOnce
      <4> QED
        BY <3>2, <4>2, FS_Singleton
    <3> QED
      BY <3>1, <3>2
  <2>3. Places(i) = A + B + C
    BY DEF Places
  <2> HIDE DEF A, B, C
  <2>4. Places(i) <= 1
    BY <2>1, <2>2, <2>3 DEF HeldOnce
  <2>5. Held(i) => Places(i) = 1
    BY <2>1, <2>2, <2>3 DEF HeldOnce, Held
  <2> QED
    BY <2>4, <2>5 DEF HeldWaits
<1> QED
  BY <1>1, PoolInvariant, PTL

(* No item is handed to two turns, whatever becomes of its worker, and an    *)
(* item that ended with an outcome was handed to one: startTurn is reached   *)
(* once for an item, from #dispatch or from #finishTurn.                     *)
THEOREM PoolRunsOnce == Spec => []RunsOnce
<1>1. ASSUME PoolInv PROVE RunsOnce
  <2> USE <1>1 DEF PoolInv
  <2> SUFFICES ASSUME NEW i \in Items
               PROVE  /\ Cardinality(BatchesOf(i)) <= 1
                      /\ status[i] \in {"running", "completed"} => BatchesOf(i) # {}
    BY DEF RunsOnce
  <2>1. \A b, c \in BatchesOf(i) : b = c
    BY DEF Turned, BatchesOf
  <2>2. Cardinality(BatchesOf(i)) <= 1
    <3>1. CASE BatchesOf(i) = {}
      BY <3>1, FS_EmptySet
    <3>2. CASE BatchesOf(i) # {}
      <4>1. PICK b : b \in BatchesOf(i)
        BY <3>2
      <4>2. BatchesOf(i) = {b}
        BY <2>1, <4>1
      <4> QED
        BY <4>2, FS_Singleton
    <3> QED
      BY <3>1, <3>2
  <2>3. status[i] \in {"running", "completed"} => BatchesOf(i) # {}
    BY DEF Turned, BatchesOf
  <2> QED
    BY <2>2, <2>3
<1> QED
  BY <1>1, PoolInvariant, PTL

(* The workers of a pool never exceed the highest task.maxConcurrency it     *)
(* read, though the check and the arrival of the worker are an await apart.  *)
THEOREM PoolWithinLimit == Spec => []WithinLimit
<1>1. PoolInv => WithinLimit
  BY DEF PoolInv, Limited
<1> QED
  BY <1>1, PoolInvariant, PTL

(* When the aggregate job settles, every item pushed while it waited has its *)
(* outcome: #runAggregate's report tells the owner of all of them.           *)
THEOREM PoolReportsAll == Spec => []AggregateComplete
<1>1. PoolInv => AggregateComplete
  BY DEF PoolInv, Reported, AggregateComplete
<1> QED
  BY <1>1, PoolInvariant, PTL
=============================================================================
