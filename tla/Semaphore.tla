------------------------------ MODULE Semaphore ------------------------------
(***************************************************************************)
(* The resizable counting semaphore of packages/coding-agent/src/task/     *)
(* parallel.ts as its two users drive it: the spawn permit of the task     *)
(* tool, which reads task.maxConcurrency again at every acquire and every  *)
(* release, and the per-provider cap around an LLM request, which reads    *)
(* its setting at acquire only.                                            *)
(*                                                                         *)
(* acquire, release, resize and an abort listener run to completion without*)
(* yielding, so each is one action; what interleaves are whole calls.      *)
(***************************************************************************)
EXTENDS Integers, Sequences, FiniteSets, SequencesExt

CONSTANTS Callers,         \* spawned runs, or LLM requests
          Limits,          \* values the setting can have; <= 0 is unlimited
          RereadOnRelease  \* TRUE: the spawn permit; FALSE: the provider cap

ASSUME SemaphoreAssumption == /\ IsFiniteSet(Callers)
                              /\ Limits \subseteq Int
                              /\ RereadOnRelease \in BOOLEAN

VARIABLES setting,  \* the configured limit
          max,      \* #max; 0 stands for POSITIVE_INFINITY
          current,  \* #current
          queue,    \* #queue, each waiter named by its caller
          waits,    \* callers whose acquire promise is pending
          holders   \* callers whose acquire resolved and that have not released

vars == <<setting, max, current, queue, waits, holders>>

TypeOK == /\ setting \in Limits
          /\ max \in Nat /\ current \in Nat
          /\ queue \in Seq(Callers)
          /\ waits \in SUBSET Callers
          /\ holders \in SUBSET Callers

\* Mutant: the configured value is taken as it is.
CeilingRaw(n) == n
\* normalizeConcurrencyLimit, and the constructor's reading of its result.
Ceiling(n) == IF n > 0 THEN n ELSE 0

\* #current < #max
Free(n, m) == m = 0 \/ n < m

\* Mutant: resize only stores the new ceiling.
FitNone(q, n, m) == 0
\* How many waiters the loop of resize admits.
Fit(q, n, m) == IF m = 0 \/ Len(q) <= m - n THEN Len(q)
                ELSE IF n < m THEN m - n ELSE 0

First(q, k) == {q[i] : i \in 1..k}
Rest(q, k) == SubSeq(q, k + 1, Len(q))

\* The first k waiters are called; a waiter whose promise was rejected already
\* does not become a holder.
Woken(k) == First(queue, k) \cap waits

Init ==
    /\ setting \in Limits
    /\ max = Ceiling(setting)
    /\ current = 0 /\ queue = <<>> /\ waits = {} /\ holders = {}

\* The user moves the slider; the semaphore learns of it at its next call.
Configure ==
    /\ setting' \in Limits \ {setting}
    /\ UNCHANGED <<max, current, queue, waits, holders>>

-----------------------------------------------------------------------------
Idle(c) == c \notin waits \cup holders

\* resize(setting), which every acquire begins with, then the first lines of
\* acquire: a slot now, or a place at the end of the queue.
Acquire(c) ==
    /\ Idle(c)
    /\ max' = Ceiling(setting)
    /\ LET k == Fit(queue, current, max')
           slot == Free(current + k, max')
       IN  /\ current' = current + k + (IF slot THEN 1 ELSE 0)
           /\ queue' = IF slot THEN Rest(queue, k) ELSE Append(Rest(queue, k), c)
           /\ waits' = (waits \ First(queue, k)) \cup (IF slot THEN {} ELSE {c})
           /\ holders' = holders \cup Woken(k) \cup (IF slot THEN {c} ELSE {})
    /\ UNCHANGED setting

\* The signal is aborted when acquire is called: it throws, after the resize.
AcquireAborted(c) ==
    /\ Idle(c)
    /\ max' = Ceiling(setting)
    /\ LET k == Fit(queue, current, max')
       IN  /\ current' = current + k
           /\ queue' = Rest(queue, k)
           /\ waits' = waits \ First(queue, k)
           /\ holders' = holders \cup Woken(k)
    /\ UNCHANGED setting

\* Mutant: the promise is rejected but its waiter stays queued.
AbortKeepsWaiter(c) ==
    /\ c \in waits
    /\ waits' = waits \ {c}
    /\ UNCHANGED <<setting, max, current, queue, holders>>

\* onAbort of a queued waiter.
Abort(c) ==
    /\ c \in waits
    /\ waits' = waits \ {c}
    /\ \E i \in 1..Len(queue) : queue[i] = c /\ queue' = RemoveAt(queue, i)
    /\ UNCHANGED <<setting, max, current, holders>>

\* Mutant: the slot is handed to the next waiter whatever the ceiling says.
FinishHandsOver(c) ==
    /\ c \in holders
    /\ LET j == IF queue = <<>> THEN 0 ELSE 1
       IN  /\ current' = current - 1 + j
           /\ queue' = Rest(queue, j)
           /\ waits' = waits \ First(queue, j)
           /\ holders' = (holders \ {c}) \cup Woken(j)
    /\ UNCHANGED <<setting, max>>
\* Mutant: the slot is given back and nobody is woken.
FinishSilently(c) ==
    /\ c \in holders
    /\ current' = current - 1
    /\ holders' = holders \ {c}
    /\ UNCHANGED <<setting, max, queue, waits>>
\* The run or the request settles, and releases once: resize first for the
\* spawn permit, then one waiter if the ceiling allows.
Finish(c) ==
    /\ c \in holders
    /\ max' = IF RereadOnRelease THEN Ceiling(setting) ELSE max
    /\ LET k == IF RereadOnRelease THEN Fit(queue, current, max') ELSE 0
           n == IF current + k > 0 THEN current + k - 1 ELSE 0
           j == IF Free(n, max') /\ k < Len(queue) THEN k + 1 ELSE k
       IN  /\ current' = n + j - k
           /\ queue' = Rest(queue, j)
           /\ waits' = waits \ First(queue, j)
           /\ holders' = (holders \ {c}) \cup Woken(j)
    /\ UNCHANGED setting

Next == \/ Configure
        \/ \E c \in Callers : Acquire(c) \/ AcquireAborted(c) \/ Abort(c) \/ Finish(c)

Spec == Init /\ [][Next]_vars

\* Runs and requests settle: a subagent has a wall-clock budget and a request
\* its stream's end.
FairSpec == Spec /\ \A c \in Callers : WF_vars(Finish(c))

-----------------------------------------------------------------------------
\* The slots taken are as many as the callers let in and not yet done.
SlotsCounted == current = Cardinality(holders)

\* The queue lists every pending acquire once, and nothing else.
QueueIsWaits == /\ waits = ToSet(queue)
                /\ \A i, j \in 1..Len(queue) : queue[i] = queue[j] => i = j

\* Whoever asked is accounted for once, by a slot or in the queue: aborted
\* waiters, resizes and settled runs neither leak a slot nor invent one, and a
\* release never spends a slot on a caller that stopped waiting.
Accounted == SlotsCounted /\ QueueIsWaits

\* Nobody queues while the semaphore has room under its ceiling.
NoneStranded == queue # <<>> => ~Free(current, max)

\* Whenever somebody is let in, the holders fit under the ceiling of that
\* moment; a lowered limit only lets the earlier ones drain.
AdmitsWithinCap ==
    [][holders' \ holders # {} => max' = 0 \/ Cardinality(holders') <= max']_vars

\* Every waiter is let in or gives up, however the limit is moved and however
\* many others come and go.
Served == \A c \in Callers : c \in waits ~> c \notin waits
=============================================================================
