------------------------------- MODULE WorkPool --------------------------------
(***************************************************************************)
(* One work pool of an agent (task/workpool.ts): items pushed into it are  *)
(* dispatched one after another to a bounded set of keep-alive workers,    *)
(* each of which runs its items in turns ("batches"), and one aggregate    *)
(* job reports the whole pool once it is drained.                          *)
(*                                                                         *)
(* What the code selects by context load or round robin (an idle worker, a *)
(* busy worker) is any such worker here.  task.maxConcurrency is read live *)
(* at every dispatch, so each dispatch sees any of Limits.  register fails *)
(* when other jobs of the session fill async.maxJobs: at most MaxFull      *)
(* calls find it full.                                                     *)
(*                                                                         *)
(* The steps between two awaits that wait on the outside (an id, a turn,   *)
(* the rebuild of a worker's prompt) are one action.                       *)
(***************************************************************************)
EXTENDS Naturals, Sequences, FiniteSets

CONSTANTS
    MaxItems,   \* bound: items pushed
    Limits,     \* the values task.maxConcurrency takes
    MaxFull     \* bound: registrations refused at async.maxJobs

ASSUME WorkPoolAssumption ==
    /\ MaxItems \in Nat \ {0}
    /\ Limits \subseteq Nat \ {0} /\ Limits # {} /\ IsFiniteSet(Limits)
    /\ MaxFull \in Nat

Items == 1..MaxItems
Workers == 1..MaxItems      \* each spawn takes an item that never ran

VARIABLES
    fresh,      \* eval.workpool.freshAgents, read by the constructor
    status,     \* WorkPoolItem.status; "none" before the push
    chain,      \* items whose #dispatch is on #dispatchChain
    spawning,   \* the head of the chain awaits the id of its new worker
    workers,    \* WorkPool.agents: state ("gone" once spliced out) and queue
    freshQueue, \* #freshQueue
    batches,    \* WorkPool.batches: worker, items and job of each turn
    poolJob,    \* the aggregate job
    seen,       \* how many batches the aggregate awaits, once it has drained
    started,    \* #poolJobStarted
    closed,     \* WorkPool.closed
    full,       \* registrations refused so far
    stray       \* history: items pushed while no aggregate waited for a drain

vars == <<fresh, status, chain, spawning, workers, freshQueue, batches,
          poolJob, seen, started, closed, full, stray>>

Terminal == {"completed", "failed", "cancelled"}
Settled(st, i) == st[i] \in Terminal
Pushed == {i \in Items : status[i] # "none"}
Present == {w \in Workers : workers[w].state \in {"running", "idle"}}
Idle == {w \in Present : workers[w].state = "idle"}
Busy == {w \in Present : workers[w].state = "running"}
Unborn == {w \in Workers : workers[w].state = "none"}

(* The workers an item waits for, and the turns it was given to.             *)
Queuers(i) == {w \in Workers : i \in workers[w].queue}
BatchesOf(i) == {b \in DOMAIN batches : i \in batches[b].items}

-----------------------------------------------------------------------------
(* The pieces the operations share.                                          *)

\* Mutant: running items are taken for done.
isDrainedEarly(st) == \A i \in Items : st[i] # "queued"

isDrained(st) == \A i \in Items : st[i] \notin {"queued", "running"}

\* Mutant: the aggregate collects one batch too many.
notifyDrainedOneMore(st, bs) ==
    IF poolJob = "waiting" /\ isDrained(st)
    THEN poolJob' = "reaping" /\ seen' = Len(bs) + 1
    ELSE UNCHANGED <<poolJob, seen>>

(* #notifyDrained: the aggregate leaves #waitForDrain and collects the       *)
(* batches there are.                                                        *)
notifyDrained(st, bs) ==
    IF poolJob = "waiting" /\ isDrained(st)
    THEN poolJob' = "reaping" /\ seen' = Len(bs)
    ELSE UNCHANGED <<poolJob, seen>>

(* The aggregate's remaining awaits are settled promises: it finishes before *)
(* the next event.                                                           *)
AggregateDue ==
    poolJob = "reaping" /\ \A b \in 1..seen : batches[b].job # "running"

(* A dispatch that awaits nothing runs before the next event is taken.       *)
Quiet == chain = <<>> \/ spawning

(* register: FALSE when the session's running jobs are at the cap.           *)
Registers(ok) ==
    \/ ok /\ UNCHANGED full
    \/ ~ok /\ full < MaxFull /\ full' = full + 1

NewBatch(w, items, ok) ==
    [worker |-> w, items |-> items,
     job |-> IF ok THEN "running" ELSE "none", phase |-> "turn"]

Run(st, items) == [i \in Items |-> IF i \in items THEN "running" ELSE st[i]]

-----------------------------------------------------------------------------
Init ==
    /\ fresh \in BOOLEAN
    /\ status = [i \in Items |-> "none"]
    /\ chain = <<>> /\ spawning = FALSE
    /\ workers = [w \in Workers |-> [state |-> "none", queue |-> {}]]
    /\ freshQueue = <<>> /\ batches = <<>>
    /\ poolJob = "none" /\ seen = 0 /\ started = FALSE
    /\ closed = FALSE /\ full = 0 /\ stray = {}

(* push and #ensurePoolJob.  A refused aggregate job throws after the items  *)
(* were recorded and #poolJobStarted was set, before they are dispatched.    *)
push(n) ==
    LET first == Cardinality(Pushed) + 1
        new == first..(first + n - 1)
    IN
    /\ Quiet /\ ~closed /\ ~AggregateDue
    /\ new \subseteq Items
    /\ status' = [i \in Items |-> IF i \in new THEN "queued" ELSE status[i]]
    /\ \E ok \in BOOLEAN :
        /\ IF started THEN ok /\ UNCHANGED full ELSE Registers(ok)
        /\ started' = TRUE
        /\ poolJob' = IF ~started /\ ok THEN "waiting" ELSE poolJob
        /\ chain' = IF ok THEN chain \o [k \in 1..n |-> first + k - 1] ELSE chain
    /\ stray' = IF poolJob' = "waiting" THEN stray ELSE stray \cup new
    /\ UNCHANGED <<fresh, spawning, workers, freshQueue, batches, seen, closed>>

(* #drain of a worker that has items, with #startTurn.  A refused turn       *)
(* throws with its items running and its batch recorded.                     *)
StartTurn(w, items, ok) ==
    /\ Registers(ok)
    /\ batches' = Append(batches, NewBatch(w, items, ok))
    /\ status' = Run(status, items)

(* The head of #dispatchChain has nothing to do.                             *)
dispatchSkip ==
    /\ chain # <<>> /\ ~spawning
    /\ closed \/ status[Head(chain)] # "queued"
    /\ chain' = Tail(chain)
    /\ UNCHANGED <<fresh, status, spawning, workers, freshQueue, batches,
                   poolJob, seen, started, closed, full, stray>>

(* An idle worker takes the item at once.                                    *)
dispatchIdle ==
    /\ chain # <<>> /\ ~spawning /\ ~closed /\ status[Head(chain)] = "queued"
    /\ ~fresh
    /\ \E w \in Idle, ok \in BOOLEAN :
        /\ StartTurn(w, {Head(chain)}, ok)
        /\ workers' = [workers EXCEPT ![w].state = "running"]
    /\ chain' = Tail(chain)
    /\ UNCHANGED <<fresh, spawning, freshQueue, poolJob, seen, started, closed, stray>>

\* Mutant: the room for a worker is checked against a limit one too high.
RoomOneMore(lim) == Cardinality(Present) <= lim

(* agents.length < limit().                                                  *)
Room(lim) == Cardinality(Present) < lim

(* There is room, or no worker to queue the item on: #spawn asks for an id.  *)
dispatchSpawn ==
    /\ chain # <<>> /\ ~spawning /\ ~closed /\ status[Head(chain)] = "queued"
    /\ \E lim \in Limits :
        \/ fresh /\ Room(lim)
        \/ ~fresh /\ Idle = {} /\ (Room(lim) \/ Busy = {})
    /\ spawning' = TRUE
    /\ UNCHANGED <<fresh, status, chain, workers, freshQueue, batches,
                   poolJob, seen, started, closed, full, stray>>

(* The pool is at its limit: the item waits for a worker.                    *)
dispatchQueue ==
    /\ chain # <<>> /\ ~spawning /\ ~closed /\ status[Head(chain)] = "queued"
    /\ \E lim \in Limits : ~Room(lim)
    /\ \/ fresh /\ freshQueue' = Append(freshQueue, Head(chain)) /\ UNCHANGED workers
       \/ /\ ~fresh /\ Idle = {}
          /\ \E w \in Busy :
                workers' = [workers EXCEPT ![w].queue = @ \cup {Head(chain)}]
          /\ UNCHANGED freshQueue
    /\ chain' = Tail(chain)
    /\ UNCHANGED <<fresh, status, spawning, batches, poolJob, seen, started,
                   closed, full, stray>>

(* The id arrives.  What was closed or cancelled meanwhile is not started.   *)
spawned ==
    /\ spawning
    /\ spawning' = FALSE
    /\ chain' = Tail(chain)
    /\ IF closed \/ status[Head(chain)] # "queued"
       THEN UNCHANGED <<workers, batches, status, full>>
       ELSE \E ok \in BOOLEAN :
              LET w == Cardinality(Workers \ Unborn) + 1 IN
              /\ workers' = [workers EXCEPT ![w].state = "running"]
              /\ StartTurn(w, {Head(chain)}, ok)
    /\ UNCHANGED <<fresh, freshQueue, poolJob, seen, started, closed, stray>>

(* The worker's turn ends (done, failed, or aborted) and #finishTurn records *)
(* it; the worker's yield contract is then cleared, or the worker released.  *)
turnEnds(b) ==
    /\ Quiet
    /\ batches[b].job = "running" /\ batches[b].phase = "turn"
    /\ \/ \E bad \in SUBSET batches[b].items :
            status' = [i \in Items |->
                         IF i \notin batches[b].items THEN status[i]
                         ELSE IF i \in bad THEN "failed" ELSE "completed"]
       \/ \E s \in {"failed", "cancelled"} :
            status' = [i \in Items |-> IF i \in batches[b].items THEN s ELSE status[i]]
    /\ batches' = [batches EXCEPT ![b].phase = "clear"]
    /\ UNCHANGED <<fresh, chain, spawning, workers, freshQueue, poolJob, seen,
                   started, closed, full, stray>>

Cleared(b) == Quiet /\ batches[b].job = "running" /\ batches[b].phase = "clear"
Over(b) == [batches EXCEPT ![b].job = "settled"]
Gone == [state |-> "gone", queue |-> {}]

\* Mutant: the items that wait for a fresh agent are left waiting.
finishFreshStall(b) ==
    /\ Cleared(b) /\ fresh
    /\ workers' = [workers EXCEPT ![batches[b].worker] = Gone]
    /\ batches' = Over(b)
    /\ notifyDrained(status, batches)
    /\ UNCHANGED <<fresh, status, chain, freshQueue, spawning, started, closed,
                   full, stray>>

(* The rest of #finishTurn with fresh agents: the worker leaves, and the     *)
(* next waiting item is dispatched.                                          *)
finishFresh(b) ==
    /\ Cleared(b) /\ fresh
    /\ workers' = [workers EXCEPT ![batches[b].worker] = Gone]
    /\ IF freshQueue = <<>>
       THEN UNCHANGED <<freshQueue, chain>>
       ELSE freshQueue' = Tail(freshQueue) /\ chain' = Append(chain, Head(freshQueue))
    /\ batches' = Over(b)
    /\ notifyDrained(status, batches)
    /\ UNCHANGED <<fresh, status, spawning, started, closed, full, stray>>

\* Mutant: the worker's queue keeps the items of its next turn.
finishNextKept(b) ==
    LET w == batches[b].worker IN
    /\ Cleared(b) /\ ~fresh /\ workers[w].queue # {}
    /\ \E ok \in BOOLEAN :
        /\ Registers(ok)
        /\ batches' = Append(Over(b), NewBatch(w, workers[w].queue, ok))
    /\ status' = Run(status, workers[w].queue)
    /\ UNCHANGED <<fresh, chain, spawning, workers, freshQueue, poolJob, seen,
                   started, closed, stray>>

(* The worker is idle or parked and goes on: with what was queued on it...   *)
finishNext(b) ==
    LET w == batches[b].worker IN
    /\ Cleared(b) /\ ~fresh /\ workers[w].queue # {}
    /\ \E ok \in BOOLEAN :
        /\ Registers(ok)
        /\ batches' = Append(Over(b), NewBatch(w, workers[w].queue, ok))
    /\ status' = Run(status, workers[w].queue)
    /\ workers' = [workers EXCEPT ![w].queue = {}]
    /\ UNCHANGED <<fresh, chain, spawning, freshQueue, poolJob, seen, started,
                   closed, stray>>

(* ...or idle.                                                               *)
finishIdle(b) ==
    LET w == batches[b].worker IN
    /\ Cleared(b) /\ ~fresh /\ workers[w].queue = {}
    /\ workers' = [workers EXCEPT ![w].state = "idle"]
    /\ batches' = Over(b)
    /\ notifyDrained(status, batches)
    /\ UNCHANGED <<fresh, status, chain, spawning, freshQueue, started, closed,
                   full, stray>>

(* The items of a queue, in the order they were pushed.                      *)
InOrder(S) ==
    {q \in [1..Cardinality(S) -> S] :
        /\ \A j, k \in 1..Cardinality(S) : j < k => q[j] < q[k]
        /\ \A i \in S : \E k \in 1..Cardinality(S) : q[k] = i}

\* Mutant: the worker leaves with the items queued on it.
finishDeadForgetful(b) ==
    LET w == batches[b].worker IN
    /\ Cleared(b) /\ ~fresh
    /\ workers' = [workers EXCEPT ![w] = Gone]
    /\ batches' = Over(b)
    /\ notifyDrained(status, batches)
    /\ UNCHANGED <<fresh, status, chain, spawning, freshQueue, started, closed,
                   full, stray>>

(* The worker is gone, woken by a message, or its contract was not cleared:  *)
(* it leaves and the items queued on it are dispatched again.                *)
finishDead(b) ==
    LET w == batches[b].worker IN
    /\ Cleared(b) /\ ~fresh
    /\ workers' = [workers EXCEPT ![w] = Gone]
    /\ \E q \in InOrder(workers[w].queue) : chain' = chain \o q
    /\ batches' = Over(b)
    /\ notifyDrained(status, batches)
    /\ UNCHANGED <<fresh, status, spawning, freshQueue, started, closed, full,
                   stray>>

(* close: by the owner, by the release of its pools (WorkPoolRegistry), or   *)
(* by the cancellation of the aggregate job, which also aborts the batches.  *)
close ==
    LET st == [i \in Items |-> IF status[i] = "queued" THEN "cancelled" ELSE status[i]] IN
    /\ Quiet
    /\ closed' = TRUE
    /\ status' = st
    /\ workers' = [w \in Workers |-> [workers[w] EXCEPT !.queue = {}]]
    /\ freshQueue' = <<>>
    /\ notifyDrained(st, batches)
    /\ UNCHANGED <<fresh, chain, spawning, batches, started, full, stray>>

(* The aggregate job, once the batches it collected have settled.            *)
aggregate ==
    /\ AggregateDue
    /\ poolJob' = "settled" /\ closed' = TRUE
    /\ UNCHANGED <<fresh, status, chain, spawning, workers, freshQueue, batches,
                   seen, started, full, stray>>

Turns == DOMAIN batches
Finish(b) == finishFresh(b) \/ finishNext(b) \/ finishIdle(b) \/ finishDead(b)

Next ==
    \/ \E n \in 1..MaxItems : push(n)
    \/ dispatchSkip \/ dispatchIdle \/ dispatchSpawn \/ dispatchQueue \/ spawned
    \/ \E b \in Turns : turnEnds(b)
    \/ \E b \in Turns : finishFresh(b)
    \/ \E b \in Turns : finishNext(b)
    \/ \E b \in Turns : finishIdle(b)
    \/ \E b \in Turns : finishDead(b)
    \/ close \/ aggregate

Spec == Init /\ [][Next]_vars

(* The chain and the awaited calls go on by themselves, and a worker's turn  *)
(* ends: it is bounded by its model call, its abort signal and               *)
(* task.maxRuntimeMs.  Nothing makes an owner push or close.                 *)
FairSpec ==
    /\ Spec
    /\ WF_vars(dispatchSkip \/ dispatchIdle \/ dispatchSpawn \/ dispatchQueue \/ spawned)
    /\ WF_vars(aggregate)
    /\ WF_vars(\E b \in Turns : turnEnds(b))
    /\ WF_vars(\E b \in Turns : Finish(b))

-----------------------------------------------------------------------------
TypeOK ==
    /\ fresh \in BOOLEAN
    /\ status \in [Items -> {"none", "queued", "running"} \cup Terminal]
    /\ chain \in Seq(Items)
    /\ spawning \in BOOLEAN /\ (spawning => chain # <<>>)
    /\ workers \in [Workers -> [state : {"none", "running", "idle", "gone"},
                                queue : SUBSET Items]]
    /\ freshQueue \in Seq(Items)
    /\ batches \in Seq([worker : Workers, items : SUBSET Items,
                        job : {"none", "running", "settled"},
                        phase : {"turn", "clear"}])
    /\ poolJob \in {"none", "waiting", "reaping", "settled"}
    /\ seen \in 0..Len(batches)
    /\ started \in BOOLEAN /\ closed \in BOOLEAN
    /\ full \in 0..MaxFull
    /\ stray \in SUBSET Items

Places(i) ==
    Cardinality({k \in DOMAIN chain : chain[k] = i})
    + Cardinality({k \in DOMAIN freshQueue : freshQueue[k] = i})
    + Cardinality(Queuers(i))

(* An accepted item that waits is held in exactly one place (the dispatch    *)
(* chain, the fresh queue, or one worker's queue), across spawns, deaths of  *)
(* workers and closes, and what a worker's queue holds still waits.  Only    *)
(* items whose push threw are held nowhere.                                  *)
OnePlace ==
    \A i \in Items :
        /\ Places(i) <= 1
        /\ status[i] = "queued" /\ i \notin stray => Places(i) = 1
        /\ Queuers(i) # {} => status[i] = "queued"

(* No item is handed to two turns, whatever becomes of its worker, and an    *)
(* item that ended with an outcome was handed to one.                        *)
RunsOnce ==
    \A i \in Items :
        /\ Cardinality(BatchesOf(i)) <= 1
        /\ status[i] \in {"running", "completed"} => BatchesOf(i) # {}

(* The workers of the pool never exceed the highest task.maxConcurrency.     *)
WithinLimit == \E lim \in Limits : Cardinality(Present) <= lim

(* When the aggregate job settles, every item pushed while it waited has its *)
(* outcome: the report tells the owner of all of them.                       *)
AggregateComplete ==
    poolJob = "settled" => \A i \in Pushed \ stray : Settled(status, i)

(* An accepted item has no outcome yet, or none its owner was told of.  What *)
(* is pushed while no aggregate waits for the drain does not count, nor what *)
(* follows a refused registration.                                           *)
Unreported ==
    /\ full = 0
    /\ \E i \in Pushed \ stray : ~Settled(status, i) \/ poolJob # "settled"

(* The pool drains: accepted items end, and the aggregate reports them.      *)
Drains == Unreported ~> ~Unreported

(* "results auto-deliver" (prompts/tools/eval.md): once the aggregate has    *)
(* reported, no item of the pool still waits or runs.                        *)
NoneLeftBehind == poolJob = "settled" => isDrained(status)

(* "One turn assigned to a pool agent and tracked as an internal job": the   *)
(* job of a turn whose items run was registered.                             *)
TurnHasJob ==
    \A b \in DOMAIN batches :
        (\E i \in batches[b].items : status[i] = "running") => batches[b].job # "none"
=============================================================================
