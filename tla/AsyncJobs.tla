------------------------------- MODULE AsyncJobs -------------------------------
(***************************************************************************)
(* One job id of the async job manager (async/job-manager.ts) and the       *)
(* session that owns it: its rows, the delivery of its results through the *)
(* session's yield queue, the wait tool, foreground commands, eviction,    *)
(* and the reuse of the id by a later job.                                 *)
(*                                                                         *)
(* A generation is one job registered under the id.  The id is free for    *)
(* the next one once the row left #jobs; while the row is there another    *)
(* job asking for the id gets a suffixed one, which is another instance of *)
(* this module.                                                            *)
(*                                                                         *)
(* The manager's fields for the id are one record m, and each method of    *)
(* the manager is an operator from such a record to the next.  Its queues  *)
(* of deliveries are one position for each generation (dlv), taken in any  *)
(* order: a retry comes back behind deliveries that were enqueued later.   *)
(*                                                                         *)
(* Assumptions: the job has one owner, whose session keeps its sink (it is *)
(* neither disposed nor parked), and only the owner's tool calls report it.*)
(***************************************************************************)
EXTENDS Naturals, Sequences, FiniteSets

CONSTANTS
    MaxGen,     \* bound: jobs registered under the id
    MaxEpoch    \* bound: session transitions (/new, switch, reset)

ASSUME AsyncJobsAssumption ==
    /\ MaxGen \in Nat \ {0}
    /\ MaxEpoch \in Nat

Gens == 1..MaxGen
Epochs == 0..MaxEpoch

VARIABLES
    jobs,     \* the job object of each generation
    m,        \* the manager's fields for the id
    epoch,    \* #asyncDeliveryEpoch of the owner's session
    turn,     \* whether the owner's agent loop runs
    wait,     \* the generation a wait tool call watches, 0 for none
    call,     \* the generation a foreground tool call races, 0 for none
    reap,     \* the generation cancelRootWork still expects, 0 for none
    shown     \* history: the epochs whose model was shown a generation's result

vars == <<jobs, m, epoch, turn, wait, call, reap, shown>>

-----------------------------------------------------------------------------
(* The manager's methods.                                                    *)

NoJob == [status |-> "none", fg |-> FALSE, settled |-> FALSE,
          born |-> 0, over |-> FALSE, cut |-> FALSE]

(* #jobs.get(id): 0 stands for no row.                                       *)
HasRow(r) == r.row # 0

isDeliverySuppressed(r) == r.suppressed \/ r.watched

(* In #deliveries: due at once, or backing off after a failed attempt.       *)
Queued(r) == {g \in Gens : r.dlv[g] \in {"queued", "retry"}}
InFlight(r) == {g \in Gens : r.dlv[g] \in {"format", "parked", "drained", "built"}}

evictJob(r) ==
    [r EXCEPT !.row = 0, !.suppressed = FALSE, !.watched = FALSE,
              !.consumed = FALSE, !.timer = "off"]

(* Arming replaces whatever the timer was doing.                             *)
scheduleEviction(r) == [r EXCEPT !.timer = "armed"]

acknowledgeDeliveries(r) ==
    [r EXCEPT !.suppressed = TRUE,
              !.dlv = [g \in Gens |-> IF g \in Queued(r) THEN "none" ELSE @[g]]]

(* Nothing to consume without a row, or before the run left a text.          *)
consumeJobResult(r, js) ==
    IF ~HasRow(r) \/ r.consumed \/ js[r.row].status = "running" \/ ~js[r.row].settled
    THEN r
    ELSE LET c == [r EXCEPT !.consumed = TRUE] IN
         IF Queued(c) \cup InFlight(c) = {} THEN scheduleEviction(c) ELSE c

consumeJobResults(r, js) == consumeJobResult(acknowledgeDeliveries(r), js)

(* A delivery takes its owner from the row, and one without an owner finds   *)
(* no sink: it is dropped at once.  "twice" would be a second delivery of    *)
(* one generation.                                                           *)
enqueueDelivery(r, g) ==
    IF isDeliverySuppressed(r) \/ ~HasRow(r) THEN r
    ELSE [r EXCEPT !.dlv[g] = IF @ = "none" THEN "queued" ELSE "twice"]

watchJobs(r) == [r EXCEPT !.watched = TRUE]

\* Mutant: the deliveries skipped while the job was watched are forgotten.
unwatchJobsOnly(r, js) == [r EXCEPT !.watched = FALSE]

unwatchJobs(r, js) ==
    LET u == [r EXCEPT !.watched = FALSE] IN
    IF \/ ~r.watched \/ ~HasRow(r) \/ js[r.row].status # "done"
       \/ isDeliverySuppressed(u) \/ r.consumed
       \/ Queued(r) \cup InFlight(r) # {}
    THEN u
    ELSE enqueueDelivery(u, r.row)

discardForegroundJob(r) == evictJob([r EXCEPT !.released = FALSE])

\* Mutant: a foreground job is registered with its deliveries enabled.
claimJobIdOpen(r, g, fg) ==
    [r EXCEPT !.row = g, !.suppressed = FALSE, !.consumed = FALSE, !.released = FALSE]

(* claimJobId and the new row.                                               *)
claimJobId(r, g, fg) ==
    [r EXCEPT !.row = g, !.suppressed = fg, !.consumed = FALSE, !.released = FALSE]

evictSettledJobs(r, js) ==
    IF HasRow(r) /\ js[r.row].status # "running"
    THEN evictJob(acknowledgeDeliveries(r)) ELSE r

(* A timer that fired over a delivery in flight evicts when that attempt     *)
(* settles and nothing re-armed it.                                          *)
AfterAttempts(r, gs) ==
    IF r.timer = "waiting" /\ r.timerOn \in gs THEN evictJob(r) ELSE r

(* The attempt's sink returned.                                              *)
Delivered(r, js, g) ==
    LET re == IF r.consumed /\ HasRow(r) THEN scheduleEviction(r) ELSE r
        out == [re EXCEPT !.dlv[g] = "none"]
    IN  AfterAttempts(IF out.consumed THEN out ELSE consumeJobResult(out, js), {g})

\* Mutant: a failed attempt marks the result consumed.
FailedConsumes(r, gs) == consumeJobResult([r EXCEPT !.dlv = [g \in Gens |->
                IF g \notin gs THEN @[g] ELSE "none"]], jobs)

\* Mutant: a failed attempt is given up.
FailedForGood(r, gs) ==
    [r EXCEPT !.dlv = [g \in Gens |-> IF g \notin gs THEN @[g] ELSE "none"]]

(* The sinks of these attempts threw: retried while the id has a row that    *)
(* wants it.                                                                 *)
Failed(r, gs) ==
    LET again == ~isDeliverySuppressed(r) /\ HasRow(r)
    IN  AfterAttempts(
            [r EXCEPT !.dlv = [g \in Gens |->
                IF g \notin gs THEN @[g] ELSE IF again THEN "retry" ELSE "none"]], gs)

\* Mutant: only the epoch is compared.
isStaleByEpoch(r, g) == r.stamp[g] # epoch

\* Mutant: only the suppression marker is read.
isStaleByMarker(r, g) == isDeliverySuppressed(r)

(* isStale of the "async-result" dispatcher.                                 *)
isStale(r, g) == r.stamp[g] # epoch \/ isDeliverySuppressed(r)

-----------------------------------------------------------------------------
(* Helpers of the actions.                                                   *)

Status(g) == jobs[g].status
SetStatus(g, s) == [jobs EXCEPT ![g].status = s]

(* Bound: the second showing of a result is the last one recorded.           *)
Show(g) == [shown EXCEPT ![g] = IF Len(@) < 2 THEN Append(@, epoch) ELSE @]

(* buildJobResult prints the body of a row whose result nobody consumed.     *)
Report(g) ==
    IF Status(g) = "done" /\ ~m.consumed THEN shown' = Show(g) ELSE UNCHANGED shown

Made == {g \in Gens : Status(g) # "none"}
NextGen == Cardinality(Made) + 1

(* Three fields are history.  born: the epoch it starts in.  over: a         *)
(* delivery of an earlier generation was pending when this one took the id.  *)
(* cut: its row was there when the session it ran in was left.               *)
NewJob(s, fg) ==
    [status |-> s, fg |-> fg, settled |-> s = "done",
     born |-> epoch, over |-> Queued(m) \cup InFlight(m) # {}, cut |-> FALSE]

Tooling == wait # 0 \/ call # 0

-----------------------------------------------------------------------------
Init ==
    /\ jobs = [g \in Gens |-> NoJob]
    /\ m = [row |-> 0, suppressed |-> FALSE, watched |-> FALSE,
            consumed |-> FALSE, released |-> FALSE,
            timer |-> "off", timerOn |-> 0,
            dlv |-> [g \in Gens |-> "none"], stamp |-> [g \in Gens |-> 0]]
    /\ epoch = 0 /\ turn = "idle"
    /\ wait = 0 /\ call = 0 /\ reap = 0
    /\ shown = [g \in Gens |-> << >>]

(* register, by a tool call of the owner's run.  A foreground command hides  *)
(* its row and races it.  The running-job cap refuses a registration before  *)
(* it has any effect.                                                        *)
Register(fg) ==
    /\ NextGen \in Gens /\ ~HasRow(m) /\ turn = "work"
    /\ fg => call = 0
    /\ jobs' = [jobs EXCEPT ![NextGen] = NewJob("running", fg)]
    /\ m' = claimJobId(m, NextGen, fg)
    /\ call' = IF fg THEN NextGen ELSE call
    /\ UNCHANGED <<epoch, turn, wait, reap, shown>>

(* publishCompleted: the outcome of a turn somebody else started.            *)
publishCompleted ==
    /\ NextGen \in Gens /\ ~HasRow(m)
    /\ jobs' = [jobs EXCEPT ![NextGen] = NewJob("done", FALSE)]
    /\ m' = scheduleEviction(enqueueDelivery(claimJobId(m, NextGen, FALSE), NextGen))
    /\ UNCHANGED <<epoch, turn, wait, call, reap, shown>>

(* The run of a job ends, with a result or an error.  It acts on the id,     *)
(* whichever generation has the row by then.                                 *)
Settle(g) ==
    /\ Status(g) \in {"running", "cancelled"} /\ ~jobs[g].settled
    /\ jobs' = [jobs EXCEPT ![g].settled = TRUE,
                            ![g].status = IF @ = "running" THEN "done" ELSE @]
    /\ LET d == IF Status(g) = "running" THEN enqueueDelivery(m, g) ELSE m
       IN  m' = IF d.released THEN discardForegroundJob(d) ELSE scheduleEviction(d)
    /\ UNCHANGED <<epoch, turn, wait, call, reap, shown>>

(* cancel by the user, or by the cancel tool, which also reports the row.    *)
cancel ==
    /\ HasRow(m) /\ Status(m.row) = "running"
    /\ jobs' = SetStatus(m.row, "cancelled")
    /\ \/ UNCHANGED m
       \/ turn = "work" /\ m' = consumeJobResults(m, jobs')
    /\ UNCHANGED <<epoch, turn, wait, call, reap, shown>>

(* The cancel tool on a row that is no longer running reports it.            *)
Snapshot ==
    /\ HasRow(m) /\ turn = "work"
    /\ Status(m.row) # "running" /\ ~jobs[m.row].fg
    /\ Report(m.row)
    /\ m' = consumeJobResults(m, jobs)
    /\ UNCHANGED <<jobs, epoch, turn, wait, call, reap>>

(* The wait tool: an undelivered result is reported at once, a running job   *)
(* is watched.                                                               *)
WaitStart ==
    /\ turn = "work" /\ wait = 0
    /\ HasRow(m) /\ ~jobs[m.row].fg
    /\ \/ /\ Status(m.row) = "done"
          /\ ~m.consumed /\ ~isDeliverySuppressed(m)
          /\ Report(m.row)
          /\ m' = consumeJobResults(m, jobs)
          /\ UNCHANGED wait
       \/ /\ Status(m.row) = "running"
          /\ wait' = m.row /\ m' = watchJobs(m)
          /\ UNCHANGED shown
    /\ UNCHANGED <<jobs, epoch, turn, call, reap>>

(* The wait ends by a settled job, the cap, or a finished service, and       *)
(* reports the row the id has now, or the job it watched when there is none. *)
WaitReport ==
    /\ wait # 0
    /\ LET g == IF HasRow(m) THEN m.row ELSE wait
           c == IF Status(g) = "running" THEN m ELSE consumeJobResults(m, jobs)
       IN  /\ Report(g)
           /\ m' = unwatchJobs(c, jobs)
    /\ wait' = 0
    /\ UNCHANGED <<jobs, epoch, turn, call, reap>>

(* A message or an interrupt ends the wait without a report.                 *)
WaitInterrupted ==
    /\ wait # 0
    /\ m' = unwatchJobs(m, jobs) /\ wait' = 0
    /\ UNCHANGED <<jobs, epoch, turn, call, reap, shown>>

(* releaseForegroundJob.                                                     *)
releaseForegroundJob(r, js) ==
    IF ~HasRow(r) \/ ~js[r.row].fg THEN r
    ELSE IF js[r.row].settled THEN discardForegroundJob(r)
    ELSE [r EXCEPT !.released = TRUE]

(* The command finished while the call waited: its result is the call's.     *)
(* The completion reaches the call before or after the run settles.          *)
CallReturns ==
    /\ call # 0
    /\ shown' = Show(call)
    /\ m' = releaseForegroundJob(m, jobs) /\ call' = 0
    /\ UNCHANGED <<jobs, epoch, turn, wait, reap>>

CallAborted ==
    /\ call # 0
    /\ jobs' = IF HasRow(m) /\ Status(m.row) = "running"
               THEN SetStatus(m.row, "cancelled") ELSE jobs
    /\ m' = releaseForegroundJob(m, jobs') /\ call' = 0
    /\ UNCHANGED <<epoch, turn, wait, reap, shown>>

(* backgroundJob: a settled result is enqueued now.                          *)
CallBackgrounds ==
    /\ call # 0 /\ call' = 0
    /\ IF HasRow(m) /\ jobs[m.row].fg
       THEN /\ jobs' = [jobs EXCEPT ![m.row].fg = FALSE]
            /\ LET b == [m EXCEPT !.suppressed = FALSE]
               IN  m' = IF Status(m.row) = "done" THEN enqueueDelivery(b, m.row) ELSE b
       ELSE UNCHANGED <<jobs, m>>
    /\ UNCHANGED <<epoch, turn, wait, reap, shown>>

-----------------------------------------------------------------------------
(* The delivery loop, the session's sink and the yield queue.                *)

Deliver(g) ==
    /\ g \in Queued(m)
    /\ m' = IF isDeliverySuppressed(m) THEN [m EXCEPT !.dlv[g] = "none"]
            ELSE [m EXCEPT !.dlv[g] = "format", !.stamp[g] = epoch]
    /\ UNCHANGED <<jobs, epoch, turn, wait, call, reap, shown>>

(* The sink resumes after formatting: it returns, or parks an entry.         *)
Formatted(g) ==
    /\ m.dlv[g] = "format"
    /\ m' = IF isStale(m, g) THEN Delivered(m, jobs, g)
            ELSE [m EXCEPT !.dlv[g] = "parked"]
    /\ UNCHANGED <<jobs, epoch, turn, wait, call, reap, shown>>

(* A step boundary, once the tools returned, drains the queue into thunks.    *)
Boundary ==
    /\ turn = "work" /\ ~Tooling
    /\ turn' = "boundary"
    /\ m' = [m EXCEPT !.dlv = [g \in Gens |-> IF @[g] = "parked" THEN "drained" ELSE @[g]]]
    /\ UNCHANGED <<jobs, epoch, wait, call, reap, shown>>

(* The loop calls the thunk.                                                 *)
Build(g) ==
    /\ m.dlv[g] = "drained"
    /\ m' = IF isStale(m, g) THEN Failed(m, {g}) ELSE [m EXCEPT !.dlv[g] = "built"]
    /\ UNCHANGED <<jobs, epoch, turn, wait, call, reap, shown>>

(* The next turn opens with the message in the transcript.                   *)
Commit(g) ==
    /\ m.dlv[g] = "built"
    /\ shown' = Show(g) /\ m' = Delivered(m, jobs, g)
    /\ UNCHANGED <<jobs, epoch, turn, wait, call, reap>>

(* The run ends before the next turn: the message is discarded.              *)
Discard(g) ==
    /\ m.dlv[g] = "built"
    /\ m' = Failed(m, {g})
    /\ UNCHANGED <<jobs, epoch, turn, wait, call, reap, shown>>

(* The idle flush starts a turn with the message, or, after a user interrupt,*)
(* folds it into the transcript without one.                                 *)
IdleFlush(g) ==
    /\ m.dlv[g] = "parked" /\ turn = "idle"
    /\ IF isStale(m, g)
       THEN m' = Failed(m, {g}) /\ UNCHANGED <<turn, shown>>
       ELSE \/ /\ m' = [m EXCEPT !.dlv[g] = "built"]
               /\ turn' = "boundary" /\ UNCHANGED shown
            \/ /\ m' = Delivered(m, jobs, g)
               /\ shown' = Show(g) /\ UNCHANGED turn
    /\ UNCHANGED <<jobs, epoch, wait, call, reap>>

-----------------------------------------------------------------------------
(* Eviction, runs and transitions of the session, cancelling the root.       *)

(* Assumption: a retention is longer than a settled job's waiter takes to    *)
(* resume, and than a delivery that is due waits for its first attempt.      *)
Waking == \E g \in Gens : jobs[g].settled /\ (wait = g \/ call = g)

TimerFires ==
    /\ m.timer = "armed" /\ ~Waking
    /\ \A g \in Gens : m.dlv[g] # "queued"
    /\ IF InFlight(m) # {} /\ isDeliverySuppressed(m)
       THEN \E g \in InFlight(m) : m' = [m EXCEPT !.timer = "waiting", !.timerOn = g]
       ELSE m' = evictJob(m)
    /\ UNCHANGED <<jobs, epoch, turn, wait, call, reap, shown>>

StartRun ==
    /\ turn = "idle" /\ turn' = "work"
    /\ UNCHANGED <<jobs, m, epoch, wait, call, reap, shown>>

(* The loop leaves a boundary for the next turn or stops there; an abort     *)
(* stops it once the tools it was in returned.                               *)
LeaveBoundary ==
    /\ turn = "boundary" /\ turn' \in {"work", "idle"}
    /\ \A g \in Gens : m.dlv[g] \notin {"drained", "built"}
    /\ UNCHANGED <<jobs, m, epoch, wait, call, reap, shown>>

Abort ==
    /\ turn = "work" /\ turn' = "idle"
    /\ ~Tooling
    /\ UNCHANGED <<jobs, m, epoch, wait, call, reap, shown>>

\* Mutant: the jobs just cancelled are evicted too, settled or not.
evictAllJobs(r) == IF HasRow(r) THEN evictJob(acknowledgeDeliveries(r)) ELSE r

(* A session transition, once the run was aborted: cancelOwnAsyncJobs with   *)
(* cancelAll, evictCompletedJobs, the new epoch, and the yield queue cleared,*)
(* which rejects what is parked there.                                       *)
evictCompletedJobs(r) ==
    IF HasRow(r) /\ Status(r.row) = "done" THEN evictJob(acknowledgeDeliveries(r)) ELSE r

Transition ==
    /\ turn = "idle" /\ epoch < MaxEpoch
    /\ jobs' = [g \in Gens |->
                   IF m.row # g THEN jobs[g]
                   ELSE [jobs[g] EXCEPT !.cut = TRUE,
                             !.status = IF @ = "running" THEN "cancelled" ELSE @]]
    /\ m' = Failed(evictCompletedJobs(m), {g \in Gens : m.dlv[g] = "parked"})
    /\ epoch' = epoch + 1
    /\ UNCHANGED <<turn, wait, call, reap, shown>>

(* cancelRootWork: cancel, wait until a deadline, evict the pools' rows by   *)
(* name, and once more when what was unsettled at the deadline settles.      *)
CancelRoot ==
    /\ HasRow(m) /\ reap = 0
    /\ IF jobs[m.row].settled
       THEN m' = evictSettledJobs(m, jobs) /\ UNCHANGED <<jobs, reap>>
       ELSE /\ jobs' = SetStatus(m.row, "cancelled")
            /\ reap' = m.row /\ UNCHANGED m
    /\ UNCHANGED <<epoch, turn, wait, call, shown>>

ReapDeadline ==
    /\ reap # 0 /\ ~jobs[reap].settled
    /\ m' = evictSettledJobs(m, jobs)
    /\ UNCHANGED <<jobs, epoch, turn, wait, call, reap, shown>>

ReapSettled ==
    /\ reap # 0 /\ jobs[reap].settled
    /\ m' = evictSettledJobs(m, jobs) /\ reap' = 0
    /\ UNCHANGED <<jobs, epoch, turn, wait, call, shown>>

-----------------------------------------------------------------------------
Deliveries ==
    \E g \in Gens : \/ Deliver(g) \/ Formatted(g) \/ Build(g) \/ Commit(g)
                    \/ Discard(g) \/ IdleFlush(g)

Owner ==
    \/ Register(FALSE) \/ cancel \/ Snapshot
    \/ WaitStart \/ WaitReport \/ WaitInterrupted
    \/ StartRun \/ Boundary \/ LeaveBoundary \/ Abort \/ Transition

Next ==
    \/ Owner \/ Deliveries \/ TimerFires
    \/ \E g \in Gens : Settle(g)
    \/ Register(TRUE) \/ CallReturns \/ CallAborted \/ CallBackgrounds
    \/ publishCompleted

Spec == Init /\ [][Next]_vars

(* The steps the code schedules itself.  A run may be aborted, and a tool    *)
(* call interrupted, but not each time a result is about to be committed.    *)
Fairness ==
    /\ \A g \in Gens : /\ WF_vars(Deliver(g)) /\ WF_vars(Formatted(g))
                       /\ WF_vars(Build(g))
                       /\ SF_vars(Commit(g)) /\ SF_vars(IdleFlush(g))
    /\ WF_vars(WaitReport \/ WaitInterrupted)
    /\ WF_vars(Boundary) /\ WF_vars(LeaveBoundary)

FairSpec == Spec /\ Fairness

(* The id of a work pool's aggregate job, which cancelRootWork evicts.       *)
PoolNext ==
    \/ Owner \/ Deliveries \/ TimerFires
    \/ \E g \in Gens : Settle(g)
    \/ CancelRoot \/ ReapDeadline \/ ReapSettled

PoolSpec == Init /\ [][PoolNext]_vars

-----------------------------------------------------------------------------
Pcs == {"none", "queued", "retry", "format", "parked", "drained", "built"}

(* Every field keeps its type, and no generation has two deliveries at once: *)
(* backgroundJob enqueues without looking, and relies on the suppression a   *)
(* foreground job is registered with.                                        *)
TypeOK ==
    /\ jobs \in [Gens -> [status : {"none", "running", "done", "cancelled"},
                          fg : BOOLEAN, settled : BOOLEAN, born : Epochs,
                          over : BOOLEAN, cut : BOOLEAN]]
    /\ m \in [row : 0..MaxGen, suppressed : BOOLEAN, watched : BOOLEAN,
              consumed : BOOLEAN, released : BOOLEAN,
              timer : {"off", "armed", "waiting"}, timerOn : 0..MaxGen,
              dlv : [Gens -> Pcs], stamp : [Gens -> Epochs]]
    /\ epoch \in Epochs /\ turn \in {"idle", "work", "boundary"}
    /\ {wait, call, reap} \subseteq 0..MaxGen
    /\ shown \in [Gens -> UNION {[1..n -> Epochs] : n \in 0..2}]

(* The job took its id when no delivery of an earlier one was pending.       *)
Clean(g) == ~jobs[g].over

(* A result reaches the model once, whether a tool call reported it or the   *)
(* yield queue injected it: a snapshot that consumes a parked delivery keeps *)
(* the marker its staleness check reads until the attempt settles, eviction  *)
(* included (the comments of #consumeJobResult and #scheduleEviction).       *)
ShownOnce == \A g \in Gens : Clean(g) => Len(shown[g]) <= 1

(* A job whose row is there when its session is left (/new, switch, reset)   *)
(* shows nothing afterwards, wherever its delivery was: queued, at its sink, *)
(* parked, or retried for a job that took the id since.                      *)
OldResultsStayOut == [][\A g \in Gens : jobs[g].cut => shown'[g] = shown[g]]_vars

(* While a finished job has its row and nobody has seen its result, somebody *)
(* will bring it: a delivery, the wait that watches it, or the foreground    *)
(* call that races it.                                                       *)
NotLost ==
    HasRow(m) /\ Clean(m.row) /\ Status(m.row) = "done" /\ shown[m.row] = << >>
        => m.dlv[m.row] # "none" \/ (m.watched /\ wait = m.row) \/ jobs[m.row].fg

(* A result marked consumed, which no wait returns and no snapshot prints    *)
(* any more, has been seen ("True once a result was auto-delivered or        *)
(* recovered by a foreground snapshot", isJobResultConsumed).                *)
ConsumedWasSeen ==
    HasRow(m) /\ Clean(m.row) /\ m.consumed /\ Status(m.row) = "done"
        => shown[m.row] # << >>

(* Until its run settles a job keeps its row, so its id names it and nothing *)
(* else ("Unsettled jobs are never evicted", cancelAndReapJobs): neither a   *)
(* stale eviction timer nor a session transition takes the row away.         *)
RunningHasRow ==
    \A g \in Gens : Status(g) # "none" /\ ~jobs[g].settled => m.row = g

(* A finished background job's result is shown unless its row is evicted     *)
(* first, by a transition or by the retention.                               *)
Told ==
    \A g \in Gens :
        (m.row = g /\ Clean(g) /\ Status(g) = "done" /\ ~jobs[g].fg)
            ~> (shown[g] # << >> \/ m.row # g)

(* What evictCompletedJobs says of a transition: it drops "every queued      *)
(* delivery so a prior session's result can never be injected into a later   *)
(* transcript".                                                              *)
StaysInItsSession ==
    \A g \in Gens : \A i \in DOMAIN shown[g] : shown[g][i] = jobs[g].born

=============================================================================
