----------------------------- MODULE ReplyWait -----------------------------
(***************************************************************************)
(* Agents that message one another over the IRC bus (irc/bus.ts), the      *)
(* `wait` tool that blocks on a job or on a reply (tools/wait.ts), the     *)
(* record of who is blocked on whom (registry/agent-awaits.ts) and the     *)
(* turns of the sessions the messages reach (session/irc-bridge.ts, the    *)
(* wake turns of session/agent-session.ts and their relayed output,        *)
(* task/executor.ts).                                                      *)
(*                                                                         *)
(* A message is its sequence number.  Registry and await listeners run     *)
(* synchronously: a step that changes a status or a hold leaves in check   *)
(* the reply waits that look again, and nothing else moves until they did. *)
(***************************************************************************)
EXTENDS Integers

CONSTANTS Agents,      \* the agents of the process
          Root,        \* the top-level one: no parent, no relayed output
          None,        \* "no value"
          Parent,      \* the spawn tree: who spawns each agent
          MaxSends     \* bound: messages sent by agents

ASSUME TreeAssumption == /\ Root \in Agents /\ None \notin Agents
                         /\ Parent \in [Agents -> Agents \cup {None}]
                         /\ \A a \in Agents : Parent[a] = None <=> a = Root
\* An agent is there before it spawns another: nobody is above itself.
ASSUME ForestAssumption ==
  \A S \in SUBSET Agents : S # {} => \E a \in S : \A c \in S : Parent[c] # a
ASSUME SendsAssumption == MaxSends \in Nat

VARIABLES
    mode,          \* what each agent does
    driven,        \* the run an executor drives: an async job, an inline call
    sending,       \* the send in progress of each agent
    queue,         \* the messages a session holds for a later step or turn
    seq,           \* IrcBus.#sendSeq
    lastSent, lastDirect, lastProgress, lastJobReply,   \* the mark tables
    runStart,      \* runStartedAt, in the order of sends
    hold,          \* AgentAwaits.#holds
    turn,          \* the monitored wake turn that runs
    obs,           \* the ended turn whose observation is still open
    due,           \* relays a closed observation still has to send
    subs,          \* whose agent_end a reply wait listens to
    ended,         \* the ends it heard, until that agent's relays are sent
    check,         \* reply waits about to look again
    sent           \* how many messages were sent

marks == <<lastSent, lastDirect, lastProgress, lastJobReply>>
turns == <<turn, obs, due>>
vars  == <<mode, driven, sending, queue, seq, marks, runStart, hold,
           turns, subs, ended, check, sent>>

Pairs  == Agents \X Agents
Letters == [from : Agents, asks : BOOLEAN]   \* queued: who sent it, and whether
                                             \* it asks something of its reader
Modes  == {"new", "parked", "idle", "settling",           \* not streaming
           "run", "closing", "reply", "jobs", "inline"}   \* streaming
Blocks == {"reply", "jobs"}   \* a `wait` call, which a message ends

-----------------------------------------------------------------------------
(* The sessions.                                                           *)

(* The agents above w: in every set with w and the parents of its members. *)
Above(w) == {b \in Agents \ {w} : \A S \in SUBSET Agents :
                w \in S /\ (\A x \in S : Parent[x] \in S \cup {None}) => b \in S}

Live(a)      == mode[a] \notin {"new", "parked"}
Streaming(a) == mode[a] \in {"run", "closing", "reply", "jobs", "inline"}
Free(a)      == mode[a] = "run" /\ sending[a] = None
Monitored(a) == a # Root /\ driven[a] = "no"

(* A job stands for the run of an agent that its parent owns.              *)
HasJob(a)  == \/ driven[a] = "async"
              \/ turn[a] # None /\ turn[a].owned
              \/ obs[a] # None /\ obs[a].owned
\* Mutant: the children that once had a job.
OwnJobsEver(p) == {c \in Agents : Parent[c] = p /\ mode[c] # "new"}

OwnJobs(p) == {c \in Agents : Parent[c] = p /\ HasJob(c)}

(* IrcBridge.#pendingReplies: what waitForIrcReplies outlasts.             *)
RelayPending(a) == turn[a] # None \/ obs[a] # None \/ due[a] # {}

(* IrcBridge.hasQueuedFrom: anything of the sender's, whatever it asks.    *)
QueuedFrom(a, b) == \E m \in queue[b] : m.from = a

-----------------------------------------------------------------------------
(* AgentAwaits: whether id finishes only after target does.                *)

Paths == Agents \X SUBSET Agents   \* an agent, and those visited before it

Reaches(target) ==
  LET reach[at \in Paths] ==
        \/ at[1] = target
        \/ /\ at[1] \notin at[2]
           /\ \E h \in hold[at[1]] :
                \A x \in h.awaited : reach[<<x, at[2] \cup {at[1]}>>]
  IN  reach

\* Mutant: a block that a message may end never counts.
blocksOnHard(agent, target, sentAt) ==
  \E h \in hold[agent] :
     ~h.interruptible /\ \A x \in h.awaited : Reaches(target)[<<x, {agent}>>]

(* A message ends an interruptible block, unless the block began after it. *)
blocksOn(agent, target, sentAt) ==
  \E h \in hold[agent] :
     /\ ~(h.interruptible /\ h.since < sentAt)
     /\ \A x \in h.awaited : Reaches(target)[<<x, {agent}>>]

-----------------------------------------------------------------------------
(* The replies a wait can block for.                                       *)

Promised(a, b) == lastProgress[b, a] > lastDirect[a, b]
\* Mutant: only the result of a job answers.
AnsweredByJob(a, b) ==
  ~Promised(a, b) /\ lastJobReply[b, a] > lastDirect[a, b]

Answered(a, b) == \/ lastSent[b, a] > lastDirect[a, b]
                  \/ ~Promised(a, b) /\ lastJobReply[b, a] > lastDirect[a, b]
unansweredSends(a) ==
  {b \in Agents : lastDirect[a, b] > runStart[a] /\ ~Answered(a, b)}

Blocked(a) == {b \in unansweredSends(a) :
                  Live(b) /\ blocksOn(b, a, lastDirect[a, b])}
From(a)    == {b \in unansweredSends(a) \ Blocked(a) :
                  Live(b) /\ (Promised(a, b) \/ Streaming(b) \/ QueuedFrom(a, b))}
Stopped(a) == unansweredSends(a) \ (Blocked(a) \cup From(a))

-----------------------------------------------------------------------------
Init == /\ mode = [a \in Agents |-> IF a = Root THEN "run" ELSE "new"]
        /\ driven = [a \in Agents |-> "no"]
        /\ sending = [a \in Agents |-> None]
        /\ queue = [a \in Agents |-> {}]
        /\ seq = 0 /\ sent = 0
        /\ lastSent = [p \in Pairs |-> 0]
        /\ lastDirect = [p \in Pairs |-> 0]
        /\ lastProgress = [p \in Pairs |-> 0]
        /\ lastJobReply = [p \in Pairs |-> 0]
        /\ runStart = [a \in Agents |-> 0]
        /\ hold = [a \in Agents |-> {}]
        /\ turn = [a \in Agents |-> None]
        /\ obs = [a \in Agents |-> None]
        /\ due = [a \in Agents |-> {}]
        /\ subs = [a \in Agents |-> {}]
        /\ ended = [a \in Agents |-> {}]
        /\ check = {}

(* A registry or await event: every reply wait looks again.                *)
Changed == check' = {w \in Agents : mode'[w] = "reply"}
Quiet   == check' = {}

WaitOver(a) == /\ subs' = [subs EXCEPT ![a] = {}]
               /\ ended' = [ended EXCEPT ![a] = {}]

NewTurn(wakers, owned) == [wakers |-> wakers, owned |-> owned, since |-> seq]

(* wakeSources: a relay answers and a progress note asks nothing back, so  *)
(* neither makes its sender one who is owed the output of the turn.        *)
Wakers(letters) == {m.from : m \in {l \in letters : l.asks}}

(* A monitored turn is the job of a parent among its wakers.               *)
WakeTurn(b, letters) ==
  IF Monitored(b) THEN NewTurn(Wakers(letters), Parent[b] \in Wakers(letters))
  ELSE None

-----------------------------------------------------------------------------
(* Spawning: as a job of the caller, or inline, which blocks the caller.   *)

Spawned(c, how) ==
  /\ mode[c] = "new"
  /\ driven' = [driven EXCEPT ![c] = how]
  /\ runStart' = [runStart EXCEPT ![c] = seq]
  /\ Changed
  /\ UNCHANGED <<sending, queue, seq, marks, turns, subs, ended, sent>>

SpawnJob(p, c) ==
  /\ Free(p) /\ Parent[c] = p
  /\ mode' = [mode EXCEPT ![c] = "run"]
  /\ UNCHANGED hold
  /\ Spawned(c, "async")

SpawnInline(p, c) ==
  /\ Free(p) /\ Parent[c] = p
  /\ mode' = [mode EXCEPT ![c] = "run", ![p] = "inline"]
  /\ hold' = [hold EXCEPT ![p] =
        {[awaited |-> {c}, since |-> seq, interruptible |-> FALSE]}]
  /\ Spawned(c, "inline")

-----------------------------------------------------------------------------
(* Sending.  The mark is taken when the send starts, recorded when the     *)
(* delivery succeeded.                                                     *)

Send(a, b, progress) ==
  /\ Free(a) /\ a # b /\ mode[b] # "new" /\ sent < MaxSends
  /\ seq' = seq + 1 /\ sent' = sent + 1
  /\ sending' = [sending EXCEPT ![a] =
        [id |-> seq + 1, to |-> b, progress |-> progress]]
  /\ Quiet
  /\ UNCHANGED <<mode, driven, queue, marks, runStart, hold, turns,
                 subs, ended>>

record(table, from, to, id) ==
  [table EXCEPT ![<<from, to>>] = IF @ < id THEN id ELSE @]

\* Mutant: the message ends the wait but its block is not released.
ToWaiterHeld(b) ==
  /\ mode[b] \in Blocks
  /\ mode' = [mode EXCEPT ![b] = "run"]
  /\ WaitOver(b) /\ Quiet
  /\ UNCHANGED <<hold, queue, runStart, turn>>

(* A pending wait of the recipient takes the message and ends.             *)
ToWaiter(b) ==
  /\ mode[b] \in Blocks
  /\ mode' = [mode EXCEPT ![b] = "run"]
  /\ hold' = [hold EXCEPT ![b] = {}]
  /\ WaitOver(b)
  /\ IF hold[b] = {} THEN Quiet ELSE Changed
  /\ UNCHANGED <<queue, runStart, turn>>

(* A parent's message steers the running turn, and makes it the parent's.  *)
ToSteer(a, b) ==
  /\ mode[b] \in {"run", "inline"} /\ Parent[b] = a
  /\ turn' = [turn EXCEPT ![b] =
        IF @ = None THEN None ELSE [@ EXCEPT !.owned = TRUE]]
  /\ Quiet
  /\ UNCHANGED <<mode, hold, queue, runStart, subs, ended>>

(* Anyone else's waits for the next step of the run, or a turn of its own. *)
Descends(a, b) == b \in Above(a)
ToQueue(a, b, asks) ==
  /\ \/ mode[b] \in {"run", "closing", "inline"} /\ Parent[b] # a
     \/ mode[b] = "settling" /\ Parent[b] # a /\ ~Descends(a, b)
  /\ queue' = [queue EXCEPT ![b] = @ \cup {[from |-> a, asks |-> asks]}]
  /\ Quiet
  /\ UNCHANGED <<mode, hold, runStart, turn, subs, ended>>

(* An idle recipient is woken, a parked one revived first.  The output of  *)
(* a monitored turn is relayed to who asked, as a job to the parent.       *)
ToWake(a, b, asks) ==
  /\ \/ mode[b] \in {"idle", "parked"}
     \/ mode[b] = "settling" /\ (Parent[b] = a \/ Descends(a, b))
  /\ mode' = [mode EXCEPT ![b] = "run"]
  /\ runStart' = [runStart EXCEPT ![b] = seq]
  /\ turn' = [turn EXCEPT ![b] =
        WakeTurn(b, {[from |-> a, asks |-> asks]})]
  /\ Changed
  /\ UNCHANGED <<hold, queue, subs, ended>>

HandOver(a, b, asks) == \/ ToWaiter(b) \/ ToSteer(a, b)
                        \/ ToQueue(a, b, asks) \/ ToWake(a, b, asks)

Deliver(a) ==
  /\ sending[a] # None
  /\ LET m == sending[a] IN
     /\ HandOver(a, m.to, ~m.progress)
     /\ IF m.progress
        THEN /\ lastProgress' = record(lastProgress, a, m.to, m.id)
             /\ UNCHANGED <<lastSent, lastDirect>>
        ELSE /\ lastSent' = record(lastSent, a, m.to, m.id)
             /\ lastDirect' = record(lastDirect, a, m.to, m.id)
             /\ UNCHANGED lastProgress
  /\ sending' = [sending EXCEPT ![a] = None]
  /\ UNCHANGED <<driven, seq, lastJobReply, obs, due, sent>>

(* The run reads what was queued for it at a step boundary; a `wait` call  *)
(* returns it at once.                                                     *)
Read(a) ==
  /\ Free(a) /\ queue[a] # {}
  /\ queue' = [queue EXCEPT ![a] = {}]
  /\ Quiet
  /\ UNCHANGED <<mode, driven, sending, seq, marks, runStart, hold,
                 turns, subs, ended, sent>>

-----------------------------------------------------------------------------
(* The `wait` tool.                                                        *)

WaitJobs(a) ==
  /\ Free(a) /\ queue[a] = {} /\ OwnJobs(a) # {}
  /\ mode' = [mode EXCEPT ![a] = "jobs"]
  /\ hold' = [hold EXCEPT ![a] =
        {[awaited |-> OwnJobs(a), since |-> seq, interruptible |-> TRUE]}]
  /\ Changed
  /\ UNCHANGED <<driven, sending, queue, seq, marks, runStart, turns,
                 subs, ended, sent>>

WaitReply(a) ==
  /\ Free(a) /\ queue[a] = {} /\ OwnJobs(a) = {} /\ From(a) # {}
  /\ mode' = [mode EXCEPT ![a] = "reply"]
  /\ subs' = [subs EXCEPT ![a] = From(a)]
  /\ Quiet
  /\ UNCHANGED <<driven, sending, queue, seq, marks, runStart, hold,
                 turns, ended, sent>>

(* checkReplies: the wait ends once no agent asked can still answer.       *)
checkReplies(w) ==
  /\ w \in check
  /\ check' = check \ {w}
  /\ IF From(w) = {}
     THEN mode' = [mode EXCEPT ![w] = "run"] /\ WaitOver(w)
     ELSE UNCHANGED <<mode, subs, ended>>
  /\ UNCHANGED <<driven, sending, queue, seq, marks, runStart, hold,
                 turns, sent>>

(* An end of turn the wait heard: it looks once the relays are sent.       *)
EndHeard(w, b) ==
  /\ b \in ended[w] /\ ~RelayPending(b)
  /\ ended' = [ended EXCEPT ![w] = @ \ {b}]
  /\ check' = {w}
  /\ UNCHANGED <<mode, driven, sending, queue, seq, marks, runStart,
                 hold, turns, subs, sent>>

(* WAIT_MAX_MS elapsed, or a steer cut the call short.                     *)
WaitCut(w) ==
  /\ mode[w] \in Blocks
  /\ mode' = [mode EXCEPT ![w] = "run"]
  /\ hold' = [hold EXCEPT ![w] = {}]
  /\ WaitOver(w)
  /\ IF hold[w] = {} THEN Quiet ELSE Changed
  /\ UNCHANGED <<driven, sending, queue, seq, marks, runStart, turns,
                 sent>>

-----------------------------------------------------------------------------
(* Ends of turns.  The run state goes idle while the prompt's bracket is   *)
(* still open, so a listener still sees the agent streaming.               *)

StatusIdle(a) ==
  /\ Free(a)
  /\ mode' = [mode EXCEPT ![a] = "closing"]
  /\ Changed
  /\ UNCHANGED <<driven, sending, queue, seq, marks, runStart, hold,
                 turns, subs, ended, sent>>

\* Mutant: a wait hears an end only when no relay is owed.
AgentEndsUnowed(a) == ended' = [w \in Agents |->
   IF a \in subs[w] /\ ~RelayPending(a) THEN ended[w] \cup {a} ELSE ended[w]]

(* The bracket closes: agent_end.  Messages that came too late for the     *)
(* turn wake one of their own before anyone sees the agent idle.           *)
AgentEnds(a) == ended' = [w \in Agents |->
                  IF a \in subs[w] THEN ended[w] \cup {a} ELSE ended[w]]

TurnOver(a) ==
  /\ mode[a] = "closing" /\ driven[a] = "no"
  /\ turn[a] # None => obs[a] = None
  /\ obs' = [obs EXCEPT ![a] = IF turn[a] = None THEN @ ELSE turn[a]]
  /\ IF queue[a] = {}
     THEN /\ mode' = [mode EXCEPT ![a] = "idle"]
          /\ turn' = [turn EXCEPT ![a] = None]
          /\ Quiet
          /\ UNCHANGED <<queue, runStart>>
     ELSE /\ mode' = [mode EXCEPT ![a] = "run"]
          /\ turn' = [turn EXCEPT ![a] = WakeTurn(a, queue[a])]
          /\ queue' = [queue EXCEPT ![a] = {}]
          /\ runStart' = [runStart EXCEPT ![a] = seq]
          /\ Changed
  /\ AgentEnds(a)
  /\ UNCHANGED <<driven, sending, seq, marks, hold, due, subs, sent>>

(* A driven run waits for its own jobs before it ends.                     *)
DrivenSettles(a) ==
  /\ mode[a] = "closing" /\ driven[a] # "no" /\ OwnJobs(a) # {}
  /\ mode' = [mode EXCEPT ![a] = "settling"]
  /\ AgentEnds(a)
  /\ Quiet
  /\ UNCHANGED <<driven, sending, queue, seq, marks, runStart, hold,
                 turns, subs, sent>>

(* A job of agent c settles: its result answers what the owner asked, ends *)
(* the owner's wait, and continues an owner that is idle.                  *)
JobSettles(c) ==
  LET p == Parent[c] IN
  /\ mode[p] # "closing"
  /\ seq' = seq + 1
  /\ lastJobReply' = record(lastJobReply, c, p, seq + 1)
  /\ hold' = IF mode[p] = "jobs" THEN [hold EXCEPT ![p] = {}] ELSE hold
  /\ runStart' = IF mode[p] \in {"idle", "settling"}
                 THEN [runStart EXCEPT ![p] = seq + 1] ELSE runStart
  /\ UNCHANGED <<lastSent, lastDirect, lastProgress>>

Continued(p) == IF mode[p] \in {"idle", "settling", "reply", "jobs"}
                THEN "run" ELSE mode[p]

(* The turn that continues an idle owner is its open observation's, or a   *)
(* bare one.                                                               *)
Continuation(p) == IF mode[p] = "idle" /\ Monitored(p) /\ obs[p] = None
                   THEN NewTurn({}, FALSE) ELSE turn[p]

(* Messages held for a turn of their own wake it once the run is over.     *)
DrivenOver(a) ==
  LET p == Parent[a]
      next == IF queue[a] = {} THEN "idle" ELSE "closing"
  IN
  /\ mode[a] = "closing" /\ driven[a] # "no" /\ OwnJobs(a) = {}
  /\ driven' = [driven EXCEPT ![a] = "no"]
  /\ IF driven[a] = "async"
     THEN /\ JobSettles(a)
          /\ mode' = [mode EXCEPT ![a] = next, ![p] = Continued(p)]
          /\ turn' = [turn EXCEPT ![p] = Continuation(p)]
     ELSE /\ mode' = [mode EXCEPT ![a] = next, ![p] = "run"]
          /\ hold' = [hold EXCEPT ![p] = {}]
          /\ UNCHANGED <<seq, marks, runStart, turn>>
  /\ ended' = [w \in Agents |-> IF w = p THEN {}
                  ELSE IF a \in subs[w] THEN ended[w] \cup {a} ELSE ended[w]]
  /\ subs' = [subs EXCEPT ![p] = {}]
  /\ Changed
  /\ UNCHANGED <<sending, queue, obs, due, sent>>

-----------------------------------------------------------------------------
(* #finishTurnObservation: the observation closes once the agent's own     *)
(* jobs have settled, at once when a newer turn supersedes it.  Only then  *)
(* is the outcome told: to the parent as the job's result, else relayed.   *)

Owed(a) == {[to |-> w, since |-> obs[a].since] :
              w \in obs[a].wakers \ (IF obs[a].owned THEN {Parent[a]} ELSE {})}

CloseObservation(a) ==
  /\ obs[a] # None
  /\ turn[a] # None \/ (mode[a] = "idle" /\ OwnJobs(a) = {})
  /\ due' = [due EXCEPT ![a] = @ \cup Owed(a)]
  /\ obs' = [obs EXCEPT ![a] = None]
  /\ IF obs[a].owned
     THEN LET p == Parent[a] IN
          /\ JobSettles(a)
          /\ mode' = [mode EXCEPT ![p] = Continued(p)]
          /\ turn' = [turn EXCEPT ![p] = Continuation(p)]
          /\ WaitOver(p)
          /\ Changed
     ELSE /\ Quiet
          /\ UNCHANGED <<seq, marks, mode, turn, hold, runStart, subs, ended>>
  /\ UNCHANGED <<driven, sending, queue, sent>>

(* relayWakeTurnOutput: nothing when the turn already messaged its waker.  *)
sentSince(a, d) == \/ lastSent[a, d.to] > d.since
                   \/ lastProgress[a, d.to] > d.since

Relayed(a, d) ==
  /\ d \in due[a] /\ sentSince(a, d)
  /\ due' = [due EXCEPT ![a] = @ \ {d}]
  /\ Quiet
  /\ UNCHANGED <<mode, driven, sending, queue, seq, marks, runStart,
                 hold, turn, obs, subs, ended, sent>>

Relay(a, d) ==
  /\ d \in due[a] /\ ~sentSince(a, d)
  /\ due' = [due EXCEPT ![a] = @ \ {d}]
  /\ HandOver(a, d.to, FALSE)
  /\ seq' = seq + 1
  /\ lastSent' = record(lastSent, a, d.to, seq + 1)
  /\ UNCHANGED <<driven, sending, lastDirect, lastProgress,
                 lastJobReply, obs, sent>>

(* The idle TTL of a kept-alive agent; its session goes, and with it what  *)
(* listened to it.                                                         *)
Park(a) ==
  /\ a # Root /\ mode[a] = "idle" /\ queue[a] = {} /\ OwnJobs(a) = {}
  /\ ~RelayPending(a)
  /\ mode' = [mode EXCEPT ![a] = "parked"]
  /\ subs' = [w \in Agents |-> subs[w] \ {a}]
  /\ Changed
  /\ UNCHANGED <<driven, sending, queue, seq, marks, runStart, hold,
                 turns, ended, sent>>

-----------------------------------------------------------------------------
Step(a) == \/ \E c \in Agents : SpawnJob(a, c) \/ SpawnInline(a, c)
           \/ \E b \in Agents, progress \in BOOLEAN : Send(a, b, progress)
           \/ Deliver(a) \/ Read(a)
           \/ WaitJobs(a) \/ WaitReply(a) \/ WaitCut(a)
           \/ \E b \in Agents : EndHeard(a, b)
           \/ StatusIdle(a) \/ TurnOver(a) \/ DrivenSettles(a) \/ DrivenOver(a)
           \/ CloseObservation(a)
           \/ \E d \in due[a] : Relayed(a, d) \/ Relay(a, d)
           \/ Park(a)

Next == \/ \E w \in Agents : checkReplies(w)
        \/ check = {} /\ \E a \in Agents : Step(a)

Spec == Init /\ [][Next]_vars

-----------------------------------------------------------------------------
(* Properties.                                                             *)

Turns == [wakers : SUBSET Agents, owned : BOOLEAN, since : Nat]
Holds == [awaited : (SUBSET Agents) \ {{}}, since : Nat,
          interruptible : BOOLEAN]

(* Every variable keeps its shape, and only an agent that is blocked holds. *)
TypeOK ==
  /\ mode \in [Agents -> Modes]
  /\ driven \in [Agents -> {"no", "async", "inline"}]
  /\ \A a \in Agents :
       /\ \/ sending[a] = None
          \/ sending[a] \in [id : Nat, to : Agents, progress : BOOLEAN]
       /\ hold[a] \in SUBSET Holds
       /\ hold[a] # {} <=> mode[a] \in {"jobs", "inline"}
       /\ subs[a] # {} => mode[a] = "reply"
       /\ turn[a] = None \/ turn[a] \in Turns
       /\ obs[a] = None \/ obs[a] \in Turns
       /\ due[a] \in SUBSET [to : Agents, since : Nat]
  /\ queue \in [Agents -> SUBSET Letters]
  /\ subs \in [Agents -> SUBSET Agents]
  /\ ended \in [Agents -> SUBSET Agents]
  /\ seq \in Nat /\ sent \in 0..MaxSends
  /\ lastSent \in [Pairs -> 0..seq] /\ lastDirect \in [Pairs -> 0..seq]
  /\ lastProgress \in [Pairs -> 0..seq] /\ lastJobReply \in [Pairs -> 0..seq]
  /\ runStart \in [Agents -> 0..seq]
  /\ check \in SUBSET Agents

(* Two agents never wait for each other's reply: the marks are ordered by  *)
(* the start of the sends, so of two questions that crossed, the later one *)
(* answers the earlier.                                                    *)
NoMutualWait ==
  \A a, b \in Agents : ~(/\ mode[a] = "reply" /\ b \in From(a)
                         /\ mode[b] = "reply" /\ a \in From(b))

(* No wakeup is lost: a reply wait that no agent can answer any more is    *)
(* about to look again, or waits for the relays of an end it heard, unless *)
(* an agent it asked took up work after the wait had begun.                *)
EndIsHeard ==
  \A w \in Agents :
     (mode[w] = "reply" /\ From(w) = {} /\ w \notin check)
        => ended[w] # {} \/ ~(unansweredSends(w) \subseteq subs[w])

(* An asker is told that an agent cannot answer exactly when that agent    *)
(* and everyone between it and the asker is blocked, each on nothing but   *)
(* the next: a second job in a block is another way out, the times that    *)
(* blocksOn compares never leave out a block that no message ends, nor     *)
(* count one the question itself ended, and the visited path of #reaches   *)
(* cuts off no chain.                                                      *)
Waited(x) == UNION {h.awaited : h \in hold[x]}
BlockedIsParked ==
  \A w \in Agents :
     Blocked(w) = {b \in unansweredSends(w) \cap Above(w) :
        \A x \in Above(w) : x = b \/ b \in Above(x)
            => /\ mode[x] \in {"jobs", "inline"}
               /\ Waited(x) \subseteq Above(w) \cup {w}}

(* No block outlives what it waits for: whoever is recorded as blocked     *)
(* waits for children of its own, each with a job or an inline run that    *)
(* has not ended, in whatever order turns, relays and results ended.       *)
HoldsAreOwed ==
  \A a \in Agents : \A h \in hold[a] : \A c \in h.awaited :
     /\ Parent[c] = a
     /\ IF h.interruptible THEN HasJob(c) ELSE driven[c] = "inline"

(* The class comment of WaitTool: "A reply wait ends once no agent asked   *)
(* can still answer".  The relays an end waits for can hang on the waiter: *)
(* they wait for the jobs of the agent it asked, and the waiter is one.    *)
HangsOn(b, w) == /\ obs[b] # None /\ turn[b] = None
                 /\ w \in OwnJobs(b)
WaitEnds ==
  \A w \in Agents :
     (mode[w] = "reply" /\ From(w) = {} /\ w \notin check)
        => \E b \in ended[w] : ~HangsOn(b, w)
=============================================================================
