-------------------------- MODULE ReplyWaitProofs --------------------------
(***************************************************************************)
(* Two agents never wait for each other's reply, for any set of agents,    *)
(* any spawn tree and any number of messages.  The argument is about the   *)
(* marks of the bus alone: of two crossing questions the later one answers *)
(* the earlier, because every mark has a number of its own, taken when the *)
(* send started, and a recorded question is also a recorded message.       *)
(*                                                                         *)
(* Nor is a wakeup of a reply wait lost.  That argument is about what each *)
(* step can take from the agents that may still answer: a step that tells  *)
(* no wait to look again moves no hold, no mark of an agent that waits,    *)
(* and takes away at most the agent whose turn it ends, which every wait   *)
(* that listens to it has heard.                                           *)
(*                                                                         *)
(* And who is reported as blocked is.  Every hold waits for children that  *)
(* have not ended, so a path of holds goes down the spawn tree, and what   *)
(* #reaches finds by following them is what the tree says.                 *)
(***************************************************************************)
EXTENDS ReplyWait, TLAPS

Sends == [id : Nat \ {0}, to : Agents, progress : BOOLEAN]

MarksType == /\ seq \in Nat
             /\ lastSent \in [Pairs -> Nat]
             /\ lastDirect \in [Pairs -> Nat]
             /\ runStart \in [Agents -> Nat]

(* A send in progress has a number of its own, and is never to oneself.    *)
SendsType == /\ DOMAIN sending = Agents
             /\ \A a \in Agents : sending[a] # None =>
                   /\ sending[a] \in Sends /\ sending[a].id <= seq
                   /\ sending[a].to # a
SendsApart == \A a, b \in Agents :
   (sending[a] # None /\ sending[b] # None /\ a # b)
      => sending[a].id # sending[b].id
SendsUnmarked == \A a \in Agents, p \in Pairs :
   sending[a] # None => lastDirect[p] # sending[a].id

MarksKnown  == \A p \in Pairs : lastDirect[p] <= seq
MarksApart  == \A p, q \in Pairs :
   (p # q /\ lastDirect[p] # 0) => lastDirect[p] # lastDirect[q]
AskedIsSent == \A p \in Pairs : lastDirect[p] <= lastSent[p]
NotSelf     == \A a \in Agents : lastDirect[<<a, a>>] = 0

MarksInv == /\ MarksType /\ SendsType /\ SendsApart /\ SendsUnmarked
            /\ MarksKnown /\ MarksApart /\ AskedIsSent /\ NotSelf

-----------------------------------------------------------------------------
(* Recording a mark moves that entry alone, and only forward.              *)
LEMMA Recorded ==
  ASSUME NEW table \in [Pairs -> Nat], NEW from, NEW to, NEW id \in Nat
  PROVE  /\ record(table, from, to, id) \in [Pairs -> Nat]
         /\ \A p \in Pairs : record(table, from, to, id)[p] =
               IF p = <<from, to>> /\ table[p] < id THEN id ELSE table[p]
BY DEF record

(* The invariant holds at the start.                                       *)
LEMMA MarksInit == Init => MarksInv
<1> SUFFICES ASSUME Init PROVE MarksInv
  OBVIOUS
<1>1. /\ seq = 0 /\ DOMAIN sending = Agents
      /\ \A a \in Agents : sending[a] = None
      /\ \A p \in Pairs : lastDirect[p] = 0 /\ lastSent[p] = 0
      /\ lastSent \in [Pairs -> Nat] /\ lastDirect \in [Pairs -> Nat]
      /\ runStart \in [Agents -> Nat]
  BY DEF Init
<1>2. MarksType /\ SendsType /\ SendsApart /\ SendsUnmarked
  BY <1>1 DEF MarksType, SendsType, SendsApart, SendsUnmarked
<1>3. MarksKnown /\ MarksApart /\ AskedIsSent
  BY <1>1 DEF MarksKnown, MarksApart, AskedIsSent
<1>4. NotSelf
  BY <1>1 DEF NotSelf, Pairs
<1> QED
  BY <1>2, <1>3, <1>4 DEF MarksInv

(* A step that records no question and starts no send keeps it.            *)
LEMMA MarksKept ==
  ASSUME MarksInv, seq' \in Nat, seq <= seq',
         UNCHANGED <<lastDirect, sending>>,
         runStart' \in [Agents -> Nat],
         lastSent' \in [Pairs -> Nat],
         \A p \in Pairs : lastSent[p] <= lastSent'[p]
  PROVE  MarksInv'
<1>1. MarksType'
  BY DEF MarksInv, MarksType
<1>2. SendsType' /\ SendsApart' /\ SendsUnmarked'
  BY DEF MarksInv, MarksType, SendsType, SendsApart, SendsUnmarked, Sends
<1>3. MarksKnown' /\ MarksApart' /\ NotSelf'
  BY DEF MarksInv, MarksType, MarksKnown, MarksApart, NotSelf
<1>4. AskedIsSent'
  BY DEF MarksInv, MarksType, AskedIsSent
<1> QED
  BY <1>1, <1>2, <1>3, <1>4 DEF MarksInv

-----------------------------------------------------------------------------
(* What the parts shared by several actions do to the marks.               *)
LEMMA HandOverRuns ==
  ASSUME MarksType, NEW a, NEW b, NEW asks, HandOver(a, b, asks)
  PROVE  runStart' \in [Agents -> Nat]
<1>1. CASE ToWaiter(b)     BY <1>1 DEF ToWaiter, MarksType
<1>2. CASE ToSteer(a, b)   BY <1>2 DEF ToSteer, MarksType
<1>3. CASE ToQueue(a, b, asks)   BY <1>3 DEF ToQueue, MarksType
<1>4. CASE ToWake(a, b, asks)
  <2>1. runStart' = [runStart EXCEPT ![b] = seq]
    BY <1>4 DEF ToWake
  <2> QED
    BY <2>1 DEF MarksType
<1> QED
  BY <1>1, <1>2, <1>3, <1>4 DEF HandOver

(* A settled job takes a number and records neither a question nor a       *)
(* message.                                                                *)
LEMMA JobSettlesKeeps ==
  ASSUME MarksInv, NEW c, JobSettles(c), UNCHANGED sending
  PROVE  MarksInv'
<1>1. /\ seq' = seq + 1
      /\ UNCHANGED <<lastSent, lastDirect>>
      /\ \/ runStart' = runStart
         \/ runStart' = [runStart EXCEPT ![Parent[c]] = seq + 1]
  BY DEF JobSettles
<1>2. runStart' \in [Agents -> Nat]
  BY <1>1 DEF MarksInv, MarksType
<1> QED
  BY <1>1, <1>2, MarksKept DEF MarksInv, MarksType

(* A send that starts takes the next number, which nothing carries yet.    *)
LEMMA SendKeeps ==
  ASSUME MarksInv, NEW a \in Agents, NEW b \in Agents,
         NEW progress \in BOOLEAN, Send(a, b, progress)
  PROVE  MarksInv'
<1> DEFINE m == [id |-> seq + 1, to |-> b, progress |-> progress]
<1>1. /\ a # b /\ seq' = seq + 1
      /\ sending' = [sending EXCEPT ![a] = m]
      /\ UNCHANGED <<lastSent, lastDirect, runStart>>
  BY DEF Send, marks
<1>2. /\ DOMAIN sending' = Agents /\ sending'[a] = m
      /\ \A x \in Agents \ {a} : sending'[x] = sending[x]
  BY <1>1 DEF MarksInv, SendsType
<1>3. m \in Sends /\ m.id = seq + 1 /\ m.to = b
  BY DEF MarksInv, MarksType, Sends
<1> HIDE DEF m
<1>4. MarksType' /\ MarksKnown' /\ MarksApart' /\ AskedIsSent' /\ NotSelf'
  BY <1>1 DEF MarksInv, MarksType, MarksKnown, MarksApart, AskedIsSent, NotSelf
<1>5. SendsType'
  BY <1>1, <1>2, <1>3 DEF MarksInv, MarksType, SendsType, Sends
<1>6. SendsApart'
  BY <1>1, <1>2, <1>3 DEF MarksInv, MarksType, SendsType, SendsApart, Sends
<1>7. SendsUnmarked'
  BY <1>1, <1>2, <1>3 DEF MarksInv, MarksType, SendsUnmarked, MarksKnown
<1> QED
  BY <1>4, <1>5, <1>6, <1>7 DEF MarksInv

(* A delivered question moves its number from the send to the marks.       *)
LEMMA DeliverKeeps ==
  ASSUME MarksInv, NEW a \in Agents, Deliver(a)
  PROVE  MarksInv'
<1> DEFINE m == sending[a]
           p0 == <<a, m.to>>
<1>1. /\ m # None /\ seq' = seq
      /\ sending' = [sending EXCEPT ![a] = None]
      /\ HandOver(a, m.to, ~m.progress)
  BY DEF Deliver
<1>2. m \in Sends /\ m.id <= seq /\ m.to # a /\ p0 \in Pairs
  BY <1>1 DEF MarksInv, SendsType, Sends, Pairs
<1>3. m.id \in Nat /\ m.id # 0
  BY <1>2 DEF Sends
<1>4. runStart' \in [Agents -> Nat]
  BY <1>1, HandOverRuns DEF MarksInv
<1>5. /\ DOMAIN sending' = Agents /\ sending'[a] = None
      /\ \A x \in Agents \ {a} : sending'[x] = sending[x]
  BY <1>1 DEF MarksInv, SendsType
<1>6. SendsType' /\ SendsApart'
  BY <1>1, <1>5 DEF MarksInv, SendsType, SendsApart
<1>7. CASE m.progress
  <2>1. UNCHANGED <<lastSent, lastDirect>>
    BY <1>7 DEF Deliver
  <2>2. MarksType' /\ MarksKnown' /\ MarksApart' /\ AskedIsSent' /\ NotSelf'
    BY <1>1, <1>4, <2>1
    DEF MarksInv, MarksType, MarksKnown, MarksApart, AskedIsSent, NotSelf
  <2>3. SendsUnmarked'
    BY <1>5, <2>1 DEF MarksInv, SendsUnmarked
  <2> QED
    BY <1>6, <2>2, <2>3 DEF MarksInv
<1>8. CASE ~m.progress
  <2>1. /\ lastSent' = record(lastSent, a, m.to, m.id)
        /\ lastDirect' = record(lastDirect, a, m.to, m.id)
    BY <1>8 DEF Deliver
  <2>2. /\ lastSent' \in [Pairs -> Nat]
        /\ \A p \in Pairs : lastSent'[p] =
              IF p = p0 /\ lastSent[p] < m.id THEN m.id ELSE lastSent[p]
    BY <1>3, <2>1, Recorded DEF MarksInv, MarksType
  <2>3. /\ lastDirect' \in [Pairs -> Nat]
        /\ \A p \in Pairs : lastDirect'[p] =
              IF p = p0 /\ lastDirect[p] < m.id THEN m.id ELSE lastDirect[p]
    BY <1>3, <2>1, Recorded DEF MarksInv, MarksType
  <2>4. \A p \in Pairs : /\ lastDirect[p] \in Nat /\ lastSent[p] \in Nat
                        /\ lastDirect[p] <= lastSent[p]
                        /\ lastDirect[p] <= seq /\ lastDirect[p] # m.id
    BY <1>1 DEF MarksInv, MarksType, AskedIsSent, MarksKnown, SendsUnmarked
  <2> HIDE DEF m, p0
  <2>5. MarksType'
    BY <1>1, <1>4, <2>2, <2>3 DEF MarksInv, MarksType
  <2>6. MarksKnown'
    BY <1>1, <1>2, <1>3, <2>3, <2>4 DEF MarksInv, MarksType, MarksKnown
  <2>7. MarksApart'
    BY <1>3, <2>3, <2>4 DEF MarksInv, MarksApart
  <2>8. AskedIsSent'
    BY <1>3, <2>2, <2>3, <2>4 DEF AskedIsSent
  <2>9. NotSelf'
    <3> SUFFICES ASSUME NEW x \in Agents PROVE lastDirect'[<<x, x>>] = 0
      BY DEF NotSelf
    <3>1. <<x, x>> # p0 /\ <<x, x>> \in Pairs
      BY <1>2 DEF Pairs, p0
    <3> QED
      BY <3>1, <2>3 DEF MarksInv, NotSelf
  <2>10. SendsUnmarked'
    <3> SUFFICES ASSUME NEW x \in Agents, NEW p \in Pairs, sending'[x] # None
                 PROVE  lastDirect'[p] # sending'[x].id
      BY DEF SendsUnmarked
    <3>1. x # a /\ sending'[x] = sending[x]
      BY <1>5
    <3>2. sending[x].id # m.id
      BY <1>1, <3>1 DEF MarksInv, SendsApart, m
    <3>3. lastDirect[p] # sending[x].id
      BY <3>1 DEF MarksInv, SendsUnmarked
    <3> QED
      BY <2>3, <3>1, <3>2, <3>3
  <2> QED
    BY <1>6, <2>5, <2>6, <2>7, <2>8, <2>9, <2>10 DEF MarksInv
<1> QED
  BY <1>7, <1>8

(* A relay is a message but no question.                                   *)
LEMMA RelayKeeps ==
  ASSUME MarksInv, NEW a \in Agents, NEW d \in due[a], Relay(a, d)
  PROVE  MarksInv'
<1>1. /\ seq' = seq + 1 /\ UNCHANGED <<lastDirect, sending>>
      /\ HandOver(a, d.to, FALSE)
      /\ lastSent' = record(lastSent, a, d.to, seq + 1)
  BY DEF Relay
<1>2. seq \in Nat /\ seq + 1 \in Nat /\ lastSent \in [Pairs -> Nat]
  BY DEF MarksInv, MarksType
<1>3. /\ lastSent' \in [Pairs -> Nat]
      /\ \A p \in Pairs : lastSent'[p] = IF p = <<a, d.to>> /\ lastSent[p] < seq + 1
                                        THEN seq + 1 ELSE lastSent[p]
  BY <1>1, <1>2, Recorded
<1>4. \A p \in Pairs : lastSent[p] <= lastSent'[p]
  BY <1>2, <1>3
<1>5. runStart' \in [Agents -> Nat]
  BY <1>1, HandOverRuns DEF MarksInv
<1> QED
  BY <1>1, <1>2, <1>3, <1>4, <1>5, MarksKept

-----------------------------------------------------------------------------
(* Every other step leaves the marks alone, or starts a run.               *)
LEMMA QuietKeeps ==
  ASSUME MarksInv, UNCHANGED <<seq, lastSent, lastDirect, sending>>,
         runStart' \in [Agents -> Nat]
  PROVE  MarksInv'
BY MarksKept DEF MarksInv, MarksType

LEMMA RunKeeps ==
  ASSUME MarksInv, UNCHANGED <<seq, lastSent, lastDirect, sending>>,
         NEW x, runStart' = runStart \/ runStart' = [runStart EXCEPT ![x] = seq]
  PROVE  MarksInv'
<1>1. runStart' \in [Agents -> Nat]
  BY DEF MarksInv, MarksType
<1> QED
  BY <1>1, QuietKeeps

LEMMA StepKeeps ==
  ASSUME MarksInv, NEW a \in Agents, Step(a)
  PROVE  MarksInv'
<1>1. ASSUME NEW c \in Agents, SpawnJob(a, c) PROVE MarksInv'
  BY <1>1, RunKeeps DEF SpawnJob, Spawned, marks
<1>2. ASSUME NEW c \in Agents, SpawnInline(a, c) PROVE MarksInv'
  BY <1>2, RunKeeps DEF SpawnInline, Spawned, marks
<1>3. ASSUME NEW b \in Agents, NEW progress \in BOOLEAN, Send(a, b, progress)
      PROVE  MarksInv'
  BY <1>3, SendKeeps
<1>4. CASE Deliver(a)
  BY <1>4, DeliverKeeps
<1>5. CASE Read(a)
  BY <1>5, RunKeeps DEF Read, marks
<1>6. CASE WaitJobs(a)
  BY <1>6, RunKeeps DEF WaitJobs, marks
<1>7. CASE WaitReply(a)
  BY <1>7, RunKeeps DEF WaitReply, marks
<1>8. CASE WaitCut(a)
  BY <1>8, RunKeeps DEF WaitCut, marks
<1>9. ASSUME NEW b \in Agents, EndHeard(a, b) PROVE MarksInv'
  BY <1>9, RunKeeps DEF EndHeard, marks
<1>10. CASE StatusIdle(a)
  BY <1>10, RunKeeps DEF StatusIdle, marks
<1>11. CASE TurnOver(a)
  <2>1. /\ UNCHANGED <<seq, marks, sending>>
        /\ runStart' = runStart \/ runStart' = [runStart EXCEPT ![a] = seq]
    BY <1>11 DEF TurnOver
  <2> QED
    BY <2>1, RunKeeps DEF marks
<1>12. CASE DrivenSettles(a)
  BY <1>12, RunKeeps DEF DrivenSettles, marks
<1>13. CASE DrivenOver(a)
  <2>1. CASE driven[a] = "async"
    <3>1. JobSettles(a) /\ UNCHANGED sending
      BY <1>13, <2>1 DEF DrivenOver
    <3> QED
      BY <3>1, JobSettlesKeeps
  <2>2. CASE driven[a] # "async"
    <3>1. UNCHANGED <<seq, marks, sending, runStart>>
      BY <1>13, <2>2 DEF DrivenOver
    <3> QED
      BY <3>1, RunKeeps DEF marks
  <2> QED
    BY <2>1, <2>2
<1>14. CASE CloseObservation(a)
  <2>1. CASE obs[a].owned
    <3>1. JobSettles(a) /\ UNCHANGED sending
      BY <1>14, <2>1 DEF CloseObservation
    <3> QED
      BY <3>1, JobSettlesKeeps
  <2>2. CASE ~obs[a].owned
    <3>1. UNCHANGED <<seq, marks, sending, runStart>>
      BY <1>14, <2>2 DEF CloseObservation
    <3> QED
      BY <3>1, RunKeeps DEF marks
  <2> QED
    BY <2>1, <2>2
<1>15. ASSUME NEW d \in due[a], Relayed(a, d) PROVE MarksInv'
  BY <1>15, RunKeeps DEF Relayed, marks
<1>16. ASSUME NEW d \in due[a], Relay(a, d) PROVE MarksInv'
  BY <1>16, RelayKeeps
<1>17. CASE Park(a)
  BY <1>17, RunKeeps DEF Park, marks
<1> QED
  BY <1>1, <1>2, <1>3, <1>4, <1>5, <1>6, <1>7, <1>8, <1>9, <1>10, <1>11,
     <1>12, <1>13, <1>14, <1>15, <1>16, <1>17 DEF Step

LEMMA NextKeeps == MarksInv /\ [Next]_vars => MarksInv'
<1> SUFFICES ASSUME MarksInv, [Next]_vars PROVE MarksInv'
  OBVIOUS
<1>1. ASSUME NEW w \in Agents, checkReplies(w) PROVE MarksInv'
  BY <1>1, RunKeeps DEF checkReplies, marks
<1>2. CASE UNCHANGED vars
  BY <1>2, RunKeeps DEF vars, marks
<1> QED
  BY <1>1, <1>2, StepKeeps DEF Next

(* The invariant is enough: a pair of waiting agents would have two        *)
(* questions of the same number.                                           *)
LEMMA MarksEnough == MarksInv => NoMutualWait
<1> SUFFICES ASSUME MarksInv, NEW a \in Agents, NEW b \in Agents,
                    b \in From(a), a \in From(b)
             PROVE  FALSE
  BY DEF NoMutualWait
<1>1. <<a, b>> \in Pairs /\ <<b, a>> \in Pairs
  BY DEF Pairs
<1>2. /\ lastDirect[<<a, b>>] > runStart[a] /\ ~Answered(a, b)
      /\ lastDirect[<<b, a>>] > runStart[b] /\ ~Answered(b, a)
  BY DEF From, unansweredSends
<1>3. /\ ~(lastSent[<<b, a>>] > lastDirect[<<a, b>>])
      /\ ~(lastSent[<<a, b>>] > lastDirect[<<b, a>>])
  BY <1>2 DEF Answered
<1>4. /\ lastDirect[<<a, b>>] \in Nat /\ lastDirect[<<b, a>>] \in Nat
      /\ lastSent[<<a, b>>] \in Nat /\ lastSent[<<b, a>>] \in Nat
      /\ lastDirect[<<a, b>>] <= lastSent[<<a, b>>]
      /\ lastDirect[<<b, a>>] <= lastSent[<<b, a>>]
      /\ runStart[a] \in Nat /\ runStart[b] \in Nat
  BY <1>1 DEF MarksInv, MarksType, AskedIsSent
<1>5. lastDirect[<<a, b>>] = lastDirect[<<b, a>>] /\ lastDirect[<<a, b>>] # 0
  BY <1>2, <1>3, <1>4
<1>6. CASE a = b
  BY <1>5, <1>6 DEF MarksInv, NotSelf
<1>7. CASE a # b
  BY <1>1, <1>5, <1>7 DEF MarksInv, MarksApart
<1> QED
  BY <1>6, <1>7

(* Two agents never wait for each other's reply.                           *)
THEOREM NeverMutual == Spec => []NoMutualWait
<1>1. Init => MarksInv
  BY MarksInit
<1>2. MarksInv /\ [Next]_vars => MarksInv'
  BY NextKeeps
<1>3. MarksInv => NoMutualWait
  BY MarksEnough
<1> QED
  BY <1>1, <1>2, <1>3, PTL DEF Spec

-----------------------------------------------------------------------------
(* Types of the sessions and of the waits.                                   *)
Dues == [to : Agents, since : Nat]

Kinds ==
  /\ mode \in [Agents -> Modes]
  /\ driven \in [Agents -> {"no", "async", "inline"}]
  /\ queue \in [Agents -> SUBSET Letters]
  /\ hold \in [Agents -> SUBSET Holds]
  /\ turn \in [Agents -> Turns \cup {None}]
  /\ obs \in [Agents -> Turns \cup {None}]
  /\ due \in [Agents -> SUBSET Dues]
  /\ subs \in [Agents -> SUBSET Agents]
  /\ ended \in [Agents -> SUBSET Agents]
  /\ check \in SUBSET Agents
  /\ sent \in 0..MaxSends

(* The top-level agent is no job and has no relayed output.                  *)
RootApart == driven[Root] = "no" /\ turn[Root] = None /\ obs[Root] = None

(* Only who blocks holds, only who waits for a reply listens, and a send     *)
(* runs to its delivery.                                                     *)
Placed ==
  \A a \in Agents :
     /\ hold[a] # {} <=> mode[a] \in {"jobs", "inline"}
     /\ subs[a] # {} \/ ended[a] # {} \/ a \in check => mode[a] = "reply"
     /\ sending[a] # None => mode[a] = "run"

(* No mark is ahead of the sends.                                            *)
Bounded ==
  /\ lastSent \in [Pairs -> 0..seq] /\ lastDirect \in [Pairs -> 0..seq]
  /\ lastProgress \in [Pairs -> 0..seq] /\ lastJobReply \in [Pairs -> 0..seq]
  /\ runStart \in [Agents -> 0..seq]

TypesInv == MarksInv /\ Kinds /\ RootApart /\ Placed /\ Bounded

-----------------------------------------------------------------------------
LEMMA TypesInit == Init => TypesInv
<1> SUFFICES ASSUME Init PROVE TypesInv
  OBVIOUS
<1>1. MarksInv
  BY MarksInit
<1>2. Kinds
  BY TreeAssumption, SendsAssumption DEF Init, Kinds, Modes
<1>3. RootApart
  BY TreeAssumption DEF Init, RootApart
<1>4. Placed
  BY DEF Init, Placed
<1>5. Bounded
  BY DEF Init, Bounded
<1> QED
  BY <1>1, <1>2, <1>3, <1>4, <1>5 DEF TypesInv

(* A mark is recorded with the number of a send that has started.            *)
LEMMA BoundedKept ==
  ASSUME Bounded, seq \in Nat, seq' \in Nat, seq <= seq',
         NEW from, NEW to, NEW id \in 0..seq',
         lastSent' \in {lastSent, record(lastSent, from, to, id)},
         lastDirect' \in {lastDirect, record(lastDirect, from, to, id)},
         lastProgress' \in {lastProgress, record(lastProgress, from, to, id)},
         lastJobReply' \in {lastJobReply, record(lastJobReply, from, to, id)},
         NEW x, NEW n \in 0..seq',
         runStart' = runStart \/ runStart' = [runStart EXCEPT ![x] = n]
  PROVE  Bounded'
<1>1. \A table \in [Pairs -> 0..seq] :
         table \in [Pairs -> 0..seq'] /\ record(table, from, to, id) \in [Pairs -> 0..seq']
  <2> SUFFICES ASSUME NEW table \in [Pairs -> 0..seq]
               PROVE  table \in [Pairs -> 0..seq'] /\ record(table, from, to, id) \in [Pairs -> 0..seq']
    OBVIOUS
  <2>1. table \in [Pairs -> 0..seq']
    OBVIOUS
  <2> QED
    BY <2>1 DEF record
<1>2. runStart' \in [Agents -> 0..seq']
  BY DEF Bounded
<1> QED
  BY <1>1, <1>2 DEF Bounded

(* A step without marks keeps them.                                          *)
LEMMA BoundedStill ==
  ASSUME Bounded, seq \in Nat, UNCHANGED <<seq, marks>>,
         NEW x, runStart' = runStart \/ runStart' = [runStart EXCEPT ![x] = seq]
  PROVE  Bounded'
BY DEF Bounded, marks

(* A settled job takes a number.                                             *)
LEMMA BoundedSettles ==
  ASSUME Bounded, seq \in Nat, NEW c, JobSettles(c)
  PROVE  Bounded'
<1>1. /\ seq' = seq + 1 /\ seq' \in Nat /\ seq <= seq' /\ seq + 1 \in 0..seq'
      /\ UNCHANGED <<lastSent, lastDirect, lastProgress>>
      /\ lastJobReply' = record(lastJobReply, c, Parent[c], seq + 1)
      /\ \/ runStart' = runStart
         \/ runStart' = [runStart EXCEPT ![Parent[c]] = seq + 1]
  BY DEF JobSettles
<1> QED
  BY <1>1, BoundedKept

(* The turn that messages wake is one of those turns, and the root has none. *)
LEMMA WakeTurnTypes ==
  ASSUME NEW b \in Agents, NEW letters \in SUBSET Letters, seq \in Nat
  PROVE  /\ WakeTurn(b, letters) \in Turns \cup {None}
         /\ b = Root => WakeTurn(b, letters) = None
<1>1. Wakers(letters) \in SUBSET Agents
  BY DEF Wakers, Letters
<1>2. (Parent[b] \in Wakers(letters)) \in BOOLEAN
  OBVIOUS
<1> QED
  BY <1>1, <1>2 DEF WakeTurn, NewTurn, Turns, Monitored

(* A message that is handed over: to a wait that ends, a turn, a queue, or a *)
(* turn of its own.                                                          *)
LEMMA HandOverTypes ==
  ASSUME TypesInv, NEW a \in Agents, NEW b \in Agents, NEW asks \in BOOLEAN,
         HandOver(a, b, asks), UNCHANGED <<driven, obs, sent>>,
         due' \in [Agents -> SUBSET Dues],
         \A x \in Agents : sending'[x] # None => sending[x] # None
  PROVE  Kinds' /\ RootApart' /\ Placed'
<1>1. Kinds /\ RootApart /\ Placed /\ seq \in Nat
  BY DEF TypesInv, MarksInv, MarksType
<1>2. CASE ToWaiter(b)
  <2>1. Kinds'
    BY <1>1, <1>2 DEF ToWaiter, WaitOver, Quiet, Changed, Kinds, Modes
  <2>2. RootApart'
    BY <1>1, <1>2 DEF ToWaiter, RootApart
  <2>3. Placed'
    BY <1>1, <1>2 DEF ToWaiter, WaitOver, Quiet, Changed, Kinds, Placed, Blocks
  <2> QED
    BY <2>1, <2>2, <2>3
<1>3. CASE ToSteer(a, b)
  <2>1. turn' \in [Agents -> Turns \cup {None}] /\ (turn[Root] = None => turn'[Root] = None)
    <3>1. turn[b] \in Turns => [turn[b] EXCEPT !.owned = TRUE] \in Turns
      BY DEF Turns
    <3> QED
      BY <1>1, <1>3, <3>1 DEF ToSteer, Kinds
  <2>2. Kinds' /\ RootApart'
    BY <1>1, <1>3, <2>1 DEF ToSteer, Quiet, Kinds, RootApart
  <2>3. Placed'
    BY <1>1, <1>3 DEF ToSteer, Quiet, Placed
  <2> QED
    BY <2>2, <2>3
<1>4. CASE ToQueue(a, b, asks)
  <2>1. Kinds' /\ RootApart'
    BY <1>1, <1>4 DEF ToQueue, Quiet, Kinds, Letters, RootApart
  <2>2. Placed'
    BY <1>1, <1>4 DEF ToQueue, Quiet, Placed
  <2> QED
    BY <2>1, <2>2
<1>5. CASE ToWake(a, b, asks)
  <2> DEFINE new == WakeTurn(b, {[from |-> a, asks |-> asks]})
  <2>1. new \in Turns \cup {None} /\ (b = Root => new = None)
    <3>1. {[from |-> a, asks |-> asks]} \in SUBSET Letters
      BY DEF Letters
    <3> QED
      BY <1>1, <3>1, WakeTurnTypes
  <2>2. turn' = [turn EXCEPT ![b] = new]
    BY <1>5 DEF ToWake
  <2> HIDE DEF new
  <2>3. turn' \in [Agents -> Turns \cup {None}] /\ turn'[Root] = None
    BY <1>1, <2>1, <2>2, TreeAssumption DEF Kinds, RootApart
  <2>4. Kinds' /\ RootApart'
    BY <1>1, <1>5, <2>3 DEF ToWake, Changed, Kinds, Modes, RootApart
  <2>5. Placed'
    BY <1>1, <1>5 DEF ToWake, Changed, Kinds, Placed
  <2> QED
    BY <2>4, <2>5
<1> QED
  BY <1>2, <1>3, <1>4, <1>5 DEF HandOver

LEMMA DeliverTypes ==
  ASSUME TypesInv, NEW a \in Agents, Deliver(a), check = {}
  PROVE  Kinds' /\ RootApart' /\ Placed' /\ Bounded'
<1>1. /\ Kinds /\ Placed /\ Bounded /\ seq \in Nat
      /\ DOMAIN sending = Agents
  BY DEF TypesInv, MarksInv, MarksType, SendsType
<1>2. PICK to \in Agents, id \in Nat : to = sending[a].to /\ id = sending[a].id /\ id <= seq
  BY DEF Deliver, TypesInv, MarksInv, SendsType, Sends
<1>3. PICK asks \in BOOLEAN :
      /\ HandOver(a, to, asks)
      /\ UNCHANGED <<driven, obs, sent, due, seq, lastJobReply>>
      /\ sending' = [sending EXCEPT ![a] = None]
      /\ lastSent' \in {lastSent, record(lastSent, a, to, id)}
      /\ lastDirect' \in {lastDirect, record(lastDirect, a, to, id)}
      /\ lastProgress' \in {lastProgress, record(lastProgress, a, to, id)}
  BY <1>2 DEF Deliver
<1>4. Kinds' /\ RootApart' /\ Placed'
  <2>1. due' \in [Agents -> SUBSET Dues]
    BY <1>1, <1>3 DEF Kinds
  <2>2. \A x \in Agents : sending'[x] # None => sending[x] # None
    BY <1>1, <1>3
  <2> QED
    BY <1>3, <2>1, <2>2, HandOverTypes
<1>5. \E x, n : n \in 0..seq' /\ (runStart' = runStart \/ runStart' = [runStart EXCEPT ![x] = n])
  <2>1. runStart' = runStart \/ runStart' = [runStart EXCEPT ![to] = seq]
    BY <1>3 DEF HandOver, ToWaiter, ToSteer, ToQueue, ToWake
  <2>2. seq \in 0..seq'
    BY <1>1, <1>3
  <2> QED
    BY <2>1, <2>2
<1>6. id \in 0..seq' /\ seq' \in Nat /\ seq <= seq' /\ lastJobReply' \in {lastJobReply, record(lastJobReply, a, to, id)}
  BY <1>1, <1>2, <1>3
<1>7. Bounded'
  BY <1>1, <1>3, <1>5, <1>6, BoundedKept
<1> QED
  BY <1>4, <1>7

LEMMA RelayTypes ==
  ASSUME TypesInv, NEW a \in Agents, NEW d \in due[a], Relay(a, d) \/ Relayed(a, d), check = {}
  PROVE  Kinds' /\ RootApart' /\ Placed' /\ Bounded'
<1>1. /\ Kinds /\ RootApart /\ Placed /\ Bounded /\ seq \in Nat
  BY DEF TypesInv, MarksInv, MarksType
<1>2. due' \in [Agents -> SUBSET Dues]
  <2>1. due' = [due EXCEPT ![a] = @ \ {d}]
    BY DEF Relay, Relayed
  <2> QED
    BY <1>1, <2>1 DEF Kinds
<1>3. CASE Relayed(a, d)
  <2>1. Bounded'
    BY <1>1, <1>3, BoundedStill DEF Relayed
  <2>2. Kinds' /\ RootApart' /\ Placed'
    BY <1>1, <1>2, <1>3 DEF Relayed, Quiet, Kinds, RootApart, Placed
  <2> QED
    BY <2>1, <2>2
<1>4. CASE Relay(a, d)
  <2>1. PICK to \in Agents : to = d.to
    BY <1>1 DEF Kinds, Dues
  <2>2. /\ HandOver(a, to, FALSE) /\ seq' = seq + 1
        /\ lastSent' = record(lastSent, a, to, seq + 1)
        /\ UNCHANGED <<driven, sending, lastDirect, lastProgress, lastJobReply, obs, sent>>
    BY <1>4, <2>1 DEF Relay
  <2>3. Kinds' /\ RootApart' /\ Placed'
    BY <1>2, <2>2, HandOverTypes
  <2>4. runStart' = runStart \/ runStart' = [runStart EXCEPT ![to] = seq]
    BY <2>2 DEF HandOver, ToWaiter, ToSteer, ToQueue, ToWake
  <2>5. seq + 1 \in 0..seq' /\ seq \in 0..seq' /\ seq' \in Nat /\ seq <= seq'
    BY <1>1, <2>2
  <2>6. Bounded'
    BY <1>1, <2>2, <2>4, <2>5, BoundedKept
  <2> QED
    BY <2>3, <2>6
<1> QED
  BY <1>3, <1>4

-----------------------------------------------------------------------------
(* The steps of the sessions and of the waits, one lemma for those that move *)
(* the same parts.  The invariant on the marks is kept by NextKeeps.         *)
LEMMA SpawnTypes ==
  ASSUME TypesInv, check = {}, NEW p \in Agents, NEW c \in Agents,
         SpawnJob(p, c) \/ SpawnInline(p, c)
  PROVE  Kinds' /\ RootApart' /\ Placed' /\ Bounded'
<1>1. Kinds /\ RootApart /\ Placed /\ Bounded /\ seq \in Nat
  BY DEF TypesInv, MarksInv, MarksType
<1>2. c # Root /\ c # p /\ mode[c] = "new" /\ mode[p] = "run" /\ sending[p] = None
  BY TreeAssumption DEF SpawnJob, SpawnInline, Spawned, Free
<1>3. /\ UNCHANGED <<sending, queue, seq, marks, turns, subs, ended, sent>>
      /\ runStart' = [runStart EXCEPT ![c] = seq]
      /\ check' = {w \in Agents : mode'[w] = "reply"}
      /\ driven' \in {[driven EXCEPT ![c] = "async"], [driven EXCEPT ![c] = "inline"]}
  BY DEF SpawnJob, SpawnInline, Spawned, Changed
<1>4. Bounded'
  BY <1>1, <1>3, BoundedStill
<1>5. RootApart'
  BY <1>1, <1>2, <1>3, TreeAssumption DEF RootApart, Kinds, turns
<1>6. CASE SpawnJob(p, c)
  <2>1. mode' = [mode EXCEPT ![c] = "run"] /\ hold' = hold
    BY <1>6 DEF SpawnJob
  <2>2. Kinds'
    BY <1>1, <1>3, <2>1 DEF Kinds, Modes, turns
  <2>3. Placed'
    BY <1>1, <1>2, <1>3, <2>1 DEF Placed, Kinds
  <2> QED
    BY <1>4, <1>5, <2>2, <2>3
<1>7. CASE SpawnInline(p, c)
  <2> DEFINE h == [awaited |-> {c}, since |-> seq, interruptible |-> FALSE]
  <2>1. /\ mode' = [mode EXCEPT ![c] = "run", ![p] = "inline"]
        /\ hold' = [hold EXCEPT ![p] = {h}]
    BY <1>7 DEF SpawnInline
  <2>2. h \in Holds
    <3>1. {c} \in (SUBSET Agents) \ {{}}
      OBVIOUS
    <3> QED
      BY <1>1, <3>1 DEF Holds
  <2> HIDE DEF h
  <2>3. Kinds'
    BY <1>1, <1>3, <2>1, <2>2 DEF Kinds, Modes, turns
  <2>4. Placed'
    <3>1. {h} # {}
      OBVIOUS
    <3> QED
      BY <1>1, <1>2, <1>3, <2>1, <3>1 DEF Placed, Kinds
  <2> QED
    BY <1>4, <1>5, <2>3, <2>4
<1> QED
  BY <1>6, <1>7

LEMMA TalkTypes ==
  ASSUME TypesInv, check = {}, NEW a \in Agents,
         \/ \E b \in Agents, progress \in BOOLEAN : Send(a, b, progress)
         \/ Read(a) \/ StatusIdle(a)
  PROVE  Kinds' /\ RootApart' /\ Placed' /\ Bounded'
<1>1. Kinds /\ RootApart /\ Placed /\ Bounded /\ seq \in Nat /\ DOMAIN sending = Agents
  BY DEF TypesInv, MarksInv, MarksType, SendsType
<1>2. ASSUME NEW b \in Agents, NEW progress \in BOOLEAN, Send(a, b, progress)
      PROVE  Kinds' /\ RootApart' /\ Placed' /\ Bounded'
  <2>1. Kinds' /\ RootApart'
    BY <1>1, <1>2, SendsAssumption DEF Send, Quiet, turns, Kinds, RootApart
  <2>2. Placed'
    BY <1>1, <1>2 DEF Send, Quiet, Free, Placed
  <2>3. Bounded'
    BY <1>1, <1>2 DEF Send, marks, Bounded
  <2> QED
    BY <2>1, <2>2, <2>3
<1>3. CASE Read(a)
  <2>1. Kinds' /\ RootApart'
    BY <1>1, <1>3 DEF Read, Quiet, turns, Kinds, RootApart
  <2>2. Placed' /\ Bounded'
    BY <1>1, <1>3, BoundedStill DEF Read, Quiet, Placed
  <2> QED
    BY <2>1, <2>2
<1>4. CASE StatusIdle(a)
  <2>1. Kinds' /\ RootApart'
    BY <1>1, <1>4 DEF StatusIdle, Changed, turns, Kinds, Modes, RootApart
  <2>2. Placed'
    BY <1>1, <1>4 DEF StatusIdle, Changed, Free, Kinds, Placed
  <2>3. Bounded'
    BY <1>1, <1>4, BoundedStill DEF StatusIdle
  <2> QED
    BY <2>1, <2>2, <2>3
<1> QED
  BY <1>2, <1>3, <1>4

LEMMA WaitTypes ==
  ASSUME TypesInv, NEW a \in Agents, check = {},
         \/ WaitJobs(a) \/ WaitReply(a) \/ WaitCut(a)
         \/ \E b \in Agents : EndHeard(a, b)
  PROVE  Kinds' /\ RootApart' /\ Placed' /\ Bounded'
<1>1. Kinds /\ RootApart /\ Placed /\ Bounded /\ seq \in Nat
  BY DEF TypesInv, MarksInv, MarksType
<1>2. Bounded' /\ RootApart'
  BY <1>1, BoundedStill DEF WaitJobs, WaitReply, WaitCut, EndHeard, RootApart, turns
<1>3. CASE WaitJobs(a)
  <2> DEFINE h == [awaited |-> OwnJobs(a), since |-> seq, interruptible |-> TRUE]
  <2>1. h \in Holds
    <3>1. OwnJobs(a) \in (SUBSET Agents) \ {{}}
      BY <1>3 DEF WaitJobs, OwnJobs
    <3> QED
      BY <1>1, <3>1 DEF Holds
  <2>2. hold' = [hold EXCEPT ![a] = {h}]
    BY <1>3 DEF WaitJobs
  <2> HIDE DEF h
  <2>3. Kinds'
    BY <1>1, <1>3, <2>1, <2>2 DEF WaitJobs, Changed, turns, Kinds, Modes
  <2>4. Placed'
    <3>1. {h} # {}
      OBVIOUS
    <3>2. /\ mode' = [mode EXCEPT ![a] = "jobs"] /\ UNCHANGED <<sending, subs, ended>>
          /\ check' = {w \in Agents : mode'[w] = "reply"}
          /\ mode[a] = "run" /\ sending[a] = None
      BY <1>3 DEF WaitJobs, Changed, Free
    <3> QED
      BY <1>1, <2>2, <3>1, <3>2 DEF Kinds, Placed
  <2> QED
    BY <1>2, <2>3, <2>4
<1>4. CASE WaitReply(a)
  <2>1. From(a) \in SUBSET Agents
    BY DEF From, unansweredSends
  <2>2. Kinds'
    BY <1>1, <1>4, <2>1 DEF WaitReply, Quiet, turns, Kinds, Modes
  <2>3. Placed'
    BY <1>1, <1>4, <2>1 DEF WaitReply, Quiet, Free, Kinds, Placed
  <2> QED
    BY <1>2, <2>2, <2>3
<1>5. CASE WaitCut(a)
  <2>1. Kinds'
    BY <1>1, <1>5 DEF WaitCut, WaitOver, Quiet, Changed, turns, Kinds, Modes
  <2>2. Placed'
    BY <1>1, <1>5 DEF WaitCut, WaitOver, Quiet, Changed, Kinds, Placed, Blocks
  <2> QED
    BY <1>2, <2>1, <2>2
<1>6. ASSUME NEW b \in Agents, EndHeard(a, b) PROVE Kinds' /\ Placed'
  <2>1. Kinds'
    BY <1>1, <1>6 DEF EndHeard, turns, Kinds
  <2>2. Placed'
    BY <1>1, <1>6 DEF EndHeard, Kinds, Placed
  <2> QED
    BY <2>1, <2>2
<1> QED
  BY <1>2, <1>3, <1>4, <1>5, <1>6

LEMMA EndTypes ==
  ASSUME TypesInv, check = {}, NEW a \in Agents, AgentEnds(a)
  PROVE  /\ ended' \in [Agents -> SUBSET Agents]
         /\ \A w \in Agents : ended'[w] # {} => subs[w] # {} \/ ended[w] # {}
BY DEF TypesInv, Kinds, AgentEnds

LEMMA TurnTypes ==
  ASSUME TypesInv, check = {}, NEW a \in Agents,
         TurnOver(a) \/ DrivenSettles(a) \/ Park(a)
  PROVE  Kinds' /\ RootApart' /\ Placed' /\ Bounded'
<1>1. Kinds /\ RootApart /\ Placed /\ Bounded /\ seq \in Nat
  BY DEF TypesInv, MarksInv, MarksType
<1>2. CASE TurnOver(a)
  <2>1. /\ mode[a] = "closing" /\ AgentEnds(a)
        /\ obs' = [obs EXCEPT ![a] = IF turn[a] = None THEN @ ELSE turn[a]]
        /\ UNCHANGED <<driven, sending, seq, marks, hold, due, subs, sent>>
    BY <1>2 DEF TurnOver
  <2>2. /\ \/ check' = {} \/ check' = {w \in Agents : mode'[w] = "reply"}
        /\ \/ mode' = [mode EXCEPT ![a] = "idle"]
           \/ mode' = [mode EXCEPT ![a] = "run"]
        /\ \/ queue' = queue \/ queue' = [queue EXCEPT ![a] = {}]
        /\ \/ runStart' = runStart \/ runStart' = [runStart EXCEPT ![a] = seq]
    BY <1>2 DEF TurnOver, Quiet, Changed
  <2>3. \/ turn' = [turn EXCEPT ![a] = None]
        \/ a # Root /\ \E t \in Turns : turn' = [turn EXCEPT ![a] = t]
    <3> DEFINE t == WakeTurn(a, queue[a])
    <3>1. t \in Turns \cup {None} /\ (a = Root => t = None)
      BY <1>1, WakeTurnTypes DEF Kinds
    <3>2. turn' = [turn EXCEPT ![a] = None] \/ turn' = [turn EXCEPT ![a] = t]
      BY <1>2 DEF TurnOver
    <3> HIDE DEF t
    <3> QED
      BY <3>1, <3>2
  <2>4. Bounded'
    BY <1>1, <2>1, <2>2, BoundedStill
  <2>5. Kinds'
    BY <1>1, <2>1, <2>2, <2>3, EndTypes DEF Kinds, Modes
  <2>6. RootApart'
    BY <1>1, <2>1, <2>3, TreeAssumption DEF RootApart, Kinds
  <2>7. Placed'
    BY <1>1, <2>1, <2>2, EndTypes DEF Placed, Kinds
  <2> QED
    BY <2>4, <2>5, <2>6, <2>7
<1>3. CASE DrivenSettles(a)
  <2>1. /\ mode[a] = "closing" /\ AgentEnds(a) /\ check' = {}
        /\ mode' = [mode EXCEPT ![a] = "settling"]
        /\ UNCHANGED <<driven, sending, queue, seq, marks, runStart, hold,
                       turn, obs, due, subs, sent>>
    BY <1>3 DEF DrivenSettles, Quiet, turns
  <2>2. Bounded' /\ RootApart'
    BY <1>1, <2>1, BoundedStill DEF RootApart
  <2>3. Kinds'
    BY <1>1, <2>1, EndTypes DEF Kinds, Modes
  <2>4. Placed'
    BY <1>1, <2>1, EndTypes DEF Placed, Kinds
  <2> QED
    BY <2>2, <2>3, <2>4
<1>4. CASE Park(a)
  <2>1. /\ mode[a] = "idle" /\ check' = {w \in Agents : mode'[w] = "reply"}
        /\ mode' = [mode EXCEPT ![a] = "parked"]
        /\ subs' = [w \in Agents |-> subs[w] \ {a}]
        /\ UNCHANGED <<driven, sending, queue, seq, marks, runStart, hold,
                       turn, obs, due, ended, sent>>
    BY <1>4 DEF Park, Changed, turns
  <2>2. Bounded' /\ RootApart'
    BY <1>1, <2>1, BoundedStill DEF RootApart
  <2>3. Kinds'
    BY <1>1, <2>1 DEF Kinds, Modes
  <2>4. Placed'
    BY <1>1, <2>1 DEF Placed, Kinds
  <2> QED
    BY <2>2, <2>3, <2>4
<1> QED
  BY <1>2, <1>3, <1>4

LEMMA CheckTypes ==
  ASSUME TypesInv, NEW w \in Agents, checkReplies(w)
  PROVE  Kinds' /\ RootApart' /\ Placed' /\ Bounded'
<1>1. Kinds /\ RootApart /\ Placed /\ Bounded /\ seq \in Nat
  BY DEF TypesInv, MarksInv, MarksType
<1>2. /\ w \in check /\ check' = check \ {w}
      /\ UNCHANGED <<driven, sending, queue, seq, marks, runStart, hold,
                     turn, obs, due, sent>>
      /\ \/ /\ mode' = [mode EXCEPT ![w] = "run"]
            /\ subs' = [subs EXCEPT ![w] = {}]
            /\ ended' = [ended EXCEPT ![w] = {}]
         \/ UNCHANGED <<mode, subs, ended>>
  BY DEF checkReplies, WaitOver, turns
<1>3. Bounded' /\ RootApart'
  BY <1>1, <1>2, BoundedStill DEF RootApart
<1>4. Kinds'
  BY <1>1, <1>2 DEF Kinds, Modes
<1>5. Placed'
  BY <1>1, <1>2 DEF Placed, Kinds
<1> QED
  BY <1>3, <1>4, <1>5

(* The owner of a job that settles, and the turn that continues it.          *)
LEMMA OwnerTypes ==
  ASSUME TypesInv, NEW p \in Agents
  PROVE  /\ Continued(p) \in Modes /\ Continued(p) # "reply"
         /\ Continuation(p) \in Turns \cup {None}
         /\ p = Root => Continuation(p) = None
<1>1. Kinds /\ RootApart /\ seq \in Nat
  BY DEF TypesInv, MarksInv, MarksType
<1>2. NewTurn({}, FALSE) \in Turns
  BY <1>1 DEF NewTurn, Turns
<1>3. Continued(p) \in Modes /\ Continued(p) # "reply"
  BY <1>1 DEF Continued, Kinds, Modes
<1>4. Continuation(p) \in Turns \cup {None} /\ (p = Root => Continuation(p) = None)
  BY <1>1, <1>2 DEF Continuation, Kinds, RootApart, Monitored
<1> QED
  BY <1>3, <1>4

LEMMA DrivenTypes ==
  ASSUME TypesInv, check = {}, NEW a \in Agents, DrivenOver(a)
  PROVE  Kinds' /\ RootApart' /\ Placed' /\ Bounded'
<1>1. Kinds /\ RootApart /\ Placed /\ Bounded /\ seq \in Nat
  BY DEF TypesInv, MarksInv, MarksType
<1>2. a # Root
  BY <1>1 DEF DrivenOver, RootApart
<1>3. PICK p \in Agents : p = Parent[a]
  BY <1>2, TreeAssumption
<1>4. PICK next \in {"idle", "closing"} : next = IF queue[a] = {} THEN "idle" ELSE "closing"
  OBVIOUS
<1>5. /\ mode[a] = "closing"
      /\ driven' = [driven EXCEPT ![a] = "no"]
      /\ ended' = [w \in Agents |-> IF w = p THEN {}
                     ELSE IF a \in subs[w] THEN ended[w] \cup {a} ELSE ended[w]]
      /\ subs' = [subs EXCEPT ![p] = {}]
      /\ check' = {w \in Agents : mode'[w] = "reply"}
      /\ UNCHANGED <<sending, queue, obs, due, sent>>
  BY <1>3 DEF DrivenOver, Changed
<1>6. CASE driven[a] = "async"
  <2>1. /\ JobSettles(a) /\ mode[p] # "closing"
        /\ hold' = IF mode[p] = "jobs" THEN [hold EXCEPT ![p] = {}] ELSE hold
        /\ mode' = [mode EXCEPT ![a] = next, ![p] = Continued(p)]
        /\ turn' = [turn EXCEPT ![p] = Continuation(p)]
    BY <1>3, <1>4, <1>6 DEF DrivenOver, JobSettles
  <2>2. /\ Continued(p) \in Modes /\ Continued(p) # "reply"
        /\ Continuation(p) \in Turns \cup {None}
        /\ p = Root => Continuation(p) = None
    BY OwnerTypes
  <2>3. Bounded'
    BY <1>1, <2>1, BoundedSettles
  <2>4. Kinds'
    BY <1>1, <1>5, <2>1, <2>2 DEF Kinds, Modes
  <2>5. RootApart'
    BY <1>1, <1>2, <1>5, <2>1, <2>2, TreeAssumption DEF RootApart, Kinds
  <2>6. Placed'
    BY <1>1, <1>5, <2>1 DEF Placed, Kinds, Continued
  <2> QED
    BY <2>3, <2>4, <2>5, <2>6
<1>7. CASE driven[a] # "async"
  <2>1. /\ mode' = [mode EXCEPT ![a] = next, ![p] = "run"]
        /\ hold' = [hold EXCEPT ![p] = {}]
        /\ UNCHANGED <<seq, marks, runStart, turn>>
    BY <1>3, <1>4, <1>7 DEF DrivenOver
  <2>2. Bounded'
    BY <1>1, <2>1, BoundedStill
  <2>3. Kinds' /\ RootApart'
    BY <1>1, <1>2, <1>5, <2>1 DEF Kinds, Modes, RootApart
  <2>4. Placed'
    BY <1>1, <1>5, <2>1 DEF Placed, Kinds
  <2> QED
    BY <2>2, <2>3, <2>4
<1> QED
  BY <1>6, <1>7

LEMMA CloseTypes ==
  ASSUME TypesInv, check = {}, NEW a \in Agents, CloseObservation(a)
  PROVE  Kinds' /\ RootApart' /\ Placed' /\ Bounded'
<1>1. Kinds /\ RootApart /\ Placed /\ Bounded /\ seq \in Nat
  BY DEF TypesInv, MarksInv, MarksType
<1>2. a # Root /\ obs[a] \in Turns
  BY <1>1 DEF CloseObservation, RootApart, Kinds
<1>3. PICK p \in Agents : p = Parent[a]
  BY <1>2, TreeAssumption
<1>4. /\ due' = [due EXCEPT ![a] = @ \cup Owed(a)]
      /\ obs' = [obs EXCEPT ![a] = None]
      /\ UNCHANGED <<driven, sending, queue, sent>>
  BY DEF CloseObservation
<1>5. Owed(a) \in SUBSET Dues
  BY <1>2 DEF Owed, Dues, Turns
<1>6. due' \in [Agents -> SUBSET Dues] /\ obs' \in [Agents -> Turns \cup {None}]
  BY <1>1, <1>4, <1>5 DEF Kinds
<1>7. CASE obs[a].owned
  <2>1. /\ JobSettles(a)
        /\ hold' = IF mode[p] = "jobs" THEN [hold EXCEPT ![p] = {}] ELSE hold
        /\ mode' = [mode EXCEPT ![p] = Continued(p)]
        /\ turn' = [turn EXCEPT ![p] = Continuation(p)]
        /\ subs' = [subs EXCEPT ![p] = {}]
        /\ ended' = [ended EXCEPT ![p] = {}]
        /\ check' = {w \in Agents : mode'[w] = "reply"}
    BY <1>3, <1>7 DEF CloseObservation, JobSettles, WaitOver, Changed
  <2>2. /\ Continued(p) \in Modes /\ Continued(p) # "reply"
        /\ Continuation(p) \in Turns \cup {None}
        /\ p = Root => Continuation(p) = None
    BY OwnerTypes
  <2>3. Bounded'
    BY <1>1, <2>1, BoundedSettles
  <2>4. Kinds'
    BY <1>1, <1>4, <1>6, <2>1, <2>2 DEF Kinds, Modes
  <2>5. RootApart'
    BY <1>1, <1>2, <1>4, <2>1, <2>2, TreeAssumption DEF RootApart, Kinds
  <2>6. Placed'
    BY <1>1, <1>4, <2>1 DEF Placed, Kinds, Continued
  <2> QED
    BY <2>3, <2>4, <2>5, <2>6
<1>8. CASE ~obs[a].owned
  <2>1. check' = {} /\ UNCHANGED <<seq, marks, mode, turn, hold, runStart, subs, ended>>
    BY <1>8 DEF CloseObservation, Quiet
  <2>2. Bounded'
    BY <1>1, <2>1, BoundedStill
  <2>3. Kinds' /\ RootApart' /\ Placed'
    BY <1>1, <1>2, <1>4, <1>6, <2>1 DEF Kinds, RootApart, Placed
  <2> QED
    BY <2>2, <2>3
<1> QED
  BY <1>7, <1>8

LEMMA TypesNext == TypesInv /\ [Next]_vars => TypesInv'
<1> SUFFICES ASSUME TypesInv, [Next]_vars PROVE TypesInv'
  OBVIOUS
<1>1. MarksInv'
  BY NextKeeps DEF TypesInv
<1> SUFFICES Kinds' /\ RootApart' /\ Placed' /\ Bounded'
  BY <1>1 DEF TypesInv
<1>2. ASSUME NEW a \in Agents, check = {}, Step(a)
      PROVE  Kinds' /\ RootApart' /\ Placed' /\ Bounded'
  BY <1>2, SpawnTypes, TalkTypes, DeliverTypes, WaitTypes, TurnTypes,
     DrivenTypes, CloseTypes, RelayTypes DEF Step
<1>3. ASSUME NEW w \in Agents, checkReplies(w)
      PROVE  Kinds' /\ RootApart' /\ Placed' /\ Bounded'
  BY <1>3, CheckTypes
<1>4. CASE UNCHANGED vars
  <2>1. Kinds' /\ RootApart'
    BY <1>4 DEF TypesInv, vars, turns, Kinds, RootApart
  <2>2. Placed' /\ Bounded'
    BY <1>4 DEF TypesInv, vars, marks, Placed, Bounded
  <2> QED
    BY <2>1, <2>2
<1>5. CASE \E a \in Agents : check = {} /\ Step(a)
  BY <1>2, <1>5
<1>6. CASE \E w \in Agents : checkReplies(w)
  BY <1>3, <1>6
<1> QED
  BY <1>4, <1>5, <1>6 DEF Next

(* The invariant is enough for the types.                                    *)
LEMMA TypesEnough == TypesInv => TypeOK
<1> SUFFICES ASSUME TypesInv PROVE TypeOK
  OBVIOUS
<1>1. Kinds /\ RootApart /\ Placed /\ Bounded /\ seq \in Nat
  BY DEF TypesInv, MarksInv, MarksType
<1>2. ASSUME NEW a \in Agents
      PROVE  sending[a] = None \/ sending[a] \in [id : Nat, to : Agents, progress : BOOLEAN]
  BY DEF TypesInv, MarksInv, SendsType, Sends
<1>3. ASSUME NEW a \in Agents
      PROVE  /\ hold[a] \in SUBSET Holds
             /\ turn[a] = None \/ turn[a] \in Turns
             /\ obs[a] = None \/ obs[a] \in Turns
             /\ due[a] \in SUBSET [to : Agents, since : Nat]
  BY <1>1 DEF Kinds, Dues
<1> QED
  BY <1>1, <1>2, <1>3 DEF TypeOK, Kinds, Placed, Bounded

(* Every variable keeps its shape, and only who is blocked holds.            *)
THEOREM ReplyTyped == Spec => []TypeOK
<1>1. Init => TypesInv
  BY TypesInit
<1>2. TypesInv /\ [Next]_vars => TypesInv'
  BY TypesNext
<1>3. TypesInv => TypeOK
  BY TypesEnough
<1> QED
  BY <1>1, <1>2, <1>3, PTL DEF Spec

-----------------------------------------------------------------------------
(* No wakeup is lost.  A step that takes an agent from those a wait can      *)
(* still be answered by is seen by the wait: it leaves it in check, or it is *)
(* the end of a turn of an agent the wait listens to.                        *)
Heard(w) ==
  (mode[w] = "reply" /\ From(w) = {} /\ w \notin check)
     => ended[w] # {} \/ ~(unansweredSends(w) \subseteq subs[w])

Answers(w, x) == Streaming(x) \/ QueuedFrom(w, x)

(* What was asked and is not answered is told by the marks of the waiter.    *)
LEMMA AskedSame ==
  ASSUME NEW w \in Agents, runStart'[w] = runStart[w],
         \A x \in Agents :
            /\ lastSent'[<<x, w>>] = lastSent[<<x, w>>]
            /\ lastDirect'[<<w, x>>] = lastDirect[<<w, x>>]
            /\ lastProgress'[<<x, w>>] = lastProgress[<<x, w>>]
            /\ lastJobReply'[<<x, w>>] = lastJobReply[<<x, w>>]
  PROVE  /\ unansweredSends(w)' = unansweredSends(w)
         /\ \A x \in Agents : Promised(w, x)' <=> Promised(w, x)
BY DEF unansweredSends, Answered, Promised

(* As long as no hold changes, the same agents are blocked on the waiter.    *)
LEMMA BlockedSame ==
  ASSUME NEW w \in Agents, hold' = hold,
         unansweredSends(w)' = unansweredSends(w),
         \A x \in Agents : /\ lastDirect'[<<w, x>>] = lastDirect[<<w, x>>]
                           /\ Live(x)' <=> Live(x)
  PROVE  Blocked(w)' = Blocked(w)
<1>1. Reaches(w)' = Reaches(w)
  BY DEF Reaches
<1>2. ASSUME NEW x \in Agents
      PROVE  blocksOn(x, w, lastDirect[<<w, x>>])' <=> blocksOn(x, w, lastDirect[<<w, x>>])
  <2>1. PICK n : n = lastDirect[<<w, x>>]
    OBVIOUS
  <2>2. n = lastDirect'[<<w, x>>]
    BY <2>1
  <2>3. blocksOn(x, w, n)' <=> blocksOn(x, w, n)
    BY <1>1 DEF blocksOn
  <2> QED
    BY <2>1, <2>2, <2>3 DEF blocksOn
<1>3. unansweredSends(w) \subseteq Agents
  BY DEF unansweredSends
<1> QED
  BY <1>2, <1>3 DEF Blocked

(* A step that no wait looks at again is heard: an agent that answers no     *)
(* more has ended, if the wait listens to it.                                *)
LEMMA HeardKept ==
  ASSUME NEW w \in Agents, Heard(w),
         mode'[w] = "reply" => mode[w] = "reply" /\ w \notin check,
         mode'[w] = "reply" =>
            /\ hold' = hold /\ runStart'[w] = runStart[w]
            /\ subs'[w] = subs[w] /\ ended[w] \subseteq ended'[w]
            /\ \A x \in Agents :
                  /\ lastSent'[<<x, w>>] = lastSent[<<x, w>>]
                  /\ lastDirect'[<<w, x>>] = lastDirect[<<w, x>>]
                  /\ lastProgress'[<<x, w>>] = lastProgress[<<x, w>>]
                  /\ lastJobReply'[<<x, w>>] = lastJobReply[<<x, w>>]
                  /\ Live(x)' <=> Live(x)
                  /\ Answers(w, x) => \/ Answers(w, x)'
                                      \/ x \in subs[w] => x \in ended'[w]
  PROVE  Heard(w)'
<1> SUFFICES ASSUME mode'[w] = "reply", From(w)' = {}
             PROVE  ended'[w] # {} \/ ~(unansweredSends(w)' \subseteq subs'[w])
  BY DEF Heard
<1>1. /\ unansweredSends(w)' = unansweredSends(w)
      /\ \A x \in Agents : Promised(w, x)' <=> Promised(w, x)
  BY AskedSame
<1>2. Blocked(w)' = Blocked(w)
  BY <1>1, BlockedSame
<1>3. CASE From(w) = {}
  BY <1>1, <1>3 DEF Heard
<1>4. CASE From(w) # {}
  <2>1. PICK x \in From(w) : TRUE
    BY <1>4
  <2>2. /\ x \in Agents /\ x \in unansweredSends(w) /\ x \notin Blocked(w)
        /\ Live(x) /\ (Promised(w, x) \/ Answers(w, x))
    BY <2>1 DEF From, unansweredSends, Answers
  <2>3. ~(Promised(w, x) \/ Answers(w, x)')
    <3>1. x \notin From(w)'
      OBVIOUS
    <3> QED
      BY <1>1, <1>2, <2>2, <3>1 DEF From, Answers
  <2>4. x \in subs[w] => x \in ended'[w]
    BY <2>2, <2>3
  <2> QED
    BY <1>1, <2>2, <2>4
<1> QED
  BY <1>3, <1>4

(* A step after which every wait looks again.                                *)
LEMMA HeardLooks ==
  ASSUME Changed, NEW w \in Agents
  PROVE  Heard(w)'
BY DEF Changed, Heard

(* A step that changes nothing a wait looks at.                              *)
LEMMA HeardStill ==
  ASSUME NEW w \in Agents, Heard(w),
         mode'[w] = "reply" => w \notin check,
         UNCHANGED <<mode, hold, runStart, marks, queue, subs>>,
         ended[w] \subseteq ended'[w]
  PROVE  Heard(w)'
<1>1. \A x \in Agents :
         /\ lastSent'[<<x, w>>] = lastSent[<<x, w>>] /\ lastDirect'[<<w, x>>] = lastDirect[<<w, x>>]
         /\ lastProgress'[<<x, w>>] = lastProgress[<<x, w>>]
         /\ lastJobReply'[<<x, w>>] = lastJobReply[<<x, w>>]
         /\ Live(x)' <=> Live(x)
         /\ Answers(w, x)' <=> Answers(w, x)
  BY DEF marks, Live, Answers, QueuedFrom, Streaming
<1> QED
  BY <1>1, HeardKept

(* A message is handed over to one agent, which then does not wait.          *)
LEMMA HandOverModes ==
  ASSUME Kinds, NEW a \in Agents, NEW b \in Agents, NEW asks, HandOver(a, b, asks)
  PROVE  mode'[b] # "reply" /\ \A x \in Agents \ {b} : mode'[x] = mode[x]
<1>1. CASE ToWaiter(b)         BY <1>1 DEF ToWaiter, Kinds
<1>2. CASE ToSteer(a, b)       BY <1>2 DEF ToSteer
<1>3. CASE ToQueue(a, b, asks)       BY <1>3 DEF ToQueue
<1>4. CASE ToWake(a, b, asks) BY <1>4 DEF ToWake, Kinds
<1> QED
  BY <1>1, <1>2, <1>3, <1>4 DEF HandOver

(* Who no message was handed to hears of what it changes, provided that no   *)
(* mark of its own moves.                                                    *)
LEMMA HandOverHeard ==
  ASSUME TypesInv, check = {}, NEW a \in Agents, NEW b \in Agents, NEW asks,
         HandOver(a, b, asks), NEW w \in Agents, Heard(w),
         mode'[w] = "reply" =>
            \A x \in Agents : /\ lastSent'[<<x, w>>] = lastSent[<<x, w>>]
                              /\ lastDirect'[<<w, x>>] = lastDirect[<<w, x>>]
                              /\ lastProgress'[<<x, w>>] = lastProgress[<<x, w>>]
                              /\ lastJobReply'[<<x, w>>] = lastJobReply[<<x, w>>]
  PROVE  Heard(w)'
<1>1. Kinds /\ Placed /\ w \notin check
  BY DEF TypesInv
<1>2. CASE Changed
  BY <1>2, HeardLooks
<1>3. ASSUME hold' = hold, runStart' = runStart,
             mode'[w] = "reply" => /\ mode[w] = "reply"
                                   /\ subs'[w] = subs[w] /\ ended'[w] = ended[w],
             \A x \in Agents : /\ Live(x)' <=> Live(x)
                               /\ Answers(w, x) => Answers(w, x)'
      PROVE  Heard(w)'
  BY <1>1, <1>3, HeardKept
<1>4. CASE ToWaiter(b)
  <2>1. CASE hold[b] = {}
    <3>1. hold' = hold /\ runStart' = runStart /\ queue' = queue
      BY <1>1, <1>4, <2>1 DEF ToWaiter, Kinds
    <3>2. /\ mode[b] \in {"reply", "jobs"} /\ mode' = [mode EXCEPT ![b] = "run"]
          /\ subs' = [subs EXCEPT ![b] = {}] /\ ended' = [ended EXCEPT ![b] = {}]
      BY <1>4 DEF ToWaiter, WaitOver, Blocks
    <3>3. \A x \in Agents : /\ Live(x)' <=> Live(x)
                            /\ Answers(w, x) => Answers(w, x)'
      BY <1>1, <3>1, <3>2 DEF Kinds, Live, Answers, QueuedFrom, Streaming
    <3>4. mode'[w] = "reply" => /\ mode[w] = "reply"
                                /\ subs'[w] = subs[w] /\ ended'[w] = ended[w]
      BY <1>1, <3>2 DEF Kinds
    <3> QED
      BY <1>3, <3>1, <3>3, <3>4
  <2>2. CASE hold[b] # {}
    BY <1>2, <1>4, <2>2 DEF ToWaiter
  <2> QED
    BY <2>1, <2>2
<1>5. CASE ToSteer(a, b)
  <2>1. UNCHANGED <<mode, hold, queue, runStart, subs, ended>>
    BY <1>5 DEF ToSteer
  <2>2. \A x \in Agents : (Live(x)' <=> Live(x)) /\ (Answers(w, x) => Answers(w, x)')
    BY <2>1 DEF Live, Answers, QueuedFrom, Streaming
  <2> QED
    BY <1>3, <2>1, <2>2
<1>6. CASE ToQueue(a, b, asks)
  <2>1. /\ UNCHANGED <<mode, hold, runStart, subs, ended>>
        /\ queue' = [queue EXCEPT ![b] = @ \cup {[from |-> a, asks |-> asks]}]
    BY <1>6 DEF ToQueue
  <2>2. \A x \in Agents : (Live(x)' <=> Live(x)) /\ (Answers(w, x) => Answers(w, x)')
    BY <1>1, <2>1 DEF Live, Answers, QueuedFrom, Streaming, Kinds
  <2> QED
    BY <1>3, <2>1, <2>2
<1>7. CASE ToWake(a, b, asks)
  BY <1>2, <1>7 DEF ToWake
<1> QED
  BY <1>4, <1>5, <1>6, <1>7 DEF HandOver

LEMMA RecordApart ==
  ASSUME NEW table, NEW from, NEW to, NEW id, NEW p \in DOMAIN table, p # <<from, to>>
  PROVE  record(table, from, to, id)[p] = table[p]
BY DEF record

LEMMA DeliverHeard ==
  ASSUME TypesInv, check = {}, NEW a \in Agents, Deliver(a), NEW w \in Agents, Heard(w)
  PROVE  Heard(w)'
<1>1. Kinds /\ Placed /\ Bounded
  BY DEF TypesInv
<1> DEFINE id == sending[a].id
<1>2. PICK to \in Agents : to = sending[a].to
  BY DEF Deliver, TypesInv, MarksInv, SendsType, Sends
<1>3. PICK asks \in BOOLEAN :
      /\ HandOver(a, to, asks) /\ UNCHANGED lastJobReply
      /\ lastSent' \in {lastSent, record(lastSent, a, to, id)}
      /\ lastDirect' \in {lastDirect, record(lastDirect, a, to, id)}
      /\ lastProgress' \in {lastProgress, record(lastProgress, a, to, id)}
  BY <1>2 DEF Deliver
<1>4. mode[a] = "run"
  BY <1>1 DEF Deliver, Placed
<1>5. mode'[w] = "reply" => w # a /\ w # to
  BY <1>1, <1>3, <1>4, HandOverModes
<1>6. ASSUME mode'[w] = "reply", NEW x \in Agents
      PROVE  /\ lastSent'[<<x, w>>] = lastSent[<<x, w>>]
             /\ lastDirect'[<<w, x>>] = lastDirect[<<w, x>>]
             /\ lastProgress'[<<x, w>>] = lastProgress[<<x, w>>]
             /\ lastJobReply'[<<x, w>>] = lastJobReply[<<x, w>>]
  <2>1. /\ <<x, w>> \in Pairs /\ <<w, x>> \in Pairs
        /\ <<x, w>> # <<a, to>> /\ <<w, x>> # <<a, to>>
    BY <1>5, <1>6 DEF Pairs
  <2>2. /\ DOMAIN lastSent = Pairs /\ DOMAIN lastDirect = Pairs
        /\ DOMAIN lastProgress = Pairs
    BY <1>1 DEF Bounded
  <2> QED
    BY <1>3, <2>1, <2>2, RecordApart
<1> QED
  BY <1>3, <1>6, HandOverHeard

LEMMA RelayHeard ==
  ASSUME TypesInv, check = {}, NEW a \in Agents, NEW d \in due[a], Relay(a, d),
         NEW w \in Agents, Heard(w)
  PROVE  Heard(w)'
<1>1. Kinds /\ Bounded
  BY DEF TypesInv
<1>2. PICK to \in Agents : to = d.to
  BY <1>1 DEF Kinds, Dues
<1>3. /\ HandOver(a, to, FALSE) /\ lastSent' = record(lastSent, a, to, seq + 1)
      /\ UNCHANGED <<lastDirect, lastProgress, lastJobReply>>
  BY <1>2 DEF Relay
<1>4. mode'[w] = "reply" => w # to
  BY <1>1, <1>3, HandOverModes
<1>5. ASSUME mode'[w] = "reply", NEW x \in Agents
      PROVE  lastSent'[<<x, w>>] = lastSent[<<x, w>>]
  <2>1. <<x, w>> \in DOMAIN lastSent /\ <<x, w>> # <<a, to>>
    BY <1>1, <1>4, <1>5 DEF Pairs, Bounded
  <2> QED
    BY <1>3, <2>1, RecordApart
<1> QED
  BY <1>3, <1>5, HandOverHeard

(* A wait begins while someone can answer it.                                *)
LEMMA WaitReplyHeard ==
  ASSUME TypesInv, check = {}, NEW a \in Agents, WaitReply(a),
         NEW w \in Agents, Heard(w)
  PROVE  Heard(w)'
<1>1. Kinds
  BY DEF TypesInv
<1>2. /\ mode[a] = "run" /\ mode' = [mode EXCEPT ![a] = "reply"]
      /\ subs' = [subs EXCEPT ![a] = From(a)] /\ From(a) # {}
      /\ UNCHANGED <<queue, marks, runStart, hold, ended>>
  BY DEF WaitReply, Free
<1>3. \A x \in Agents : /\ Live(x)' <=> Live(x)
                        /\ Answers(w, x)' <=> Answers(w, x)
  BY <1>1, <1>2 DEF Kinds, Live, Answers, QueuedFrom, Streaming
<1>4. CASE w = a
  <2>1. /\ unansweredSends(w)' = unansweredSends(w)
        /\ \A x \in Agents : Promised(w, x)' <=> Promised(w, x)
    BY <1>2, AskedSame DEF marks
  <2>2. Blocked(w)' = Blocked(w)
    BY <1>2, <1>3, <2>1, BlockedSame DEF marks
  <2>3. PICK x \in From(w) : TRUE
    BY <1>2, <1>4
  <2>4. /\ x \in Agents /\ x \in unansweredSends(w) /\ x \notin Blocked(w)
        /\ Live(x) /\ (Promised(w, x) \/ Answers(w, x))
    BY <2>3 DEF From, unansweredSends, Answers
  <2>5. x \in From(w)'
    BY <1>3, <2>1, <2>2, <2>4 DEF From, Answers
  <2> QED
    BY <2>5 DEF Heard
<1>5. CASE w # a
  <2>1. mode'[w] = mode[w] /\ subs'[w] = subs[w]
    BY <1>1, <1>2, <1>5 DEF Kinds
  <2> QED
    BY <1>2, <1>3, <2>1, HeardKept DEF marks
<1> QED
  BY <1>4, <1>5

(* A wait that ends answers its asker still.                                 *)
LEMMA OverHeard ==
  ASSUME TypesInv, NEW a \in Agents, mode[a] = "reply",
         mode' = [mode EXCEPT ![a] = "run"], WaitOver(a),
         UNCHANGED <<queue, marks, runStart, hold>>,
         NEW w \in Agents, Heard(w), w # a => w \notin check
  PROVE  Heard(w)'
<1>1. Kinds
  BY DEF TypesInv
<1>2. \A x \in Agents : /\ Live(x)' <=> Live(x)
                        /\ Answers(w, x)' <=> Answers(w, x)
  BY <1>1 DEF Kinds, Live, Answers, QueuedFrom, Streaming
<1>3. mode'[w] = "reply" => /\ w # a /\ mode[w] = "reply"
                            /\ subs'[w] = subs[w] /\ ended'[w] = ended[w]
  BY <1>1 DEF Kinds, WaitOver
<1> QED
  BY <1>2, <1>3, HeardKept DEF marks

LEMMA WaitCutHeard ==
  ASSUME TypesInv, check = {}, NEW a \in Agents, WaitCut(a),
         NEW w \in Agents, Heard(w)
  PROVE  Heard(w)'
<1>1. CASE hold[a] # {}
  BY <1>1, HeardLooks DEF WaitCut
<1>2. CASE hold[a] = {}
  <2>1. hold' = hold
    BY <1>2 DEF WaitCut, TypesInv, Kinds
  <2>2. mode[a] = "reply"
    BY <1>2 DEF WaitCut, Blocks, TypesInv, Placed
  <2> QED
    BY <2>1, <2>2, OverHeard DEF WaitCut
<1> QED
  BY <1>1, <1>2

LEMMA CheckHeard ==
  ASSUME TypesInv, NEW a \in Agents, checkReplies(a), NEW w \in Agents, Heard(w)
  PROVE  Heard(w)'
<1>1. a \in check /\ mode[a] = "reply" /\ check' = check \ {a}
  BY DEF checkReplies, TypesInv, Placed
<1>2. UNCHANGED <<queue, marks, runStart, hold>>
  BY DEF checkReplies
<1>3. CASE w # a /\ w \in check
  BY <1>1, <1>3 DEF Heard
<1>4. CASE From(a) = {} /\ (w = a \/ w \notin check)
  BY <1>1, <1>2, <1>4, OverHeard DEF checkReplies
<1>5. CASE From(a) # {} /\ w # a /\ w \notin check
  BY <1>1, <1>2, <1>5, HeardStill DEF checkReplies
<1>6. CASE From(a) # {} /\ w = a
  <2>1. UNCHANGED mode
    BY <1>6 DEF checkReplies
  <2>2. From(w)' = From(w)
    <3>1. /\ unansweredSends(w)' = unansweredSends(w)
          /\ \A x \in Agents : Promised(w, x)' <=> Promised(w, x)
      BY <1>2, AskedSame DEF marks
    <3>2. \A x \in Agents : (Live(x)' <=> Live(x)) /\ (Streaming(x)' <=> Streaming(x))
      BY <2>1 DEF Live, Streaming
    <3>3. Blocked(w)' = Blocked(w)
      BY <1>2, <3>1, <3>2, BlockedSame DEF marks
    <3>4. unansweredSends(w) \subseteq Agents /\ queue' = queue
      BY <1>2 DEF unansweredSends
    <3> QED
      BY <3>1, <3>2, <3>3, <3>4 DEF From, QueuedFrom
  <2> QED
    BY <1>6, <2>2 DEF Heard
<1> QED
  BY <1>3, <1>4, <1>5, <1>6

(* The end of a turn takes its agent from those that can answer, and is heard*)
(* by every wait that listens to it.                                         *)
LEMMA EndHeardKept ==
  ASSUME TypesInv, check = {}, NEW a \in Agents, AgentEnds(a), mode[a] = "closing",
         NEW m \in {"idle", "settling"}, mode' = [mode EXCEPT ![a] = m],
         UNCHANGED <<queue, marks, runStart, hold, subs>>,
         NEW w \in Agents, Heard(w)
  PROVE  Heard(w)'
<1>1. Kinds
  BY DEF TypesInv
<1>2. /\ ended[w] \subseteq ended'[w]
      /\ a \in subs[w] => a \in ended'[w]
  BY <1>1 DEF AgentEnds, Kinds
<1>3. \A x \in Agents : /\ Live(x)' <=> Live(x)
                        /\ x # a => (Answers(w, x) => Answers(w, x)')
  BY <1>1 DEF Kinds, Live, Answers, QueuedFrom, Streaming
<1>4. mode'[w] = "reply" => mode[w] = "reply"
  BY <1>1 DEF Kinds
<1>5. \A x \in Agents : Answers(w, x) => \/ Answers(w, x)'
                                         \/ x \in subs[w] => x \in ended'[w]
  BY <1>2, <1>3
<1> QED
  BY <1>2, <1>3, <1>4, <1>5, HeardKept DEF marks

LEMMA TurnHeard ==
  ASSUME TypesInv, check = {}, NEW a \in Agents, TurnOver(a) \/ DrivenSettles(a),
         NEW w \in Agents, Heard(w)
  PROVE  Heard(w)'
<1>1. CASE TurnOver(a) /\ queue[a] = {}
  BY <1>1, EndHeardKept DEF TurnOver
<1>2. CASE TurnOver(a) /\ queue[a] # {}
  BY <1>2, HeardLooks DEF TurnOver
<1>3. CASE DrivenSettles(a)
  BY <1>3, EndHeardKept DEF DrivenSettles
<1> QED
  BY <1>1, <1>2, <1>3

(* A run reads its queue while it runs, so it can answer before and after.   *)
LEMMA ReadHeard ==
  ASSUME TypesInv, check = {}, NEW a \in Agents, Read(a), NEW w \in Agents, Heard(w)
  PROVE  Heard(w)'
<1>1. /\ mode[a] = "run" /\ queue' = [queue EXCEPT ![a] = {}]
      /\ UNCHANGED <<mode, marks, runStart, hold, subs, ended>>
  BY DEF Read, Free
<1>2. \A x \in Agents : /\ Live(x)' <=> Live(x)
                        /\ Answers(w, x) => Answers(w, x)'
  BY <1>1 DEF TypesInv, Kinds, Live, Answers, QueuedFrom, Streaming
<1> QED
  BY <1>1, <1>2, HeardKept DEF marks

LEMMA StepHeard ==
  ASSUME TypesInv, EndIsHeard, check = {}, NEW a \in Agents, Step(a)
  PROVE  EndIsHeard'
<1> SUFFICES ASSUME NEW w \in Agents, Heard(w) PROVE Heard(w)'
  BY DEF EndIsHeard, Heard
<1>1. ASSUME NEW c \in Agents, SpawnJob(a, c) \/ SpawnInline(a, c) PROVE Heard(w)'
  BY <1>1, HeardLooks DEF SpawnJob, SpawnInline, Spawned
<1>2. ASSUME NEW b \in Agents, NEW progress \in BOOLEAN, Send(a, b, progress)
      PROVE  Heard(w)'
  BY <1>2, HeardStill DEF Send
<1>3. CASE Deliver(a)
  BY <1>3, DeliverHeard
<1>4. CASE Read(a)
  BY <1>4, ReadHeard
<1>5. CASE WaitJobs(a)
  BY <1>5, HeardLooks DEF WaitJobs
<1>6. CASE WaitReply(a)
  BY <1>6, WaitReplyHeard
<1>7. CASE WaitCut(a)
  BY <1>7, WaitCutHeard
<1>8. ASSUME NEW b \in Agents, EndHeard(a, b) PROVE Heard(w)'
  <2>1. CASE w = a
    BY <1>8, <2>1 DEF EndHeard, Heard
  <2>2. CASE w # a
    <3>1. ended'[w] = ended[w] /\ UNCHANGED <<mode, hold, runStart, marks, queue, subs>>
      BY <1>8, <2>2 DEF EndHeard, TypesInv, Kinds
    <3> QED
      BY <3>1, HeardStill
  <2> QED
    BY <2>1, <2>2
<1>9. CASE StatusIdle(a)
  BY <1>9, HeardLooks DEF StatusIdle
<1>10. CASE TurnOver(a) \/ DrivenSettles(a)
  BY <1>10, TurnHeard
<1>11. CASE DrivenOver(a)
  BY <1>11, HeardLooks DEF DrivenOver
<1>12. CASE CloseObservation(a)
  <2>1. CASE obs[a].owned
    BY <1>12, <2>1, HeardLooks DEF CloseObservation
  <2>2. CASE ~obs[a].owned
    <3>1. UNCHANGED <<mode, hold, runStart, marks, queue, subs, ended>>
      BY <1>12, <2>2 DEF CloseObservation
    <3> QED
      BY <3>1, HeardStill
  <2> QED
    BY <2>1, <2>2
<1>13. ASSUME NEW d \in due[a], Relayed(a, d) PROVE Heard(w)'
  BY <1>13, HeardStill DEF Relayed
<1>14. ASSUME NEW d \in due[a], Relay(a, d) PROVE Heard(w)'
  BY <1>14, RelayHeard
<1>15. CASE Park(a)
  BY <1>15, HeardLooks DEF Park
<1> QED
  BY <1>1, <1>2, <1>3, <1>4, <1>5, <1>6, <1>7, <1>8, <1>9, <1>10, <1>11,
     <1>12, <1>13, <1>14, <1>15 DEF Step

LEMMA HeardNext == TypesInv /\ EndIsHeard /\ [Next]_vars => EndIsHeard'
<1> SUFFICES ASSUME TypesInv, EndIsHeard, [Next]_vars PROVE EndIsHeard'
  OBVIOUS
<1>1. ASSUME NEW a \in Agents, check = {}, Step(a) PROVE EndIsHeard'
  BY <1>1, StepHeard
<1>2. ASSUME NEW a \in Agents, checkReplies(a) PROVE EndIsHeard'
  <2> SUFFICES ASSUME NEW w \in Agents, Heard(w) PROVE Heard(w)'
    BY DEF EndIsHeard, Heard
  <2> QED
    BY <1>2, CheckHeard
<1>3. CASE UNCHANGED vars
  <2> SUFFICES ASSUME NEW w \in Agents, Heard(w) PROVE Heard(w)'
    BY DEF EndIsHeard, Heard
  <2>1. CASE w \in check
    BY <1>3, <2>1 DEF Heard, vars
  <2>2. CASE w \notin check
    BY <1>3, <2>2, HeardStill DEF vars
  <2> QED
    BY <2>1, <2>2
<1>4. CASE \E a \in Agents : check = {} /\ Step(a)
  BY <1>1, <1>4
<1>5. CASE \E a \in Agents : checkReplies(a)
  BY <1>2, <1>5
<1> QED
  BY <1>3, <1>4, <1>5 DEF Next

(* No wakeup is lost: a reply wait that no agent can answer any more is      *)
(* about to look again, has heard an end whose relays it waits for, or was   *)
(* asked of an agent that took up work after the wait had begun.             *)
THEOREM EndsAreHeard == Spec => []EndIsHeard
<1>1. Init => TypesInv /\ EndIsHeard
  BY TypesInit DEF Init, EndIsHeard
<1>2. TypesInv /\ EndIsHeard /\ [Next]_vars => TypesInv' /\ EndIsHeard'
  BY TypesNext, HeardNext
<1> QED
  BY <1>1, <1>2, PTL DEF Spec

-----------------------------------------------------------------------------
(* The spawn tree.  Up(w) is w and the agents above it.                      *)
Up(w) == Above(w) \cup {w}
Upward(S) == \A x \in S : Parent[x] \in S \cup {None}

(* Up(w) is the least set that has w and the parents of its members.         *)
LEMMA UpLeast ==
  ASSUME NEW w \in Agents
  PROVE  /\ Up(w) \in SUBSET Agents /\ w \in Up(w) /\ Upward(Up(w))
         /\ \A S \in SUBSET Agents : w \in S /\ Upward(S) => Up(w) \subseteq S
<1>1. Up(w) \in SUBSET Agents /\ w \in Up(w)
  BY DEF Up, Above
<1>2. \A S \in SUBSET Agents : w \in S /\ Upward(S) => Up(w) \subseteq S
  BY DEF Up, Above, Upward
<1>3. ASSUME NEW x \in Up(w), Parent[x] # None
      PROVE  Parent[x] \in Up(w)
  <2>1. x \in Agents /\ Parent[x] \in Agents
    BY <1>1, <1>3, TreeAssumption
  <2>2. ASSUME NEW S \in SUBSET Agents, w \in S, Upward(S)
        PROVE  Parent[x] \in S
    BY <1>2, <1>3, <2>2 DEF Upward
  <2> QED
    BY <2>1, <2>2 DEF Up, Above, Upward
<1> QED
  BY <1>1, <1>2, <1>3 DEF Upward

(* Whoever is above one of them is above w.                                  *)
LEMMA UpWithin ==
  ASSUME NEW w \in Agents, NEW b \in Up(w)
  PROVE  b \in Agents /\ Up(b) \subseteq Up(w)
BY UpLeast

(* Above w are its parent and whoever is above the parent.                   *)
LEMMA UpParent ==
  ASSUME NEW w \in Agents, NEW b \in Up(w), b # w
  PROVE  Parent[w] \in Agents /\ b \in Up(Parent[w])
<1>1. CASE Parent[w] = None
  <2>1. Upward({w}) /\ {w} \in SUBSET Agents
    BY <1>1 DEF Upward
  <2> QED
    BY <2>1, UpLeast
<1>2. CASE Parent[w] # None
  <2>1. PICK p \in Agents : p = Parent[w]
    BY <1>2, TreeAssumption
  <2>2. Upward(Up(p) \cup {w}) /\ Up(p) \cup {w} \in SUBSET Agents
    BY <2>1, UpLeast DEF Upward
  <2>3. Up(w) \subseteq Up(p) \cup {w}
    BY <2>2, UpLeast
  <2> QED
    BY <2>1, <2>3
<1> QED
  BY <1>1, <1>2

(* Nobody is above whoever is above it.                                      *)
LEMMA UpOneWay ==
  ASSUME NEW w \in Agents, NEW b \in Up(w), w \in Up(b)
  PROVE  b = w
<1> SUFFICES ASSUME b # w PROVE FALSE
  OBVIOUS
<1> DEFINE Round == {z \in Up(w) : w \in Up(z)}
<1>1. Round \in SUBSET Agents /\ w \in Round /\ b \in Round
  BY UpLeast
<1>2. PICK a \in Round : \A c \in Round : Parent[c] # a
  BY <1>1, ForestAssumption
<1>3. PICK c \in Round : c # a
  BY <1>1
<1>4. /\ a \in Agents /\ c \in Agents /\ a \in Up(w) /\ w \in Up(a)
      /\ c \in Up(w) /\ w \in Up(c)
  BY <1>1, <1>2, <1>3
<1>5. a \in Up(c) /\ c \in Up(a)
  BY <1>4, UpWithin
<1>6. Upward(Up(c) \ {a})
  <2> SUFFICES ASSUME NEW z \in Up(c), Parent[z] = a PROVE FALSE
    BY <1>4, UpLeast DEF Upward
  <2>1. z \in Agents /\ z \in Up(w)
    BY <1>4, UpWithin
  <2>2. a \in Up(z)
    BY <1>4, <2>1, UpLeast, TreeAssumption DEF Upward
  <2>3. w \in Up(z)
    BY <1>4, <2>1, <2>2, UpWithin
  <2> QED
    BY <1>2, <2>1, <2>3
<1>7. Up(c) \subseteq Up(c) \ {a}
  BY <1>3, <1>4, <1>6, UpLeast
<1> QED
  BY <1>5, <1>7

(* Of two agents above w, one is above the other.                            *)
LEMMA UpChain ==
  ASSUME NEW w \in Agents, NEW x \in Up(w), NEW z \in Up(w)
  PROVE  x \in Up(z) \/ z \in Up(x)
<1> DEFINE S == {y \in Up(w) : z \in Up(y) \/ y \in Up(z)}
<1>1. S \in SUBSET Agents /\ w \in S /\ z \in Agents
  BY UpLeast
<1>2. ASSUME NEW y \in S, Parent[y] # None
      PROVE  Parent[y] \in S
  <2>1. y \in Agents /\ Parent[y] \in Up(w)
    BY <1>1, <1>2, UpLeast DEF Upward
  <2>2. CASE y \in Up(z)
    <3>1. Parent[y] \in Up(z)
      BY <1>1, <1>2, <2>2, UpLeast DEF Upward
    <3> QED
      BY <2>1, <3>1
  <2>3. CASE z \in Up(y) /\ y # z
    BY <2>1, <2>3, UpParent
  <2>4. CASE y = z
    BY <1>1, <2>2, <2>4, UpLeast
  <2> QED
    BY <2>2, <2>3, <2>4
<1>3. Upward(S)
  BY <1>2 DEF Upward
<1> QED
  BY <1>1, <1>3, UpLeast

(* A parent is above its child, and has one child on the way up from w.      *)
LEMMA UpChild ==
  ASSUME NEW y \in Agents, NEW b \in Agents, Parent[y] = b
  PROVE  /\ b # y /\ b \in Up(y) /\ y \notin Up(b)
         /\ \A w \in Agents : y \in Up(w) =>
               /\ b \in Up(w) /\ b # w
               /\ \A z \in Up(w) : Parent[z] = b => z = y
<1>0. \A z \in Agents : Parent[z] = b => b # z /\ b \in Up(z)
  <2> SUFFICES ASSUME NEW z \in Agents, Parent[z] = b PROVE b # z /\ b \in Up(z)
    OBVIOUS
  <2>1. PICK a \in {z} : \A c \in {z} : Parent[c] # a
    <3>1. {z} \in SUBSET Agents /\ {z} # {}
      OBVIOUS
    <3> QED
      BY <3>1, ForestAssumption
  <2>2. Parent[z] # None
    BY TreeAssumption
  <2> QED
    BY <2>1, <2>2, UpLeast DEF Upward
<1>1. b # y
  BY <1>0
<1>2. b \in Up(y)
  BY <1>0
<1>3. y \notin Up(b)
  BY <1>1, <1>2, UpOneWay
<1>4. ASSUME NEW w \in Agents, y \in Up(w)
      PROVE  b \in Up(w) /\ b # w
  BY <1>2, <1>3, <1>4, UpWithin
<1>5. ASSUME NEW w \in Agents, y \in Up(w), NEW z \in Up(w), Parent[z] = b, z # y
      PROVE  FALSE
  <2>1. z \in Agents
    BY UpWithin
  <2>2. y \in Up(z) \/ z \in Up(y)
    BY <1>5, UpChain
  <2>3. y \in Up(b) \/ z \in Up(b)
    BY <1>5, <2>1, <2>2, UpParent
  <2>4. b \in Up(z) /\ b # z
    BY <1>0, <1>5, <2>1
  <2>5. z \notin Up(b)
    BY <2>1, <2>4, UpOneWay
  <2> QED
    BY <1>3, <2>3, <2>5
<1> QED
  BY <1>1, <1>2, <1>3, <1>4, <1>5

-----------------------------------------------------------------------------
(* #reaches.  Its recursion has a solution: the least set of pairs that it   *)
(* maps into itself.  So the function satisfies its own equation, and what   *)
(* it says can be shown along the tree.                                      *)
Leads(target, R, at) ==
  \/ at[1] = target
  \/ /\ at[1] \notin at[2]
     /\ \E h \in hold[at[1]] : \A x \in h.awaited : <<x, at[2] \cup {at[1]}>> \in R

LEMMA LeastPaths ==
  ASSUME NEW w
  PROVE  \E R \in SUBSET Paths : \A at \in Paths : at \in R <=> Leads(w, R, at)
<1> DEFINE Closed(R) == \A at \in Paths : Leads(w, R, at) => at \in R
           Least == {at \in Paths : \A R \in SUBSET Paths : Closed(R) => at \in R}
<1>1. ASSUME NEW R \in SUBSET Paths, NEW T \in SUBSET Paths, R \subseteq T,
             NEW at \in Paths, Leads(w, R, at)
      PROVE  Leads(w, T, at)
  BY <1>1 DEF Leads
<1>2. ASSUME NEW at \in Paths, Leads(w, Least, at) PROVE at \in Least
  <2> SUFFICES ASSUME NEW R \in SUBSET Paths, Closed(R) PROVE at \in R
    OBVIOUS
  <2>1. Least \subseteq R /\ Least \in SUBSET Paths
    OBVIOUS
  <2>2. Leads(w, R, at)
    BY <1>1, <1>2, <2>1
  <2> QED
    BY <2>2
<1>3. ASSUME NEW at \in Least PROVE Leads(w, Least, at)
  <2> DEFINE R == {b \in Paths : Leads(w, Least, b)}
  <2>1. R \in SUBSET Paths /\ R \subseteq Least /\ Least \in SUBSET Paths
    BY <1>2
  <2>2. Closed(R)
    BY <1>1, <2>1
  <2> QED
    BY <2>1, <2>2
<1> QED
  BY <1>2, <1>3

(* The equation of the function.                                             *)
Again(w, f) == [at \in Paths |->
  \/ at[1] = w
  \/ /\ at[1] \notin at[2]
     /\ \E h \in hold[at[1]] : \A x \in h.awaited : f[<<x, at[2] \cup {at[1]}>>]]

LEMMA ReachesAgain ==
  ASSUME Kinds, NEW w
  PROVE  Reaches(w) = Again(w, Reaches(w))
<1>1. Reaches(w) = CHOOSE f : f = Again(w, f)
  BY DEF Reaches, Again
<1>2. PICK R \in SUBSET Paths : \A at \in Paths : at \in R <=> Leads(w, R, at)
  BY LeastPaths
<1>3. \A id \in Agents : \A h \in hold[id] : h.awaited \subseteq Agents
  BY DEF Kinds, Holds
<1>4. PICK g : g = [at \in Paths |-> at \in R]
  OBVIOUS
<1>5. ASSUME NEW at \in Paths PROVE g[at] = Again(w, g)[at]
  <2>1. at[1] \in Agents /\ at[2] \in SUBSET Agents
    BY DEF Paths
  <2>2. \A h \in hold[at[1]] : \A x \in h.awaited : <<x, at[2] \cup {at[1]}>> \in Paths
    BY <1>3, <2>1 DEF Paths
  <2>3. \A h \in hold[at[1]] : \A x \in h.awaited :
           g[<<x, at[2] \cup {at[1]}>>] <=> <<x, at[2] \cup {at[1]}>> \in R
    BY <1>4, <2>2
  <2>4. Again(w, g)[at] = (\/ at[1] = w
                          \/ /\ at[1] \notin at[2]
                             /\ \E h \in hold[at[1]] :
                                  \A x \in h.awaited : g[<<x, at[2] \cup {at[1]}>>])
    BY DEF Again
  <2>5. Again(w, g)[at] = Leads(w, R, at)
    BY <2>3, <2>4 DEF Leads
  <2>6. g[at] = (at \in R)
    BY <1>4
  <2>7. at \in R <=> Leads(w, R, at)
    BY <1>2
  <2>8. Leads(w, R, at) \in BOOLEAN
    BY DEF Leads
  <2> QED
    BY <2>5, <2>6, <2>7, <2>8
<1>6. g = Again(w, g)
  BY <1>4, <1>5 DEF Again
<1> QED
  BY <1>1, <1>6

LEMMA ReachesSteps ==
  ASSUME Kinds, NEW w \in Agents, NEW id \in Agents, NEW path \in SUBSET Agents
  PROVE  Reaches(w)[<<id, path>>] <=>
            \/ id = w
            \/ /\ id \notin path
               /\ \E h \in hold[id] : \A x \in h.awaited : Reaches(w)[<<x, path \cup {id}>>]
<1>1. PICK f : f = Reaches(w)
  OBVIOUS
<1>2. f = Again(w, f)
  BY <1>1, ReachesAgain
<1>3. <<id, path>> \in Paths
  BY DEF Paths
<1>4. Again(w, f)[<<id, path>>] = (\/ id = w
         \/ /\ id \notin path
            /\ \E h \in hold[id] : \A x \in h.awaited : f[<<x, path \cup {id}>>])
  BY <1>3 DEF Again
<1> QED
  BY <1>1, <1>2, <1>4

-----------------------------------------------------------------------------
(* Who is reported as blocked, in one state.  An agent has one hold, of the  *)
(* kind its mode says, and no question reached it since the hold began.      *)
HoldsFit ==
  \A a \in Agents : \A h \in hold[a] :
     /\ hold[a] = {h}
     /\ h.interruptible <=> mode[a] = "jobs"
     /\ h.interruptible => \A w \in Agents : lastDirect[<<w, a>>] <= h.since

Stuck(b, w) == \A x \in Above(w) : x = b \/ b \in Above(x)
                  => mode[x] \in {"jobs", "inline"} /\ Waited(x) \subseteq Up(w)

(* Whoever is stuck below w passes it on to who awaits it alone.             *)
LEMMA StuckUp ==
  ASSUME NEW w \in Agents, NEW y \in Up(w), NEW b \in Agents, Parent[y] = b,
         y = w \/ Stuck(y, w), mode[b] \in {"jobs", "inline"}, Waited(b) \subseteq Up(w)
  PROVE  b \in Above(w) /\ Stuck(b, w)
<1>1. /\ y \in Agents /\ b # y /\ b \in Up(y) /\ y \notin Up(b)
      /\ b \in Up(w) /\ b # w
  BY UpWithin, UpChild
<1>2. ASSUME NEW x \in Above(w), x = b \/ b \in Above(x)
      PROVE  mode[x] \in {"jobs", "inline"} /\ Waited(x) \subseteq Up(w)
  <2>1. CASE x = b
    BY <2>1
  <2>2. CASE x # b
    <3>1. x \in Agents /\ x \in Up(w) /\ x # w /\ b \in Up(x)
      BY <1>2, <2>2 DEF Above, Up
    <3>2. x \in Up(y) \/ y \in Up(x)
      BY <3>1, UpChain
    <3>3. y \in Up(x)
      <4> SUFFICES ASSUME x \in Up(y), x # y PROVE FALSE
        BY <3>2, <1>1, UpLeast
      <4>1. x \in Up(b)
        BY <1>1, UpParent
      <4> QED
        BY <2>2, <3>1, <4>1, UpOneWay
    <3>4. y # w
      <4> SUFFICES ASSUME w \in Up(x) PROVE FALSE
        BY <3>3
      <4> QED
        BY <3>1, UpOneWay
    <3>5. x = y \/ y \in Above(x)
      BY <3>3 DEF Up
    <3> QED
      BY <3>4, <3>5 DEF Stuck
  <2> QED
    BY <2>1, <2>2
<1> QED
  BY <1>1, <1>2 DEF Stuck, Up

(* Whoever is stuck leaves nobody between itself and w who is not.           *)
LEMMA StuckDown ==
  ASSUME NEW w \in Agents, NEW b \in Above(w), Stuck(b, w),
         NEW y \in Up(w), Parent[y] = b
  PROVE  y = w \/ Stuck(y, w)
<1>1. y \in Agents /\ b \in Agents /\ b \in Up(y)
  <2>1. y \in Agents /\ b \in Agents
    BY UpWithin DEF Above
  <2> QED
    BY <2>1, UpChild
<1>2. ASSUME NEW x \in Above(w), x = y \/ y \in Above(x)
      PROVE  x = b \/ b \in Above(x)
  <2>1. x \in Agents /\ y \in Up(x)
    BY <1>2, UpLeast DEF Above, Up
  <2>2. b \in Up(x)
    BY <1>1, <2>1, UpWithin
  <2> QED
    BY <2>2 DEF Up
<1> QED
  BY <1>2 DEF Stuck

(* Only who is stuck finishes after w.                                       *)
LEMMA ReachesStuck ==
  ASSUME Kinds, Placed, HoldsFit, HoldsAreOwed, NEW w \in Agents,
         NEW b \in Agents, NEW path \in SUBSET Agents, Reaches(w)[<<b, path>>]
  PROVE  b = w \/ (b \in Above(w) /\ Stuck(b, w))
<1> DEFINE Good(x) == x = w \/ (x \in Above(w) /\ Stuck(x, w))
           Bad == {x \in Agents : ~Good(x) /\ \E p \in SUBSET Agents : Reaches(w)[<<x, p>>]}
<1> SUFFICES ASSUME ~Good(b) PROVE FALSE
  OBVIOUS
<1>1. Bad \in SUBSET Agents /\ b \in Bad
  OBVIOUS
<1>2. PICK x \in Bad : \A c \in Bad : Parent[c] # x
  BY <1>1, ForestAssumption
<1>3. PICK p \in SUBSET Agents : Reaches(w)[<<x, p>>]
  OBVIOUS
<1>4. x \in Agents /\ ~Good(x)
  OBVIOUS
<1> HIDE DEF Good
<1>5. PICK h \in hold[x] : \A y \in h.awaited : Reaches(w)[<<y, p \cup {x}>>]
  <2>1. x # w
    BY <1>4 DEF Good
  <2> QED
    BY <1>3, <1>4, <2>1, ReachesSteps
<1>6. /\ h.awaited # {} /\ h.awaited \subseteq Agents /\ hold[x] = {h}
      /\ mode[x] \in {"jobs", "inline"}
      /\ \A y \in h.awaited : Parent[y] = x
  BY <1>4, <1>5 DEF Kinds, Holds, Placed, HoldsFit, HoldsAreOwed
<1>7. \A y \in h.awaited : Good(y)
  BY <1>2, <1>4, <1>5, <1>6
<1>8. PICK y \in h.awaited : TRUE
  BY <1>6
<1>9. Waited(x) \subseteq Up(w) /\ y \in Up(w)
  BY <1>6, <1>7 DEF Waited, Good, Up
<1> QED
  BY <1>4, <1>6, <1>7, <1>9, StuckUp DEF Good

(* Whoever is stuck finishes after w, whatever was visited below it.         *)
LEMMA StuckReaches ==
  ASSUME Kinds, Placed, HoldsFit, HoldsAreOwed, NEW w \in Agents,
         NEW b \in Above(w), Stuck(b, w)
  PROVE  Reaches(w)[<<b, {}>>]
<1> DEFINE Good(x) == x = w \/ (x \in Above(w) /\ Stuck(x, w))
           Clear(x, p) == \A z \in p : x \notin Up(z)
           Bad == {x \in Agents : Good(x) /\ \E p \in SUBSET Agents :
                                     Clear(x, p) /\ ~Reaches(w)[<<x, p>>]}
<1> SUFFICES ASSUME ~Reaches(w)[<<b, {}>>] PROVE FALSE
  OBVIOUS
<1>1. Bad \in SUBSET Agents /\ b \in Bad
  BY DEF Above
<1>2. PICK x \in Bad : \A c \in Bad : Parent[c] # x
  BY <1>1, ForestAssumption
<1>3. PICK p \in SUBSET Agents : Clear(x, p) /\ ~Reaches(w)[<<x, p>>]
  OBVIOUS
<1>4. x \in Agents /\ Good(x)
  OBVIOUS
<1>5. x # w
  BY <1>3, <1>4, ReachesSteps
<1>6. x \in Above(w) /\ Stuck(x, w) /\ x \notin p
  BY <1>3, <1>4, <1>5, UpLeast
<1>7. PICK h \in hold[x] : hold[x] = {h}
  BY <1>4, <1>6 DEF Stuck, Placed, HoldsFit
<1>8. h.awaited \subseteq Agents /\ h.awaited \subseteq Up(w) /\ \A y \in h.awaited : Parent[y] = x
  BY <1>4, <1>6, <1>7 DEF Kinds, Holds, HoldsAreOwed, Stuck, Waited
<1>9. ASSUME NEW y \in h.awaited PROVE Reaches(w)[<<y, p \cup {x}>>]
  <2>1. y \in Agents /\ y \in Up(w) /\ Parent[y] = x
    BY <1>8
  <2>2. Good(y)
    <3>1. y = w \/ y \in Above(w)
      BY <2>1 DEF Up
    <3> QED
      BY <1>6, <2>1, <3>1, StuckDown
  <2>3. x \in Up(y) /\ y \notin Up(x)
    BY <1>4, <2>1, UpChild
  <2>4. Clear(y, p \cup {x})
    <3> SUFFICES ASSUME NEW z \in p, y \in Up(z) PROVE FALSE
      BY <2>3
    <3> QED
      BY <1>3, <2>3, UpWithin
  <2>5. p \cup {x} \in SUBSET Agents
    BY <1>4
  <2> HIDE DEF Good, Clear
  <2> QED
    BY <1>2, <2>1, <2>2, <2>4, <2>5
<1> QED
  BY <1>3, <1>4, <1>6, <1>7, <1>9, ReachesSteps

(* Hence blocksOn reports exactly who is stuck.                              *)
LEMMA BlockedEnough ==
  ASSUME TypesInv, HoldsFit, HoldsAreOwed
  PROVE  BlockedIsParked
<1>1. Kinds /\ Placed /\ MarksType /\ NotSelf
  BY DEF TypesInv, MarksInv
<1> SUFFICES ASSUME NEW w \in Agents
             PROVE  Blocked(w) = {b \in unansweredSends(w) \cap Above(w) : Stuck(b, w)}
  BY DEF BlockedIsParked, Stuck, Up
<1>2. ASSUME NEW b \in unansweredSends(w)
      PROVE  b \in Agents /\ b # w
  <2>1. b \in Agents /\ lastDirect[<<w, b>>] > runStart[w]
    BY DEF unansweredSends
  <2>2. runStart[w] \in Nat
    BY <1>1 DEF MarksType
  <2> QED
    BY <1>1, <2>1, <2>2 DEF NotSelf
<1>3. ASSUME NEW b \in Agents, b # w
      PROVE  Reaches(w)[<<b, {}>>] <=>
               \E h \in hold[b] : \A x \in h.awaited : Reaches(w)[<<x, {b}>>]
  <2>1. PICK none \in SUBSET Agents : none = {}
    OBVIOUS
  <2>2. b \notin none /\ none \cup {b} = {b}
    BY <2>1
  <2>3. Reaches(w)[<<b, none>>] <=>
          \E h \in hold[b] : \A x \in h.awaited : Reaches(w)[<<x, none \cup {b}>>]
    BY <1>1, <1>3, <2>2, ReachesSteps
  <2> QED
    BY <2>1, <2>2, <2>3
<1>4. ASSUME NEW b \in Blocked(w) PROVE b \in Above(w) /\ Stuck(b, w)
  <2>1. b \in unansweredSends(w) /\ blocksOn(b, w, lastDirect[<<w, b>>])
    BY DEF Blocked
  <2>2. b \in Agents /\ b # w
    BY <1>2, <2>1
  <2>3. Reaches(w)[<<b, {}>>]
    BY <1>3, <2>1, <2>2 DEF blocksOn
  <2>4. {} \in SUBSET Agents
    OBVIOUS
  <2> QED
    BY <1>1, <2>2, <2>3, <2>4, ReachesStuck
<1>5. ASSUME NEW b \in unansweredSends(w), b \in Above(w), Stuck(b, w) PROVE b \in Blocked(w)
  <2>1. b \in Agents /\ b # w
    BY <1>2
  <2>2. PICK h \in hold[b] : \A x \in h.awaited : Reaches(w)[<<x, {b}>>]
    BY <1>1, <1>3, <1>5, <2>1, StuckReaches
  <2>3. mode[b] \in {"jobs", "inline"}
    BY <1>5 DEF Stuck
  <2>4. Live(b)
    BY <2>3 DEF Live
  <2>5. ~(h.interruptible /\ h.since < lastDirect[<<w, b>>])
    <3>1. lastDirect[<<w, b>>] \in Nat /\ h.since \in Nat
      BY <1>1, <2>1 DEF MarksType, Pairs, Kinds, Holds
    <3> QED
      BY <2>1, <3>1 DEF HoldsFit
  <2>6. blocksOn(b, w, lastDirect[<<w, b>>])
    BY <2>2, <2>5 DEF blocksOn
  <2> QED
    BY <2>4, <2>6 DEF Blocked
<1>6. Blocked(w) \subseteq unansweredSends(w)
  BY DEF Blocked
<1> QED
  BY <1>4, <1>5, <1>6

-----------------------------------------------------------------------------
(* What keeps the holds.  An inline run holds its parent, alone of its kind, *)
(* and only a session that streams and that no executor drives has a         *)
(* monitored turn.                                                           *)
InlinesHeld ==
  /\ \A c \in Agents : driven[c] = "inline" =>
        Parent[c] \in Agents /\ mode[Parent[c]] = "inline"
  /\ \A c, d \in Agents :
        driven[c] = "inline" /\ driven[d] = "inline" /\ Parent[c] = Parent[d] => c = d
TurnsRun == \A a \in Agents : turn[a] # None => driven[a] = "no" /\ Streaming(a)

HoldsInv == TypesInv /\ HoldsFit /\ HoldsAreOwed /\ InlinesHeld /\ TurnsRun

(* Without a turn, a job is a run that is driven or an open observation.     *)
OwedStill(c) == /\ HasJob(c) => HasJob(c)'
                /\ driven[c] = "inline" => driven'[c] = "inline"

(* The holds of one agent are as they should be.                             *)
Held(a) ==
  \A h \in hold[a] :
     /\ hold[a] = {h}
     /\ h.interruptible <=> mode[a] = "jobs"
     /\ h.interruptible => \A w \in Agents : lastDirect[<<w, a>>] <= h.since
     /\ \A c \in h.awaited :
           /\ Parent[c] = a
           /\ IF h.interruptible THEN HasJob(c) ELSE driven[c] = "inline"

LEMMA AllHeld == HoldsFit /\ HoldsAreOwed <=> \A a \in Agents : Held(a)
BY DEF HoldsFit, HoldsAreOwed, Held

(* A step keeps the holds of an agent when it clears them, or moves neither  *)
(* its mode nor the questions to it while its children still owe.            *)
LEMMA HeldStill ==
  ASSUME NEW a \in Agents, Held(a), \A h \in hold[a] : h.awaited \subseteq Agents,
         \/ hold'[a] = {}
         \/ /\ hold'[a] = hold[a] /\ mode'[a] = mode[a]
            /\ mode[a] = "jobs" => \A w \in Agents :
                  lastDirect'[<<w, a>>] = lastDirect[<<w, a>>]
            /\ \A c \in Agents : Parent[c] = a => OwedStill(c)
  PROVE  Held(a)'
<1> SUFFICES ASSUME NEW h \in hold'[a]
             PROVE  /\ hold'[a] = {h}
                    /\ h.interruptible <=> mode'[a] = "jobs"
                    /\ h.interruptible => \A w \in Agents : lastDirect'[<<w, a>>] <= h.since
                    /\ \A c \in h.awaited :
                          /\ Parent[c] = a
                          /\ IF h.interruptible THEN HasJob(c)' ELSE driven'[c] = "inline"
  BY DEF Held
<1>1. /\ hold'[a] = hold[a] /\ mode'[a] = mode[a] /\ h \in hold[a]
      /\ mode[a] = "jobs" => \A w \in Agents :
            lastDirect'[<<w, a>>] = lastDirect[<<w, a>>]
      /\ \A c \in Agents : Parent[c] = a => OwedStill(c)
  OBVIOUS
<1>2. /\ hold[a] = {h}
      /\ h.interruptible <=> mode[a] = "jobs"
      /\ h.interruptible => \A w \in Agents : lastDirect[<<w, a>>] <= h.since
  BY <1>1 DEF Held
<1>3. \A c \in h.awaited : /\ c \in Agents /\ Parent[c] = a
                           /\ IF h.interruptible THEN HasJob(c) ELSE driven[c] = "inline"
  BY <1>1 DEF Held
<1>4. \A c \in h.awaited : IF h.interruptible THEN HasJob(c)' ELSE driven'[c] = "inline"
  BY <1>1, <1>3 DEF OwedStill
<1> QED
  BY <1>1, <1>2, <1>3, <1>4

LEMMA HoldsKept ==
  ASSUME HoldsFit, HoldsAreOwed,
         \A a \in Agents : \/ hold'[a] = {}
                           \/ /\ hold'[a] = hold[a] /\ mode'[a] = mode[a]
                              /\ mode[a] = "jobs" => \A w \in Agents :
                                    lastDirect'[<<w, a>>] = lastDirect[<<w, a>>]
                              /\ \A c \in Agents : Parent[c] = a => OwedStill(c),
         \A a \in Agents : \A h \in hold[a] : h.awaited \subseteq Agents
  PROVE  HoldsFit' /\ HoldsAreOwed'
<1>1. ASSUME NEW a \in Agents PROVE Held(a)'
  BY HeldStill, AllHeld
<1>2. HoldsFit' /\ HoldsAreOwed' <=> \A a \in Agents : Held(a)'
  BY DEF HoldsFit, HoldsAreOwed, Held
<1> QED
  BY <1>1, <1>2

(* A step that ends no run, turn or observation leaves what is owed.         *)
LEMMA OwedSame ==
  ASSUME NEW c \in Agents, driven'[c] = driven[c],
         turn'[c] = turn[c], obs'[c] = obs[c]
  PROVE  OwedStill(c)
BY DEF OwedStill, HasJob

LEMMA HoldsInit == Init => HoldsInv
<1> SUFFICES ASSUME Init PROVE HoldsInv
  OBVIOUS
<1>1. TypesInv
  BY TypesInit
<1>2. HoldsFit /\ HoldsAreOwed
  BY DEF Init, HoldsFit, HoldsAreOwed
<1>3. InlinesHeld /\ TurnsRun
  BY DEF Init, InlinesHeld, TurnsRun
<1> QED
  BY <1>1, <1>2, <1>3 DEF HoldsInv

(* A step of one agent that moves neither holds, runs, turns nor questions.  *)
LEMMA HoldsAlone ==
  ASSUME HoldsInv, NEW a \in Agents, hold[a] = {},
         UNCHANGED <<hold, driven, turn, obs, lastDirect>>,
         \A x \in Agents \ {a} : mode'[x] = mode[x],
         turn[a] # None => mode'[a] \in {"run", "closing", "reply", "jobs", "inline"}
  PROVE  HoldsFit' /\ HoldsAreOwed' /\ InlinesHeld' /\ TurnsRun'
<1>1. /\ Kinds /\ Placed /\ HoldsFit /\ HoldsAreOwed /\ InlinesHeld /\ TurnsRun
  BY DEF HoldsInv, TypesInv
<1>2. \A x \in Agents : \A h \in hold[x] : h.awaited \subseteq Agents
  BY <1>1 DEF Kinds, Holds
<1>3. \A c \in Agents : OwedStill(c)
  BY OwedSame
<1>4. HoldsFit' /\ HoldsAreOwed'
  BY <1>1, <1>2, <1>3, HoldsKept
<1>5. mode[a] # "inline"
  BY <1>1 DEF Placed
<1>6. InlinesHeld'
  BY <1>1, <1>5 DEF InlinesHeld
<1>7. TurnsRun'
  BY <1>1 DEF TurnsRun, Streaming
<1> QED
  BY <1>4, <1>6, <1>7

(* A message handed over ends the block it finds, or finds none it may end.  *)
LEMMA HandOverHolds ==
  ASSUME HoldsInv, NEW a \in Agents, NEW b \in Agents, NEW asks \in BOOLEAN,
         HandOver(a, b, asks), UNCHANGED <<driven, obs>>,
         \A w, x \in Agents : x # b => lastDirect'[<<w, x>>] = lastDirect[<<w, x>>]
  PROVE  HoldsFit' /\ HoldsAreOwed' /\ InlinesHeld' /\ TurnsRun'
<1>1. /\ Kinds /\ Placed /\ HoldsFit /\ HoldsAreOwed /\ InlinesHeld /\ TurnsRun
  BY DEF HoldsInv, TypesInv
<1>2. \A x \in Agents : \A h \in hold[x] : h.awaited \subseteq Agents
  BY <1>1 DEF Kinds, Holds
<1>3. /\ \A x \in Agents \ {b} : hold'[x] = hold[x] /\ mode'[x] = mode[x]
      /\ hold'[b] = {} \/ (hold'[b] = hold[b] /\ mode'[b] = mode[b] /\ mode[b] # "jobs")
      /\ mode[b] = "inline" => mode'[b] = "inline"
      /\ mode[b] # "jobs" => hold'[b] = hold[b]
  <2>1. CASE ToWaiter(b)
    <3>1. /\ mode[b] \in {"reply", "jobs"}
          /\ mode' = [mode EXCEPT ![b] = "run"] /\ hold' = [hold EXCEPT ![b] = {}]
      BY <2>1 DEF ToWaiter, Blocks
    <3>2. mode[b] # "jobs" => hold[b] = {}
      BY <1>1, <3>1 DEF Placed
    <3> QED
      BY <1>1, <3>1, <3>2 DEF Kinds
  <2>2. CASE ToSteer(a, b)
    BY <1>1, <2>2 DEF ToSteer
  <2>3. CASE ToQueue(a, b, asks)
    BY <1>1, <2>3 DEF ToQueue
  <2>4. CASE ToWake(a, b, asks)
    <3>1. hold[b] = {}
      BY <1>1, <2>4 DEF ToWake, Placed
    <3> QED
      BY <1>1, <2>4, <3>1 DEF ToWake, Kinds
  <2> QED
    BY <2>1, <2>2, <2>3, <2>4 DEF HandOver
<1>4. /\ \A c \in Agents : OwedStill(c)
      /\ TurnsRun'
  <2>1. CASE ToWaiter(b) \/ ToQueue(a, b, asks)
    <3>1. /\ turn' = turn
          /\ mode' = mode \/ mode' = [mode EXCEPT ![b] = "run"]
      BY <2>1 DEF ToWaiter, ToQueue
    <3>2. TurnsRun'
      BY <1>1, <3>1 DEF TurnsRun, Streaming, Kinds
    <3> QED
      BY <3>1, <3>2, OwedSame
  <2>2. CASE ToSteer(a, b)
    <3>1. /\ mode' = mode /\ \A x \in Agents \ {b} : turn'[x] = turn[x]
          /\ turn'[b] = IF turn[b] = None THEN None ELSE [turn[b] EXCEPT !.owned = TRUE]
      BY <1>1, <2>2 DEF ToSteer, Kinds
    <3>2. TurnsRun'
      BY <1>1, <3>1 DEF TurnsRun, Streaming
    <3>3. turn[b] # None /\ turn[b].owned => turn'[b] = turn[b]
      BY <1>1, <3>1 DEF Kinds, Turns
    <3> QED
      BY <3>1, <3>2, <3>3 DEF OwedStill, HasJob
  <2>3. CASE ToWake(a, b, asks)
    <3>1. /\ mode' = [mode EXCEPT ![b] = "run"]
          /\ \A x \in Agents \ {b} : turn'[x] = turn[x]
          /\ mode[b] \in {"idle", "parked", "settling"}
          /\ turn'[b] # None => driven[b] = "no"
      BY <1>1, <2>3 DEF ToWake, Kinds, WakeTurn, Monitored
    <3>2. turn[b] = None
      BY <1>1, <3>1 DEF TurnsRun, Streaming
    <3>3. TurnsRun'
      BY <1>1, <3>1 DEF TurnsRun, Streaming, Kinds
    <3> QED
      BY <3>1, <3>2, <3>3 DEF OwedStill, HasJob
  <2> QED
    BY <2>1, <2>2, <2>3 DEF HandOver
<1>5. \A x \in Agents : \/ hold'[x] = {}
                        \/ /\ hold'[x] = hold[x] /\ mode'[x] = mode[x]
                           /\ x # b \/ mode[b] # "jobs"
  BY <1>3
<1>6. InlinesHeld'
  BY <1>1, <1>3 DEF InlinesHeld
<1>7. HoldsFit' /\ HoldsAreOwed'
  BY <1>1, <1>2, <1>4, <1>5, HoldsKept
<1> QED
  BY <1>4, <1>6, <1>7

-----------------------------------------------------------------------------
LEMMA Awaited == Kinds => \A a \in Agents : \A h \in hold[a] : h.awaited \subseteq Agents
BY DEF Kinds, Holds

(* The steps, one lemma for those that move the same parts.                  *)
LEMMA SpawnHolds ==
  ASSUME HoldsInv, NEW p \in Agents, NEW c \in Agents,
         SpawnJob(p, c) \/ SpawnInline(p, c)
  PROVE  HoldsFit' /\ HoldsAreOwed' /\ InlinesHeld' /\ TurnsRun'
<1>1. /\ Kinds /\ Placed /\ Bounded /\ HoldsFit /\ HoldsAreOwed /\ InlinesHeld
      /\ TurnsRun /\ seq \in Nat
  BY DEF HoldsInv, TypesInv, MarksInv, MarksType
<1>2. /\ c # p /\ Parent[c] = p /\ mode[c] = "new" /\ mode[p] = "run"
      /\ hold[p] = {} /\ hold[c] = {}
  BY <1>1 DEF SpawnJob, SpawnInline, Spawned, Free, Placed
<1>3. /\ UNCHANGED <<turn, obs, lastDirect>>
      /\ driven' \in {[driven EXCEPT ![c] = "async"], [driven EXCEPT ![c] = "inline"]}
  BY DEF SpawnJob, SpawnInline, Spawned, marks, turns
<1>4. turn[c] = None /\ driven[c] # "inline"
  <2>1. turn[c] = None
    BY <1>1, <1>2 DEF TurnsRun, Streaming
  <2>2. driven[c] # "inline"
    BY <1>1, <1>2 DEF InlinesHeld
  <2> QED
    BY <2>1, <2>2
<1>5. CASE SpawnJob(p, c)
  <2>1. mode' = [mode EXCEPT ![c] = "run"] /\ hold' = hold
        /\ driven' = [driven EXCEPT ![c] = "async"]
    BY <1>5 DEF SpawnJob, Spawned
  <2>2. \A x \in Agents \ {c} : OwedStill(x)
    BY <1>1, <1>3, <2>1, OwedSame DEF Kinds
  <2>3. ASSUME NEW x \in Agents
        PROVE  \/ hold'[x] = {}
               \/ /\ hold'[x] = hold[x] /\ mode'[x] = mode[x]
                  /\ \A y \in Agents : Parent[y] = x => OwedStill(y)
    <3>1. CASE x \in {c, p}
      BY <1>2, <2>1, <3>1
    <3>2. CASE x \notin {c, p}
      BY <1>1, <1>2, <2>1, <2>2, <3>2 DEF Kinds
    <3> QED
      BY <3>1, <3>2
  <2>4. HoldsFit' /\ HoldsAreOwed'
    BY <1>1, <1>3, <2>3, HoldsKept, Awaited
  <2>5. InlinesHeld'
    BY <1>1, <1>2, <2>1 DEF InlinesHeld, Kinds
  <2>6. TurnsRun'
    BY <1>1, <1>3, <1>4, <2>1 DEF TurnsRun, Streaming, Kinds
  <2> QED
    BY <2>4, <2>5, <2>6
<1>6. CASE SpawnInline(p, c)
  <2> DEFINE new == [awaited |-> {c}, since |-> seq, interruptible |-> FALSE]
  <2>1. /\ mode' = [mode EXCEPT ![c] = "run", ![p] = "inline"]
        /\ hold' = [hold EXCEPT ![p] = {new}]
        /\ driven' = [driven EXCEPT ![c] = "inline"]
    BY <1>6 DEF SpawnInline, Spawned
  <2>2. new.awaited = {c} /\ new.interruptible = FALSE
    OBVIOUS
  <2> HIDE DEF new
  <2>3. /\ hold'[p] = {new} /\ mode'[p] = "inline" /\ driven'[c] = "inline"
        /\ \A x \in Agents \ {c, p} : hold'[x] = hold[x] /\ mode'[x] = mode[x]
        /\ hold'[c] = {}
    BY <1>1, <1>2, <2>1 DEF Kinds
  <2>4. Held(p)'
    BY <1>2, <2>2, <2>3 DEF Held
  <2>5. \A x \in Agents \ {c} : OwedStill(x)
    BY <1>1, <1>3, <2>1, OwedSame DEF Kinds
  <2>6. ASSUME NEW x \in Agents \ {p} PROVE Held(x)'
    <3>1. Held(x) /\ \A h \in hold[x] : h.awaited \subseteq Agents
      BY <1>1, AllHeld, Awaited
    <3>2. \/ hold'[x] = {}
          \/ /\ hold'[x] = hold[x] /\ mode'[x] = mode[x]
             /\ \A y \in Agents : Parent[y] = x => OwedStill(y)
      BY <1>2, <2>3, <2>5
    <3> QED
      BY <1>3, <3>1, <3>2, HeldStill
  <2>7. HoldsFit' /\ HoldsAreOwed'
    BY <2>4, <2>6 DEF HoldsFit, HoldsAreOwed, Held
  <2>8. InlinesHeld'
    <3>1. \A x \in Agents : driven'[x] = "inline" =>
             x = c \/ (driven[x] = "inline" /\ Parent[x] # p)
      BY <1>1, <1>2, <2>1 DEF InlinesHeld, Kinds
    <3>2. \A x \in Agents : mode[x] = "inline" => mode'[x] = "inline"
      BY <1>2, <2>3
    <3> QED
      BY <1>1, <1>2, <2>3, <3>1, <3>2 DEF InlinesHeld
  <2>9. TurnsRun'
    BY <1>1, <1>2, <1>3, <1>4, <2>1 DEF TurnsRun, Streaming, Kinds
  <2> QED
    BY <2>7, <2>8, <2>9
<1> QED
  BY <1>5, <1>6

(* Nothing moves but the messages, the relays and who looks again.           *)
LEMMA StillHolds ==
  ASSUME HoldsInv, UNCHANGED <<mode, hold, driven, turn, obs, lastDirect>>
  PROVE  HoldsFit' /\ HoldsAreOwed' /\ InlinesHeld' /\ TurnsRun'
<1>1. Kinds /\ HoldsFit /\ HoldsAreOwed /\ InlinesHeld /\ TurnsRun
  BY DEF HoldsInv, TypesInv
<1>2. \A c \in Agents : OwedStill(c)
  BY OwedSame
<1>3. HoldsFit' /\ HoldsAreOwed'
  BY <1>1, <1>2, HoldsKept, Awaited
<1>4. InlinesHeld' /\ TurnsRun'
  BY <1>1 DEF InlinesHeld, TurnsRun, Streaming
<1> QED
  BY <1>3, <1>4

(* The steps of a session that holds nothing.                                *)
LEMMA AloneHolds ==
  ASSUME HoldsInv, NEW a \in Agents,
         \/ \E b \in Agents, progress \in BOOLEAN : Send(a, b, progress)
         \/ Read(a) \/ StatusIdle(a) \/ WaitReply(a) \/ DrivenSettles(a) \/ Park(a)
         \/ checkReplies(a)
         \/ \E b \in Agents : EndHeard(a, b)
         \/ \E d \in due[a] : Relayed(a, d)
  PROVE  HoldsFit' /\ HoldsAreOwed' /\ InlinesHeld' /\ TurnsRun'
<1>1. Kinds /\ Placed /\ TurnsRun
  BY DEF HoldsInv, TypesInv
<1>2. UNCHANGED <<hold, driven, turn, obs, lastDirect>>
  BY DEF Send, Read, StatusIdle, WaitReply, DrivenSettles, Park, checkReplies,
     EndHeard, Relayed, marks, turns
<1>3. CASE mode' = mode
  BY <1>2, <1>3, StillHolds
<1>4. CASE mode' # mode
  <2>1. /\ mode[a] \in {"run", "closing", "idle", "reply"}
        /\ \E m \in {"run", "closing", "reply"} : mode' = [mode EXCEPT ![a] = m]
     \/ /\ mode[a] \in {"run", "closing", "idle", "reply"}
        /\ turn[a] = None
        /\ \E m \in {"settling", "parked"} : mode' = [mode EXCEPT ![a] = m]
    <3>1. CASE \E b \in Agents, progress \in BOOLEAN : Send(a, b, progress)
      BY <1>4, <3>1 DEF Send
    <3>2. CASE Read(a) \/ \E b \in Agents : EndHeard(a, b)
      BY <1>4, <3>2 DEF Read, EndHeard
    <3>3. CASE \E d \in due[a] : Relayed(a, d)
      BY <1>4, <3>3 DEF Relayed
    <3>4. CASE StatusIdle(a) \/ WaitReply(a)
      BY <3>4 DEF StatusIdle, WaitReply, Free
    <3>5. CASE checkReplies(a)
      BY <1>1, <1>4, <3>5 DEF checkReplies, Placed
    <3>6. CASE DrivenSettles(a)
      BY <1>1, <3>6 DEF DrivenSettles, TurnsRun
    <3>7. CASE Park(a)
      BY <3>7 DEF Park, RelayPending
    <3> QED
      BY <3>1, <3>2, <3>3, <3>4, <3>5, <3>6, <3>7
  <2>2. hold[a] = {} /\ \A x \in Agents \ {a} : mode'[x] = mode[x]
    BY <1>1, <2>1 DEF Placed, Kinds
  <2>3. turn[a] # None => mode'[a] \in {"run", "closing", "reply", "jobs", "inline"}
    BY <1>1, <2>1 DEF Kinds
  <2> QED
    BY <1>2, <2>2, <2>3, HoldsAlone
<1> QED
  BY <1>3, <1>4

(* A `wait` for jobs begins or ends.                                         *)
LEMMA WaitHolds ==
  ASSUME HoldsInv, NEW a \in Agents, WaitJobs(a) \/ WaitCut(a)
  PROVE  HoldsFit' /\ HoldsAreOwed' /\ InlinesHeld' /\ TurnsRun'
<1>1. /\ Kinds /\ Placed /\ Bounded /\ HoldsFit /\ HoldsAreOwed /\ InlinesHeld
      /\ TurnsRun /\ seq \in Nat
  BY DEF HoldsInv, TypesInv, MarksInv, MarksType
<1>2. UNCHANGED <<driven, turn, obs, lastDirect>>
  BY DEF WaitJobs, WaitCut, marks, turns
<1>3. \A c \in Agents : OwedStill(c)
  BY <1>2, OwedSame
<1>4. CASE WaitJobs(a)
  <2> DEFINE new == [awaited |-> OwnJobs(a), since |-> seq, interruptible |-> TRUE]
  <2>1. /\ mode[a] = "run" /\ mode' = [mode EXCEPT ![a] = "jobs"]
        /\ hold' = [hold EXCEPT ![a] = {new}]
    BY <1>4 DEF WaitJobs, Free
  <2>2. new.awaited = OwnJobs(a) /\ new.interruptible = TRUE /\ new.since = seq
    OBVIOUS
  <2> HIDE DEF new
  <2>3. /\ hold'[a] = {new} /\ mode'[a] = "jobs"
        /\ \A x \in Agents \ {a} : hold'[x] = hold[x] /\ mode'[x] = mode[x]
    BY <1>1, <2>1 DEF Kinds
  <2>4. \A c \in OwnJobs(a) : Parent[c] = a /\ HasJob(c)'
    BY <1>2 DEF OwnJobs, HasJob
  <2>5. \A w \in Agents : lastDirect'[<<w, a>>] <= seq
    BY <1>1, <1>2 DEF Bounded, Pairs
  <2>6. Held(a)'
    BY <2>2, <2>3, <2>4, <2>5 DEF Held
  <2>7. ASSUME NEW x \in Agents \ {a} PROVE Held(x)'
    BY <1>1, <1>2, <1>3, <2>3, AllHeld, Awaited, HeldStill
  <2>8. HoldsFit' /\ HoldsAreOwed'
    BY <2>6, <2>7 DEF HoldsFit, HoldsAreOwed, Held
  <2>9. InlinesHeld' /\ TurnsRun'
    BY <1>1, <1>2, <2>1, <2>3 DEF InlinesHeld, TurnsRun, Streaming
  <2> QED
    BY <2>8, <2>9
<1>5. CASE WaitCut(a)
  <2>1. /\ mode[a] \in {"reply", "jobs"}
        /\ mode' = [mode EXCEPT ![a] = "run"] /\ hold' = [hold EXCEPT ![a] = {}]
    BY <1>5 DEF WaitCut, Blocks
  <2>2. /\ hold'[a] = {} /\ mode'[a] = "run"
        /\ \A x \in Agents \ {a} : hold'[x] = hold[x] /\ mode'[x] = mode[x]
    BY <1>1, <2>1 DEF Kinds
  <2>3. HoldsFit' /\ HoldsAreOwed'
    BY <1>1, <1>2, <1>3, <2>2, HoldsKept, Awaited
  <2>4. InlinesHeld' /\ TurnsRun'
    BY <1>1, <1>2, <2>1, <2>2 DEF InlinesHeld, TurnsRun, Streaming
  <2> QED
    BY <2>3, <2>4
<1> QED
  BY <1>4, <1>5

(* A message, or a relayed output, reaches its recipient.                    *)
LEMMA MessageHolds ==
  ASSUME HoldsInv, NEW a \in Agents,
         Deliver(a) \/ \E d \in due[a] : Relay(a, d)
  PROVE  HoldsFit' /\ HoldsAreOwed' /\ InlinesHeld' /\ TurnsRun'
<1>1. Kinds /\ MarksType /\ SendsType
  BY DEF HoldsInv, TypesInv, MarksInv
<1>2. CASE Deliver(a)
  <2>1. PICK to \in Agents, id \in Nat : to = sending[a].to /\ id = sending[a].id
    BY <1>1, <1>2 DEF Deliver, SendsType, Sends
  <2>2. PICK asks \in BOOLEAN :
        /\ HandOver(a, to, asks) /\ UNCHANGED <<driven, obs>>
        /\ lastDirect' \in {lastDirect, record(lastDirect, a, to, id)}
    BY <1>2, <2>1 DEF Deliver
  <2>3. \A w, x \in Agents : x # to => lastDirect'[<<w, x>>] = lastDirect[<<w, x>>]
    <3> SUFFICES ASSUME NEW w \in Agents, NEW x \in Agents, x # to
                 PROVE  lastDirect'[<<w, x>>] = lastDirect[<<w, x>>]
      OBVIOUS
    <3>1. PICK p \in Pairs : p = <<w, x>>
      BY DEF Pairs
    <3>2. p # <<a, to>>
      BY <3>1
    <3>3. lastDirect \in [Pairs -> Nat]
      BY <1>1 DEF MarksType
    <3>4. lastDirect'[p] = lastDirect[p]
      BY <2>2, <3>2, <3>3, Recorded
    <3> QED
      BY <3>1, <3>4
  <2> QED
    BY <2>2, <2>3, HandOverHolds
<1>3. ASSUME NEW d \in due[a], Relay(a, d)
      PROVE  HoldsFit' /\ HoldsAreOwed' /\ InlinesHeld' /\ TurnsRun'
  <2>1. PICK to \in Agents : to = d.to
    BY <1>1 DEF Kinds, Dues
  <2>2. HandOver(a, to, FALSE) /\ UNCHANGED <<driven, obs, lastDirect>>
    BY <1>3, <2>1 DEF Relay
  <2> QED
    BY <2>2, HandOverHolds
<1> QED
  BY <1>2, <1>3

-----------------------------------------------------------------------------
(* The ends of turns.                                                        *)
LEMMA TurnHolds ==
  ASSUME HoldsInv, NEW a \in Agents, TurnOver(a)
  PROVE  HoldsFit' /\ HoldsAreOwed' /\ InlinesHeld' /\ TurnsRun'
<1>1. /\ Kinds /\ Placed /\ HoldsFit /\ HoldsAreOwed /\ InlinesHeld /\ TurnsRun
  BY DEF HoldsInv, TypesInv
<1>2. /\ mode[a] = "closing" /\ driven[a] = "no" /\ hold[a] = {}
      /\ turn[a] # None => obs[a] = None
      /\ UNCHANGED <<hold, driven, lastDirect>>
  BY <1>1 DEF TurnOver, marks, Placed
<1>3. /\ obs'[a] = IF turn[a] = None THEN obs[a] ELSE turn[a]
      /\ \A x \in Agents \ {a} : obs'[x] = obs[x] /\ turn'[x] = turn[x]
  BY <1>1 DEF TurnOver, Kinds
<1>4. /\ mode' = [mode EXCEPT ![a] = "run"] \/ mode' = [mode EXCEPT ![a] = "idle"]
      /\ mode' # [mode EXCEPT ![a] = "run"] => turn'[a] = None
  BY <1>1 DEF TurnOver, Kinds
<1>5. /\ \A x \in Agents \ {a} : mode'[x] = mode[x]
      /\ turn'[a] # None => mode'[a] = "run"
  BY <1>1, <1>4 DEF Kinds
<1>6. \A c \in Agents : OwedStill(c)
  <2>1. OwedStill(a)
    BY <1>2, <1>3 DEF OwedStill, HasJob
  <2> QED
    BY <1>2, <1>3, <2>1, OwedSame
<1>7. HoldsFit' /\ HoldsAreOwed'
  BY <1>1, <1>2, <1>5, <1>6, HoldsKept, Awaited
<1>8. InlinesHeld'
  BY <1>1, <1>2, <1>5 DEF InlinesHeld
<1>9. TurnsRun'
  BY <1>1, <1>2, <1>3, <1>5 DEF TurnsRun, Streaming
<1> QED
  BY <1>7, <1>8, <1>9

(* A job of a settles: a wait of its parent for jobs ends, an inline block   *)
(* waits for another agent.                                                  *)
LEMMA JobHolds ==
  ASSUME HoldsInv, NEW a \in Agents, NEW p \in Agents, p = Parent[a], p # a,
         JobSettles(a), turn' = [turn EXCEPT ![p] = Continuation(p)],
         mode'[p] = Continued(p),
         \A x \in Agents \ {a, p} : mode'[x] = mode[x],
         \A x \in Agents \ {a} : driven'[x] = driven[x] /\ obs'[x] = obs[x],
         driven[a] = "inline" <=> driven'[a] = "inline",
         hold[a] = {} \/ mode'[a] = mode[a],
         mode[a] = "inline" => mode'[a] = "inline",
         turn[a] # None => driven'[a] = driven[a] /\ mode'[a] = mode[a]
  PROVE  HoldsFit' /\ HoldsAreOwed' /\ InlinesHeld' /\ TurnsRun'
<1>1. /\ Kinds /\ Placed /\ HoldsFit /\ HoldsAreOwed /\ InlinesHeld /\ TurnsRun
  BY DEF HoldsInv, TypesInv
<1>2. /\ UNCHANGED lastDirect
      /\ hold'[p] = IF mode[p] = "jobs" THEN {} ELSE hold[p]
      /\ \A x \in Agents \ {p} : hold'[x] = hold[x]
  BY <1>1 DEF JobSettles, Kinds
<1>3. /\ turn'[p] # None => driven[p] = "no" /\ mode'[p] \in {"run", "closing", "inline"}
      /\ turn[p] # None => turn'[p] = turn[p]
      /\ \A x \in Agents \ {p} : turn'[x] = turn[x]
  BY <1>1 DEF Kinds, Continuation, Continued, Monitored, TurnsRun, Streaming
<1>4. \A c \in Agents \ {a} : OwedStill(c)
  BY <1>3 DEF OwedStill, HasJob
<1>5. Held(p)'
  <2>1. CASE hold'[p] = {}
    BY <2>1 DEF Held
  <2>2. CASE hold'[p] # {}
    <3>1. hold'[p] = hold[p] /\ mode[p] = "inline" /\ mode'[p] = "inline"
      BY <1>1, <1>2, <2>2 DEF Placed, Continued
    <3>2. \A h \in hold[p] : /\ hold[p] = {h} /\ ~h.interruptible
                            /\ h.awaited \subseteq Agents
                            /\ \A c \in h.awaited : Parent[c] = p /\ driven[c] = "inline"
      BY <1>1, <3>1, Awaited DEF HoldsFit, HoldsAreOwed
    <3>3. \A c \in Agents : driven[c] = "inline" => driven'[c] = "inline"
      OBVIOUS
    <3> QED
      BY <3>1, <3>2, <3>3 DEF Held
  <2> QED
    BY <2>1, <2>2
<1>6. ASSUME NEW x \in Agents \ {p} PROVE Held(x)'
  <2>1. Held(x) /\ \A h \in hold[x] : h.awaited \subseteq Agents
    BY <1>1, AllHeld, Awaited
  <2>2. \/ hold'[x] = {}
        \/ /\ hold'[x] = hold[x] /\ mode'[x] = mode[x]
           /\ \A c \in Agents : Parent[c] = x => OwedStill(c)
    BY <1>2, <1>4
  <2> QED
    BY <1>2, <2>1, <2>2, HeldStill
<1>7. HoldsFit' /\ HoldsAreOwed'
  BY <1>5, <1>6 DEF HoldsFit, HoldsAreOwed, Held
<1>8. InlinesHeld'
  <2>1. \A x \in Agents : mode[x] = "inline" => mode'[x] = "inline"
    BY DEF Continued
  <2>2. \A c \in Agents : driven'[c] = "inline" => driven[c] = "inline"
    OBVIOUS
  <2> QED
    BY <1>1, <2>1, <2>2 DEF InlinesHeld
<1>9. TurnsRun'
  BY <1>1, <1>3 DEF TurnsRun, Streaming
<1> QED
  BY <1>7, <1>8, <1>9

LEMMA DrivenHolds ==
  ASSUME HoldsInv, NEW a \in Agents, DrivenOver(a)
  PROVE  HoldsFit' /\ HoldsAreOwed' /\ InlinesHeld' /\ TurnsRun'
<1>1. /\ Kinds /\ RootApart /\ Placed /\ HoldsFit /\ HoldsAreOwed /\ InlinesHeld
      /\ TurnsRun
  BY DEF HoldsInv, TypesInv
<1>2. /\ mode[a] = "closing" /\ driven[a] # "no" /\ hold[a] = {} /\ turn[a] = None
      /\ driven' = [driven EXCEPT ![a] = "no"] /\ UNCHANGED obs
  BY <1>1 DEF DrivenOver, Placed, TurnsRun
<1>3. /\ driven'[a] = "no"
      /\ \A x \in Agents \ {a} : driven'[x] = driven[x]
  BY <1>1, <1>2 DEF Kinds
<1>4. PICK p \in Agents : p = Parent[a] /\ p # a
  <2>1. a # Root
    BY <1>1, <1>2 DEF RootApart
  <2>2. Parent[a] \in Agents
    BY <2>1, TreeAssumption
  <2> QED
    BY <2>2, UpChild
<1>5. PICK next \in {"idle", "closing"} : next = IF queue[a] = {} THEN "idle" ELSE "closing"
  OBVIOUS
<1>6. CASE driven[a] = "async"
  <2>1. /\ JobSettles(a)
        /\ mode' = [mode EXCEPT ![a] = next, ![p] = Continued(p)]
        /\ turn' = [turn EXCEPT ![p] = Continuation(p)]
    BY <1>4, <1>5, <1>6 DEF DrivenOver
  <2>2. /\ mode'[p] = Continued(p)
        /\ \A x \in Agents \ {a, p} : mode'[x] = mode[x]
    BY <1>1, <1>4, <2>1 DEF Kinds
  <2> QED
    BY <1>2, <1>3, <1>4, <1>6, <2>1, <2>2, JobHolds
<1>7. CASE driven[a] = "inline"
  <2>1. /\ mode' = [mode EXCEPT ![a] = next, ![p] = "run"]
        /\ hold' = [hold EXCEPT ![p] = {}]
        /\ UNCHANGED <<turn, lastDirect>>
    BY <1>4, <1>5, <1>7 DEF DrivenOver, marks
  <2>2. /\ mode'[p] = "run" /\ hold'[p] = {}
        /\ \A x \in Agents \ {a, p} : mode'[x] = mode[x]
        /\ \A x \in Agents \ {p} : hold'[x] = hold[x]
    BY <1>1, <1>4, <2>1 DEF Kinds
  <2>3. mode[p] = "inline" /\ \A c \in Agents : driven[c] = "inline" /\ Parent[c] = p => c = a
    BY <1>1, <1>4, <1>7 DEF InlinesHeld
  <2>4. \A c \in Agents \ {a} : OwedStill(c)
    BY <1>2, <1>3, <2>1, OwedSame
  <2>5. \A x \in Agents :
           \/ hold'[x] = {}
           \/ /\ hold'[x] = hold[x] /\ mode'[x] = mode[x]
              /\ \A c \in Agents : Parent[c] = x => OwedStill(c)
    BY <1>2, <1>4, <2>2, <2>4
  <2>6. HoldsFit' /\ HoldsAreOwed'
    BY <1>1, <2>1, <2>5, HoldsKept, Awaited
  <2>7. InlinesHeld'
    <3>1. \A c \in Agents : driven'[c] = "inline" =>
             driven[c] = "inline" /\ Parent[c] \in Agents \ {a, p}
      BY <1>1, <1>2, <1>3, <2>3 DEF InlinesHeld
    <3> QED
      BY <1>1, <2>2, <3>1 DEF InlinesHeld
  <2>8. TurnsRun'
    BY <1>1, <1>2, <1>3, <2>1, <2>2 DEF TurnsRun, Streaming
  <2> QED
    BY <2>6, <2>7, <2>8
<1> QED
  BY <1>1, <1>2, <1>6, <1>7 DEF Kinds

LEMMA CloseHolds ==
  ASSUME HoldsInv, NEW a \in Agents, CloseObservation(a)
  PROVE  HoldsFit' /\ HoldsAreOwed' /\ InlinesHeld' /\ TurnsRun'
<1>1. /\ Kinds /\ RootApart /\ Placed /\ HoldsFit /\ HoldsAreOwed /\ InlinesHeld
      /\ TurnsRun
  BY DEF HoldsInv, TypesInv
<1>2. /\ obs[a] # None /\ UNCHANGED driven
      /\ \A x \in Agents \ {a} : obs'[x] = obs[x]
  BY <1>1 DEF CloseObservation, Kinds
<1>3. PICK p \in Agents : p = Parent[a] /\ p # a
  <2>1. a # Root
    BY <1>1, <1>2 DEF RootApart
  <2>2. Parent[a] \in Agents
    BY <2>1, TreeAssumption
  <2> QED
    BY <2>2, UpChild
<1>4. CASE obs[a].owned
  <2>1. /\ JobSettles(a)
        /\ mode' = [mode EXCEPT ![p] = Continued(p)]
        /\ turn' = [turn EXCEPT ![p] = Continuation(p)]
    BY <1>3, <1>4 DEF CloseObservation
  <2>2. /\ mode'[p] = Continued(p)
        /\ \A x \in Agents \ {p} : mode'[x] = mode[x]
    BY <1>1, <2>1 DEF Kinds
  <2> QED
    BY <1>2, <1>3, <2>1, <2>2, JobHolds
<1>5. CASE ~obs[a].owned
  <2>1. UNCHANGED <<mode, turn, hold, lastDirect>>
    BY <1>5 DEF CloseObservation, marks
  <2>2. \A c \in Agents : OwedStill(c)
    <3>1. OwedStill(a)
      BY <1>2, <1>5, <2>1 DEF OwedStill, HasJob
    <3> QED
      BY <1>2, <2>1, <3>1, OwedSame
  <2>3. HoldsFit' /\ HoldsAreOwed'
    BY <1>1, <2>1, <2>2, HoldsKept, Awaited
  <2>4. InlinesHeld' /\ TurnsRun'
    BY <1>1, <1>2, <2>1 DEF InlinesHeld, TurnsRun, Streaming
  <2> QED
    BY <2>3, <2>4
<1> QED
  BY <1>4, <1>5

LEMMA HoldsNext == HoldsInv /\ [Next]_vars => HoldsInv'
<1> SUFFICES ASSUME HoldsInv, [Next]_vars PROVE HoldsInv'
  OBVIOUS
<1>1. TypesInv'
  BY TypesNext DEF HoldsInv
<1> SUFFICES HoldsFit' /\ HoldsAreOwed' /\ InlinesHeld' /\ TurnsRun'
  BY <1>1 DEF HoldsInv
<1>2. ASSUME NEW a \in Agents, Step(a)
      PROVE  HoldsFit' /\ HoldsAreOwed' /\ InlinesHeld' /\ TurnsRun'
  BY <1>2, SpawnHolds, AloneHolds, WaitHolds, MessageHolds, TurnHolds,
     DrivenHolds, CloseHolds DEF Step
<1>3. ASSUME NEW w \in Agents, checkReplies(w)
      PROVE  HoldsFit' /\ HoldsAreOwed' /\ InlinesHeld' /\ TurnsRun'
  BY <1>3, AloneHolds
<1>4. CASE UNCHANGED vars
  BY <1>4, StillHolds DEF vars, marks, turns
<1> QED
  BY <1>2, <1>3, <1>4 DEF Next

(* No block outlives what it waits for: every hold of AgentAwaits waits for  *)
(* children of the blocked agent that each still have a job, or the inline   *)
(* run, whose end releases the hold.                                         *)
THEOREM HoldsOwed == Spec => []HoldsAreOwed
<1>1. HoldsInv => HoldsAreOwed
  BY DEF HoldsInv
<1> QED
  BY HoldsInit, HoldsNext, <1>1, PTL DEF Spec

(* AgentAwaits.blocksOn reports an agent that was asked exactly when it and  *)
(* everyone between it and the asker is blocked on the next one alone, for   *)
(* any spawn tree: neither the visited path of #reaches nor the times that   *)
(* are compared change the answer.                                           *)
THEOREM BlocksExact == Spec => []BlockedIsParked
<1>1. HoldsInv => BlockedIsParked
  BY BlockedEnough DEF HoldsInv
<1> QED
  BY HoldsInit, HoldsNext, <1>1, PTL DEF Spec
===============================================================================
