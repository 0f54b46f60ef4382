-------------------------- MODULE DaemonRecordProofs ---------------------------
(***************************************************************************)
(* Unless one request has overtaken another (strayed), every armed         *)
(* relaunch timer is the one its record holds, and every process that      *)
(* lives is the one its record shows, for any number of requests and any   *)
(* specs.  The argument: a request that has stopped a record finds it      *)
(* stopped for as long as its generation lasts, since a stop forbids the   *)
(* settlement to relaunch; the reservation lets one start at a time put a  *)
(* new record over the old; and what is settled as gone, or was stopped,   *)
(* is without a process until its next generation.                         *)
(***************************************************************************)
EXTENDS DaemonRecord, FiniteSetTheorems, TLAPS

AfterStop == {"killing", "waiting", "opening", "reopening"}

RequestType ==
    [op : {"none", "start", "replace", "read", "stop", "restart", "detach"},
     pc : {"idle", "refreshing", "done"} \cup AfterStop,
     rec : {0} \cup Records, gen : Gens, kill : Gens \cup {None}]

Types ==
    /\ cur \in {0} \cup Records
    /\ recs \in [Records -> RecordType]
    /\ req \in [Requests -> RequestType]
    /\ strayed \in BOOLEAN

(* Records beyond the current one are not there, nor a process or a look at  *)
(* one.                                                                      *)
NoneBeyond ==
    /\ DOMAIN procs = Records
    /\ \A r \in Records : r > cur => recs[r] = NoRecord
    /\ \A r \in Records, g \in Gens : r > cur => procs[r][g] = "none"
    /\ \A s \in spawning : s.rec \in Records /\ s.gen \in Gens /\ s.rec <= cur

LooksWithin ==
    /\ DOMAIN look = Watchers
    /\ \A w \in Watchers : look[w].at # "idle" =>
          look[w].rec \in Records /\ look[w].rec <= cur

AsksWithin == \A q \in Requests : req[q].rec <= cur

Absent == NoneBeyond /\ LooksWithin /\ AsksWithin

(* What holds of a record by itself.                                         *)
Flags ==
    \A r \in Records :
        /\ recs[r].held => recs[r].armed > 0
        /\ recs[r].state = "stopping" => recs[r].stop

Known ==
    \A q \in Requests :
        /\ req[q].rec # 0 => req[q].gen <= recs[req[q].rec].gen
        /\ req[q].rec = 0 => req[q].pc \in {"idle", "opening", "done"}
        /\ req[q].pc = "opening" => Starting(q)

OneStart ==
    /\ reserved \in BOOLEAN
    /\ \A p, q \in Requests : Pending(p) /\ Pending(q) => p = q
    /\ \A q \in Requests : Pending(q) => reserved

(* A start of a new name has no record to stop, and none appears.            *)
StillNew == \A q \in Requests :
    req[q].pc = "opening" /\ req[q].rec = 0 => cur = 0

(* The records before the current one have ended.                            *)
Replaced == \A r \in Records : r < cur => Terminal(recs[r])

(* What a request has stopped stays stopped.                                 *)
StaysStopped == \A q \in Requests :
    req[q].pc \in AfterStop /\ req[q].rec # 0 /\ ~Overtaken(q) =>
        \/ Terminal(recs[req[q].rec])
        \/ recs[req[q].rec].state = "stopping" /\ req[q].pc # "opening"

OnTrack == HoldsTimers /\ Replaced /\ StillNew /\ StaysStopped

TimerInv ==
    /\ Types /\ Absent /\ Flags /\ Known /\ OneStart
    /\ strayed \/ OnTrack

-----------------------------------------------------------------------------
(* Records and generations are counted from one and from zero.               *)
LEMMA Counted == Records \subseteq Nat \ {0} /\ 1 \in Records /\ Gens \subseteq Nat /\ 0 \in Gens
<1>1. Cardinality(Requests) \in Nat
  BY FS_CardinalityType, DaemonRecordAssumption
<1> QED
  BY <1>1, DaemonRecordAssumption DEF Records, Gens

(* A settlement leaves a terminal record, or arms one timer where no stop    *)
(* forbids it.                                                               *)
LEMMA SettledFacts ==
  ASSUME NEW rec \in RecordType, NEW bad \in BOOLEAN,
         NEW new, new = SettledWith(rec, bad)
  PROVE  /\ new \in RecordType
         /\ new.gen = rec.gen /\ new.stop = rec.stop
         /\ \/ Terminal(new) /\ new.held = rec.held /\ new.armed = rec.armed
            \/ /\ ~rec.stop /\ new.state = "restarting"
               /\ new.held /\ new.armed = rec.armed + 1
<1> DEFINE gone == [rec EXCEPT !.own = None, !.pid = None]
           waits == [gone EXCEPT !.state = "restarting", !.held = TRUE, !.armed = @ + 1]
           ended == [gone EXCEPT !.state = IF bad /\ ~rec.stop THEN "failed" ELSE "exited"]
<1>0. rec.armed + 1 \in Nat
  BY DEF RecordType
<1>1. /\ gone \in RecordType /\ gone.gen = rec.gen /\ gone.stop = rec.stop
      /\ gone.held = rec.held /\ gone.armed = rec.armed
  BY DEF RecordType
<1>2. /\ waits \in RecordType /\ waits.gen = rec.gen /\ waits.stop = rec.stop
      /\ waits.state = "restarting" /\ waits.held /\ waits.armed = rec.armed + 1
  <2> HIDE DEF gone
  <2> QED
    BY <1>0, <1>1 DEF RecordType
<1>3. /\ ended \in RecordType /\ ended.gen = rec.gen /\ ended.stop = rec.stop
      /\ ended.state \in {"exited", "failed"}
      /\ ended.held = rec.held /\ ended.armed = rec.armed
  BY <1>1 DEF RecordType
<1>4. CASE Restarts(rec, bad)
  <2>1. new = waits
    BY <1>4 DEF SettledWith
  <2> QED
    BY <1>2, <1>4, <2>1 DEF Restarts
<1>5. CASE ~Restarts(rec, bad)
  <2>1. new = ended
    BY <1>5 DEF SettledWith
  <2> QED
    BY <1>3, <2>1 DEF Terminal
<1> QED
  BY <1>4, <1>5

(* A stop takes the timer that is held, or asks the record to stop.          *)
LEMMA StoppedFacts ==
  ASSUME NEW rec \in RecordType, rec.held => rec.armed > 0,
         NEW new, new = Stopped(rec)
  PROVE  /\ new \in RecordType
         /\ new.gen = rec.gen /\ new.stop /\ ~new.held
         /\ new.armed = IF rec.held THEN rec.armed - 1 ELSE rec.armed
         /\ new.state = IF rec.held THEN "exited" ELSE "stopping"
<1>1. rec.armed \in Nat /\ (rec.held => rec.armed - 1 \in Nat) /\ rec.held \in BOOLEAN
  BY DEF RecordType
<1>2. CASE rec.held
  BY <1>1, <1>2 DEF Stopped, RecordType
<1>3. CASE ~rec.held
  BY <1>1, <1>3 DEF Stopped, RecordType
<1> QED
  BY <1>1, <1>2, <1>3

(* A launch opens the next generation of its record; a spawn that throws     *)
(* settles it at once.                                                       *)
LEMMA LaunchFacts ==
  ASSUME NEW r \in Records, NEW rec \in RecordType, Launch(r, rec)
  PROVE  \E new \in RecordType :
           /\ recs' = [recs EXCEPT ![r] = new]
           /\ new.gen = rec.gen + 1 /\ new.gen \in Gens
           /\ new.state # "stopping"
           /\ \/ new.held = rec.held /\ new.armed = rec.armed
              \/ new.state = "restarting" /\ new.held /\ new.armed = rec.armed + 1
<1> DEFINE up == Launched(rec)
           on == [up EXCEPT !.own = up.gen, !.pid = up.gen]
<1>1. up.gen \in Gens
  BY DEF Launch
<1>2. /\ up \in RecordType /\ up.gen = rec.gen + 1 /\ up.state = "running"
      /\ up.held = rec.held /\ up.armed = rec.armed
  BY <1>1, Counted DEF Launched, RecordType
<1>3. /\ on \in RecordType /\ on.gen = up.gen /\ on.state = "running"
      /\ on.held = rec.held /\ on.armed = rec.armed
  BY <1>1, <1>2 DEF RecordType
<1>4. CASE recs' = [recs EXCEPT ![r] = up]
  BY <1>1, <1>2, <1>4
<1>5. CASE recs' = [recs EXCEPT ![r] = on]
  BY <1>1, <1>2, <1>3, <1>5
<1>6. CASE recs' = [recs EXCEPT ![r] = SettledWith(up, TRUE)]
  <2> DEFINE new == SettledWith(up, TRUE)
  <2>1. /\ new \in RecordType /\ new.gen = up.gen
        /\ \/ Terminal(new) /\ new.held = up.held /\ new.armed = up.armed
           \/ new.state = "restarting" /\ new.held /\ new.armed = up.armed + 1
    BY <1>2, SettledFacts
  <2>2. new.state # "stopping"
    BY <2>1 DEF Terminal
  <2> QED
    BY <1>1, <1>2, <1>6, <2>1, <2>2
<1> QED
  BY <1>4, <1>5, <1>6 DEF Launch

-----------------------------------------------------------------------------
(* The initial states: nothing, or one recovered daemon that runs.           *)
LEMMA TimerInit == Init => TimerInv
<1> SUFFICES ASSUME Init PROVE TimerInv
  OBVIOUS
<1>1. NoRecord \in RecordType /\ NoRequest \in RequestType
  BY Counted DEF NoRecord, NoRequest, RecordType, RequestType, None
<1>2. \A spec \in Specs :
         /\ Recovered(spec) \in RecordType
         /\ Recovered(spec).state = "running" /\ ~Recovered(spec).held
         /\ Recovered(spec).armed = 0 /\ Recovered(spec).gen = 0
  BY Counted, DaemonRecordAssumption DEF Recovered, Fresh, NoRecord, RecordType, None
<1>3. /\ \A q \in Requests : req[q].rec = 0 /\ req[q].pc = "idle" /\ ~Pending(q)
      /\ req \in [Requests -> RequestType] /\ strayed = FALSE /\ reserved = FALSE
      /\ spawning = {} /\ DOMAIN procs = Records /\ DOMAIN look = Watchers
      /\ \A w \in Watchers : look[w].at = "idle"
  BY <1>1 DEF Init, NothingThere, RecoveredThere, NoRequest, Pending, Idle
<1>4. /\ cur \in {0} \cup Records /\ cur >= 0
      /\ recs \in [Records -> RecordType]
      /\ \A r \in Records :
            /\ ~recs[r].held /\ recs[r].armed = 0 /\ recs[r].state # "stopping"
            /\ r > cur => recs[r] = NoRecord /\ \A g \in Gens : procs[r][g] = "none"
            /\ ~(r < cur)
  <2>1. CASE NothingThere
    BY <1>1, <2>1, Counted DEF NothingThere, NoRecord
  <2>2. CASE RecoveredThere
    <3>1. PICK spec \in Specs :
             recs = [r \in Records |-> IF r = 1 THEN Recovered(spec) ELSE NoRecord]
      BY <2>2 DEF RecoveredThere
    <3>2. \A r \in Records : recs[r] = IF r = 1 THEN Recovered(spec) ELSE NoRecord
      BY <3>1
    <3>3. /\ ~NoRecord.held /\ NoRecord.armed = 0 /\ NoRecord.state # "stopping"
      BY DEF NoRecord
    <3>4. cur = 1 /\ \A r \in Records : r > 1 => \A g \in Gens : procs[r][g] = "none"
      BY <2>2, Counted DEF RecoveredThere
    <3>5. recs \in [Records -> RecordType]
      BY <1>1, <1>2, <3>1
    <3>6. \A r \in Records : r > cur => recs[r] = NoRecord
      BY <3>2, <3>4, Counted
    <3>7. \A r \in Records :
             ~recs[r].held /\ recs[r].armed = 0 /\ recs[r].state # "stopping"
      BY <1>2, <3>2, <3>3
    <3> QED
      BY <3>4, <3>5, <3>6, <3>7, Counted
  <2> QED
    BY <2>1, <2>2 DEF Init
<1>5. Types /\ Absent /\ Flags /\ Known /\ OneStart
  BY <1>3, <1>4, Counted DEF Types, Absent, NoneBeyond, LooksWithin, AsksWithin, Flags, Known, OneStart
<1>6. OnTrack
  BY <1>3, <1>4 DEF OnTrack, HoldsTimers, Replaced, StillNew, StaysStopped, AfterStop
<1> QED
  BY <1>5, <1>6 DEF TimerInv

(* A step that changes one record within its generation, and no request.     *)
LEMMA RecordMoves ==
  ASSUME TimerInv, UNCHANGED <<cur, req, reserved>>, strayed' \in BOOLEAN,
         strayed => strayed', Absent',
         NEW r \in Records, NEW new \in RecordType,
         recs' = [recs EXCEPT ![r] = new],
         new.gen = recs[r].gen,
         new.held => new.armed > 0, new.state = "stopping" => new.stop,
         Terminal(recs[r]) => Terminal(new),
         recs[r].state = "stopping" => new.state = "stopping" \/ Terminal(new),
         OnTrack => /\ new.armed = IF new.held THEN 1 ELSE 0
                    /\ new.held => new.state = "restarting" /\ r = cur
  PROVE  TimerInv'
<1> USE DEF TimerInv
<1>1. Types'
  BY DEF Types
<1>2. Flags' /\ Known' /\ OneStart'
  BY DEF Types, Flags, Known, OneStart, Pending, Starting, RequestType
<1>3. ASSUME OnTrack PROVE OnTrack'
  <2>1. HoldsTimers'
    BY <1>3 DEF OnTrack, HoldsTimers, Types
  <2>2. Replaced' /\ StillNew'
    BY <1>3 DEF OnTrack, Replaced, StillNew, Types, Terminal
  <2>3. StaysStopped'
    BY <1>3 DEF OnTrack, StaysStopped, Overtaken, Types, Terminal, RequestType
  <2> QED
    BY <2>1, <2>2, <2>3 DEF OnTrack
<1> QED
  BY <1>1, <1>2, <1>3 DEF Types

(* A step that settles one generation, if it does.                           *)
LEMMA SettleMoves ==
  ASSUME TimerInv, UNCHANGED <<cur, req, reserved, strayed>>, Absent',
         NEW r \in Records, r <= cur, NEW gen, NEW bad \in BOOLEAN,
         SettleNow(r, gen, bad)
  PROVE  TimerInv'
<1> DEFINE new == IF Settles(recs[r], gen) THEN SettledWith(recs[r], bad) ELSE recs[r]
<1>1. recs[r] \in RecordType /\ recs \in [Records -> RecordType] /\ strayed' \in BOOLEAN
  BY DEF TimerInv, Types
<1>2. recs' = [recs EXCEPT ![r] = new]
  BY <1>1 DEF SettleNow
<1>3. CASE Settles(recs[r], gen)
  <2>1. /\ new \in RecordType
        /\ new.gen = recs[r].gen /\ new.stop = recs[r].stop
        /\ \/ Terminal(new) /\ new.held = recs[r].held /\ new.armed = recs[r].armed
           \/ /\ ~recs[r].stop /\ new.state = "restarting"
              /\ new.held /\ new.armed = recs[r].armed + 1
    BY <1>1, <1>3, SettledFacts
  <2>2. ~Terminal(recs[r]) /\ recs[r].state # "restarting"
    BY <1>3 DEF Settles, Settled
  <2>3. recs[r].state = "stopping" => recs[r].stop
    BY DEF TimerInv, Flags
  <2>4. recs[r].armed \in Nat /\ (recs[r].held => recs[r].armed > 0)
    BY <1>1 DEF TimerInv, Flags, RecordType
  <2>5. OnTrack => r = cur /\ ~recs[r].held /\ recs[r].armed = 0
    BY <2>2, Counted DEF OnTrack, Replaced, HoldsTimers, TimerInv, Types
  <2> HIDE DEF new
  <2>6. new.state = "stopping" => new.stop
    BY <2>1, <2>3 DEF Terminal
  <2>7. recs[r].state = "stopping" => new.state = "stopping" \/ Terminal(new)
    BY <2>1, <2>3
  <2>8. new.held => new.armed > 0
    <3>1. CASE new.held = recs[r].held /\ new.armed = recs[r].armed
      BY <2>4, <3>1
    <3>2. CASE new.armed = recs[r].armed + 1
      BY <2>4, <3>2
    <3> QED
      BY <2>1, <3>1, <3>2
  <2>9. OnTrack => /\ new.armed = IF new.held THEN 1 ELSE 0
                   /\ new.held => new.state = "restarting" /\ r = cur
    BY <2>1, <2>5
  <2> QED
    BY <1>1, <1>2, <2>1, <2>2, <2>6, <2>7, <2>8, <2>9, RecordMoves
<1>4. CASE ~Settles(recs[r], gen)
  <2>1. new = recs[r]
    BY <1>4
  <2>2. /\ new.held => new.armed > 0
        /\ new.state = "stopping" => new.stop
        /\ OnTrack => /\ new.armed = IF new.held THEN 1 ELSE 0
                      /\ new.held => new.state = "restarting" /\ r = cur
    BY <2>1 DEF TimerInv, Flags, OnTrack, HoldsTimers
  <2> HIDE DEF new
  <2> QED
    BY <1>1, <1>2, <2>1, <2>2, RecordMoves
<1> QED
  BY <1>3, <1>4

(* The steps of processes, of the monitor and of reads.                      *)
LEMMA OutsideMoves ==
  ASSUME TimerInv,
         \/ \E r \in Records, g \in Gens : Process(r, g)
         \/ \E w \in Watchers : Refresh(w)
         \/ MonitorLooks
         \/ \E s \in spawning : Spawn(s)
  PROVE  TimerInv'
<1>1. /\ cur \in {0} \cup Records /\ recs \in [Records -> RecordType] /\ Absent
      /\ strayed \in BOOLEAN
      /\ "monitor" \in Watchers
  BY DEF TimerInv, Types, Watchers
<1>2. ASSUME UNCHANGED <<cur, recs, req, reserved>>, strayed' \in BOOLEAN,
             strayed => strayed', Absent'
      PROVE  TimerInv'
  <2>1. Types' /\ Flags' /\ Known' /\ OneStart'
    BY <1>2 DEF TimerInv, Types, Flags, Known, OneStart, Pending, Starting
  <2>2. OnTrack => OnTrack'
    BY <1>2 DEF OnTrack, HoldsTimers, Replaced, StillNew, StaysStopped, Overtaken
  <2> QED
    BY <1>1, <1>2, <2>1, <2>2 DEF TimerInv
<1>3. ASSUME NEW r \in Records, NEW g \in Gens, ProcExit(r, g) PROVE TimerInv'
  <2>1. Absent'
    BY <1>1, <1>3 DEF ProcExit, Absent, NoneBeyond, LooksWithin, AsksWithin
  <2> QED
    BY <1>1, <1>2, <1>3, <2>1 DEF ProcExit
<1>4. ASSUME NEW r \in Records, NEW g \in Gens, ExitHeard(r, g) PROVE TimerInv'
  <2>1. r <= cur
    BY <1>1, <1>4, Counted DEF ExitHeard, Absent, NoneBeyond
  <2>2. CASE UNCHANGED recs /\ strayed' = strayed
    <3>1. Absent'
      BY <1>1, <1>4, <2>2 DEF ExitHeard, Absent, NoneBeyond, LooksWithin, AsksWithin
    <3> QED
      BY <1>1, <1>2, <1>4, <2>2, <3>1 DEF ExitHeard
  <2>3. CASE \E bad \in BOOLEAN : SettleNow(r, g, bad)
    <3>1. PICK bad \in BOOLEAN : SettleNow(r, g, bad)
      BY <2>3
    <3>2. Absent'
      BY <1>1, <1>4, <2>1, <3>1, Counted DEF ExitHeard, Absent, NoneBeyond, LooksWithin, AsksWithin, SettleNow
    <3> QED
      BY <1>4, <2>1, <3>1, <3>2, SettleMoves DEF ExitHeard
  <2> QED
    BY <1>4, <2>2, <2>3 DEF ExitHeard
<1>5. ASSUME NEW r \in Records, NEW g \in Gens, ExitSettles(r, g) PROVE TimerInv'
  <2>1. r <= cur
    BY <1>1, <1>5, Counted DEF ExitSettles, Absent, NoneBeyond
  <2>2. PICK bad \in BOOLEAN : SettleNow(r, g, bad)
    BY <1>5 DEF ExitSettles
  <2>3. Absent'
    BY <1>1, <1>5, <2>1, <2>2, Counted DEF ExitSettles, Absent, NoneBeyond, LooksWithin, AsksWithin, SettleNow
  <2> QED
    BY <1>5, <2>1, <2>2, <2>3, SettleMoves DEF ExitSettles
<1>6. ASSUME NEW w \in Watchers, Look(w) PROVE TimerInv'
  <2>1. strayed' \in BOOLEAN /\ (strayed => strayed')
    BY <1>1, <1>6 DEF Look, Strays
  <2>2. /\ look[w].rec \in Records /\ look[w].rec <= cur
        /\ DOMAIN look' = Watchers
        /\ \A v \in Watchers : v # w => look'[v] = look[v]
        /\ look'[w].at # "idle" => look'[w].rec = look[w].rec
    BY <1>1, <1>6 DEF Look, Absent, LooksWithin, Idle
  <2>3. UNCHANGED <<cur, recs, procs, spawning, req>>
    BY <1>6 DEF Look
  <2>4. \A v \in Watchers : look'[v].at # "idle" =>
           look'[v].rec \in Records /\ look'[v].rec <= cur
    BY <1>1, <2>2 DEF Absent, LooksWithin
  <2>5. NoneBeyond' /\ AsksWithin'
    BY <1>1, <2>3 DEF Absent, NoneBeyond, AsksWithin
  <2>6. LooksWithin'
    BY <2>2, <2>3, <2>4 DEF LooksWithin
  <2>7. Absent'
    BY <2>5, <2>6 DEF Absent
  <2> QED
    BY <1>2, <1>6, <2>1, <2>7 DEF Look
<1>7. ASSUME NEW w \in Watchers, LookSettles(w) PROVE TimerInv'
  <2> DEFINE r == look[w].rec
  <2>1. r \in Records /\ r <= cur
    BY <1>1, <1>7 DEF LookSettles, Absent, LooksWithin
  <2>2. SettleNow(r, look[w].gen, FALSE)
    BY <1>7 DEF LookSettles
  <2>3. Absent'
    <3>1. NoneBeyond'
      <4>1. UNCHANGED <<cur, procs, spawning>>
        BY <1>7 DEF LookSettles
      <4>2. \A s \in Records : s # r => recs'[s] = recs[s]
        BY <1>1, <2>2 DEF SettleNow
      <4> HIDE DEF r
      <4>3. \A s \in Records : s > cur => s # r
        BY <1>1, <2>1, Counted
      <4>4. \A s \in Records : s > cur' => recs'[s] = NoRecord
        BY <1>1, <4>1, <4>2, <4>3 DEF Absent, NoneBeyond
      <4>5. /\ DOMAIN procs' = Records
            /\ \A s \in Records, g \in Gens : s > cur' => procs'[s][g] = "none"
            /\ \A s \in spawning' : s.rec \in Records /\ s.gen \in Gens /\ s.rec <= cur'
        BY <1>1, <4>1 DEF Absent, NoneBeyond
      <4> QED
        BY <4>4, <4>5 DEF NoneBeyond
    <3>2. LooksWithin' /\ AsksWithin'
      BY <1>1, <1>7 DEF LookSettles, Absent, LooksWithin, AsksWithin, Idle
    <3> QED
      BY <3>1, <3>2 DEF Absent
  <2> QED
    BY <1>7, <2>1, <2>2, <2>3, SettleMoves DEF LookSettles
<1>8. ASSUME MonitorLooks PROVE TimerInv'
  <2>1. cur >= 1
    BY <1>1, <1>8, Counted DEF MonitorLooks, Absent, NoneBeyond, NoRecord
  <2>2. Absent'
    BY <1>1, <1>8, <2>1, Counted DEF MonitorLooks, Absent, NoneBeyond, LooksWithin, AsksWithin, Looking, Idle
  <2> QED
    BY <1>1, <1>2, <1>8, <2>2 DEF MonitorLooks
<1>9. ASSUME NEW s \in spawning, Spawn(s) PROVE TimerInv'
  <2>1. s.rec \in Records /\ s.gen \in Gens /\ s.rec <= cur
    BY <1>1 DEF Absent, NoneBeyond
  <2>2. Absent'
    BY <1>1, <1>9, <2>1, Counted DEF Spawn, Absent, NoneBeyond, LooksWithin, AsksWithin
  <2>3. CASE UNCHANGED recs
    BY <1>1, <1>2, <1>9, <2>2, <2>3 DEF Spawn
  <2>4. CASE recs' = [recs EXCEPT ![s.rec].own = s.gen, ![s.rec].pid = s.gen]
    <3> DEFINE new == [recs[s.rec] EXCEPT !.own = s.gen, !.pid = s.gen]
    <3>1. recs[s.rec] \in RecordType
      BY <1>1, <2>1
    <3>2. /\ new \in RecordType /\ new.gen = recs[s.rec].gen
          /\ new.held = recs[s.rec].held /\ new.armed = recs[s.rec].armed
          /\ new.state = recs[s.rec].state /\ new.stop = recs[s.rec].stop
      BY <2>1, <3>1 DEF RecordType
    <3>3. recs' = [recs EXCEPT ![s.rec] = new]
      BY <1>1, <2>1, <2>4
    <3> HIDE DEF new
    <3>4. /\ new.held => new.armed > 0
          /\ new.state = "stopping" => new.stop
          /\ Terminal(recs[s.rec]) => Terminal(new)
          /\ OnTrack => /\ new.armed = IF new.held THEN 1 ELSE 0
                        /\ new.held => new.state = "restarting" /\ s.rec = cur
      BY <2>1, <3>2 DEF TimerInv, Flags, OnTrack, HoldsTimers, Terminal
    <3> QED
      BY <1>1, <1>9, <2>1, <2>2, <3>2, <3>3, <3>4, RecordMoves DEF Spawn
  <2> QED
    BY <1>9, <2>3, <2>4 DEF Spawn
<1> QED
  BY <1>3, <1>4, <1>5, <1>6, <1>7, <1>8, <1>9 DEF Process, Refresh

(* A step that changes one request and no record.                            *)
LEMMA RequestMoves ==
  ASSUME TimerInv, UNCHANGED <<cur, recs, strayed>>, Absent', OneStart',
         NEW q \in Requests, NEW new \in RequestType,
         req' = [req EXCEPT ![q] = new],
         new.rec # 0 => new.gen <= recs[new.rec].gen,
         new.rec = 0 => new.pc \in {"idle", "opening", "done"},
         new.pc = "opening" => new.op \in {"start", "replace"},
         new.pc = "opening" /\ new.rec = 0 => cur = 0,
         (OnTrack /\ new.pc \in AfterStop /\ new.rec # 0
             /\ recs[new.rec].gen = new.gen /\ new.rec = cur) =>
                \/ Terminal(recs[new.rec])
                \/ recs[new.rec].state = "stopping" /\ new.pc # "opening"
  PROVE  TimerInv'
<1> USE DEF TimerInv
<1>1. Types' /\ Flags'
  BY DEF Types, Flags
<1>2. Known'
  BY DEF Types, Known, Starting
<1>3. ASSUME OnTrack PROVE OnTrack'
  <2>1. HoldsTimers' /\ Replaced'
    BY <1>3 DEF OnTrack, HoldsTimers, Replaced
  <2>2. StillNew'
    BY <1>3 DEF OnTrack, StillNew, Types
  <2>3. StaysStopped'
    BY <1>3 DEF OnTrack, StaysStopped, Overtaken, Types
  <2> QED
    BY <2>1, <2>2, <2>3 DEF OnTrack
<1> QED
  BY <1>1, <1>2, <1>3

(* A launch of the current record, or of one that becomes it.  Without a     *)
(* stray the records before it have ended, and no start of a new name waits. *)
LEMMA LaunchMoves ==
  ASSUME TimerInv, Absent', OneStart', strayed' \in BOOLEAN, strayed => strayed',
         req' \in [Requests -> RequestType],
         \A p \in Requests : req'[p] \in {req[p], Done},
         cur' \in Records, cur <= cur',
         NEW r \in Records,
         NEW new \in RecordType, recs' = [recs EXCEPT ![r] = new],
         new.gen > recs[r].gen, new.state # "stopping",
         new.held => new.armed > 0,
         (~strayed' /\ OnTrack) =>
            /\ r = cur'
            /\ \A s \in Records : s < r => Terminal(recs[s])
            /\ new.armed = IF new.held THEN 1 ELSE 0
            /\ new.held => new.state = "restarting"
            /\ \A p \in Requests : req'[p].pc = "opening" => req'[p].rec # 0
  PROVE  TimerInv'
<1> USE DEF TimerInv
<1>1. Types'
  BY DEF Types
<1>2. Flags'
  BY DEF Types, Flags
<1>3. Done.rec = 0 /\ Done.pc = "done"
  BY DEF Done, NoRequest
<1>4. recs[r].gen \in Nat /\ new.gen \in Nat
  BY Counted DEF Types, RecordType
<1>5. \A p \in Requests : req[p].gen \in Nat /\ req[p].rec \in {0} \cup Records
  BY Counted DEF Types, RequestType
<1>6. \A s \in Records : recs[s].gen \in Nat /\ recs'[s] = IF s = r THEN new ELSE recs[s]
  BY Counted DEF Types, RecordType
<1>7. Known'
  <2> SUFFICES ASSUME NEW p \in Requests
               PROVE  /\ req'[p].rec # 0 => req'[p].gen <= recs'[req'[p].rec].gen
                      /\ req'[p].rec = 0 => req'[p].pc \in {"idle", "opening", "done"}
                      /\ req'[p].pc = "opening" => req'[p].op \in {"start", "replace"}
    BY DEF Known, Starting
  <2>1. CASE req'[p] = Done
    BY <1>3, <2>1
  <2>2. CASE req'[p] = req[p]
    BY <1>4, <1>5, <1>6, <2>2 DEF Known, Starting
  <2> QED
    BY <2>1, <2>2
<1>8. ASSUME OnTrack, ~strayed' PROVE OnTrack'
  <2>1. HoldsTimers'
    <3> SUFFICES ASSUME NEW s \in Records
                 PROVE  /\ recs'[s].armed = IF recs'[s].held THEN 1 ELSE 0
                        /\ recs'[s].held => recs'[s].state = "restarting" /\ s = cur'
      BY DEF HoldsTimers
    <3>1. CASE s = r
      BY <1>6, <1>8, <3>1
    <3>2. CASE s < r
      BY <1>6, <1>8, <3>2, Counted DEF OnTrack, HoldsTimers, Terminal
    <3>3. CASE s > r
      BY <1>8, <3>3 DEF Absent, NoneBeyond, NoRecord
    <3> QED
      BY <3>1, <3>2, <3>3, Counted
  <2>2. Replaced'
    BY <1>6, <1>8, Counted DEF Replaced
  <2>3. StillNew'
    BY <1>8 DEF StillNew
  <2>4. StaysStopped'
    <3> SUFFICES ASSUME NEW p \in Requests, req'[p].pc \in AfterStop, req'[p].rec # 0,
                        recs'[req'[p].rec].gen = req'[p].gen, req'[p].rec = cur'
                 PROVE  FALSE
      BY DEF StaysStopped, Overtaken
    <3>1. req'[p] = req[p]
      BY <1>3 DEF AfterStop
    <3>2. req[p].gen <= recs[req[p].rec].gen
      BY <3>1 DEF Known
    <3> QED
      BY <1>4, <1>5, <1>6, <1>8, <3>1, <3>2
  <2> QED
    BY <2>1, <2>2, <2>3, <2>4 DEF OnTrack
<1> QED
  BY <1>1, <1>2, <1>7, <1>8

-----------------------------------------------------------------------------
(* The steps of a request.  First those that leave the records alone.        *)
LEMMA Waiting ==
  ASSUME TimerInv, NEW q \in Requests
  PROVE  /\ StartArrives(q) => TimerInv'
         /\ RequestArrives(q) => TimerInv'
         /\ Answer(q) => TimerInv'
         /\ NothingToStop(q) => TimerInv'
         /\ Killed(q) => TimerInv'
         /\ WaitEnds(q) => TimerInv'
         /\ OpenFails(q) => TimerInv'
<1>1. /\ cur \in {0} \cup Records /\ recs \in [Records -> RecordType]
      /\ req \in [Requests -> RequestType] /\ req[q] \in RequestType
      /\ Absent /\ Known /\ OneStart /\ q \in Watchers
  BY DEF TimerInv, Types, Watchers
<1>2. /\ Done \in RequestType /\ Done.rec = 0 /\ Done.pc = "done"
      /\ Done.op = "none" /\ "done" \notin AfterStop
  BY Counted DEF Done, NoRequest, RequestType, None, AfterStop
<1>3. ASSUME UNCHANGED <<cur, recs, strayed>>, Absent', OneStart',
             req' = [req EXCEPT ![q] = Done]
      PROVE  TimerInv'
  BY <1>2, <1>3, RequestMoves
<1>4. ASSUME UNCHANGED <<cur, recs, spawning, procs, look>>,
             NEW new, req' = [req EXCEPT ![q] = new], new.rec \in {0, req[q].rec}
      PROVE  Absent'
  <2>1. NoneBeyond' /\ LooksWithin'
    BY <1>1, <1>4 DEF Absent, NoneBeyond, LooksWithin
  <2>2. AsksWithin'
    BY <1>1, <1>4, Counted DEF Absent, AsksWithin
  <2> QED
    BY <2>1, <2>2 DEF Absent
<1>5. ASSUME NEW r \in Records, r <= cur, cur' = cur, look' = [look EXCEPT ![q] = Looking(r)]
      PROVE  LooksWithin'
  <2>1. Looking(r).at = "idle" \/ Looking(r).rec = r
    BY DEF Looking, Idle
  <2>2. \A v \in Watchers : look'[v] = IF v = q THEN Looking(r) ELSE look[v]
    BY <1>1, <1>5 DEF Absent, LooksWithin
  <2>3. cur' = cur
    BY <1>5
  <2> HIDE DEF Looking
  <2> QED
    BY <1>1, <1>5, <2>1, <2>2, <2>3 DEF Absent, LooksWithin
<1>6. ASSUME NEW new, req' = [req EXCEPT ![q] = new],
             new.op \in {"start", "replace"} /\ new.pc \notin {"idle", "done"}
                => Pending(q) /\ reserved',
             reserved' \in BOOLEAN,
             reserved /\ ~reserved' => Pending(q) /\ ~(new.op \in {"start", "replace"} /\ new.pc \notin {"idle", "done"})
      PROVE  OneStart'
  BY <1>1, <1>6 DEF OneStart, Pending, Starting
<1>7. ASSUME StartArrives(q) PROVE TimerInv'
  <2>1. CASE StartRefused
    <3>1. req' = [req EXCEPT ![q] = Done] /\ UNCHANGED <<look, reserved>>
      BY <1>1, <1>7, <2>1 DEF StartArrives, StartRefused, OneStart
    <3>2. OneStart'
      BY <1>1, <1>2, <1>6, <3>1 DEF OneStart
    <3>3. Absent'
      BY <1>2, <1>4, <1>7, <3>1 DEF StartArrives
    <3> QED
      BY <1>3, <1>7, <3>1, <3>2, <3>3 DEF StartArrives
  <2>2. CASE ~StartRefused
    <3>1. PICK op \in {"start", "replace"} :
             req' = [req EXCEPT ![q] =
                       [op |-> op, rec |-> cur, gen |-> 0, kill |-> None,
                        pc |-> IF cur = 0 THEN "opening" ELSE "refreshing"]]
      BY <1>7, <2>2 DEF StartArrives
    <3> DEFINE new == [op |-> op, rec |-> cur, gen |-> 0, kill |-> None,
                       pc |-> IF cur = 0 THEN "opening" ELSE "refreshing"]
    <3>2. new \in RequestType /\ new.rec = cur /\ new.gen = 0 /\ new.op = op
          /\ new.pc = IF cur = 0 THEN "opening" ELSE "refreshing"
      BY <1>1, Counted DEF RequestType, AfterStop, None
    <3>3. req' = [req EXCEPT ![q] = new]
      BY <3>1
    <3> HIDE DEF new
    <3>4. OneStart'
      BY <1>1, <1>7, <2>2, <3>2, <3>3 DEF StartArrives, StartRefused, OneStart, Pending, Starting
    <3>5. LooksWithin'
      <4>1. CASE cur = 0
        BY <1>1, <1>7, <4>1 DEF StartArrives, Absent, LooksWithin
      <4>2. CASE cur # 0
        <5>1. cur \in Records /\ cur <= cur /\ look' = [look EXCEPT ![q] = Looking(cur)]
              /\ cur' = cur
          BY <1>1, <1>7, <2>2, <4>2, Counted DEF StartArrives
        <5> QED
          BY <1>5, <5>1
      <4> QED
        BY <4>1, <4>2
    <3>6. NoneBeyond' /\ AsksWithin'
      BY <1>1, <1>7, <3>2, <3>3, Counted DEF StartArrives, Absent, NoneBeyond, AsksWithin
    <3>7. cur # 0 => recs[cur].gen \in Nat
      <4>1. cur # 0 => recs[cur].gen \in Gens
        BY <1>1 DEF RecordType
      <4> QED
        BY <4>1, Counted
    <3>8. UNCHANGED <<cur, recs, strayed>>
      BY <1>7 DEF StartArrives
    <3>9. Absent'
      BY <3>5, <3>6 DEF Absent
    <3>10. /\ new.pc \notin AfterStop \/ new.rec = 0
           /\ new.rec # 0 => new.gen <= recs[new.rec].gen
           /\ new.rec = 0 => new.pc = "opening"
           /\ new.pc = "opening" => new.op \in {"start", "replace"} /\ cur = 0
      BY <3>2, <3>7 DEF AfterStop
    <3> QED
      BY <3>2, <3>3, <3>4, <3>8, <3>9, <3>10, RequestMoves
  <2> QED
    BY <2>1, <2>2
<1>8. ASSUME RequestArrives(q) PROVE TimerInv'
  <2>1. PICK op \in {"read", "stop", "restart", "detach"} :
           req' = [req EXCEPT ![q] = [op |-> op, rec |-> cur, gen |-> 0,
                                      kill |-> None, pc |-> "refreshing"]]
    BY <1>8 DEF RequestArrives
  <2> DEFINE new == [op |-> op, rec |-> cur, gen |-> 0, kill |-> None, pc |-> "refreshing"]
  <2>2. /\ new \in RequestType /\ new.rec = cur /\ new.op = op /\ new.gen = 0
        /\ new.pc = "refreshing" /\ req' = [req EXCEPT ![q] = new]
    BY <1>1, <2>1, Counted DEF RequestType, None
  <2> HIDE DEF new
  <2>3. /\ cur \in Records /\ cur <= cur /\ look' = [look EXCEPT ![q] = Looking(cur)]
        /\ UNCHANGED <<cur, recs, strayed, procs, spawning, reserved>> /\ ~Pending(q)
    BY <1>1, <1>8, Counted DEF RequestArrives, Pending
  <2>4. LooksWithin'
    BY <1>5, <2>3
  <2>5. NoneBeyond' /\ AsksWithin'
    BY <1>1, <2>2, <2>3, Counted DEF Absent, NoneBeyond, AsksWithin
  <2>6. OneStart'
    BY <1>1, <2>2, <2>3 DEF OneStart, Pending, Starting
  <2>7. recs[cur].gen \in Nat
    <3>1. recs[cur].gen \in Gens
      BY <1>1, <2>3 DEF RecordType
    <3> QED
      BY <3>1, Counted
  <2>8. Absent'
    BY <2>4, <2>5 DEF Absent
  <2>9. /\ new.pc \notin AfterStop /\ new.pc # "opening" /\ new.rec # 0
        /\ new.gen <= recs[new.rec].gen
    BY <2>2, <2>3, <2>7, Counted DEF AfterStop
  <2> QED
    BY <2>2, <2>3, <2>6, <2>8, <2>9, RequestMoves
<1>9. ASSUME UNCHANGED <<cur, recs, procs, spawning, look, strayed>>,
             req' = [req EXCEPT ![q] = Done], Releases(q), req[q].pc \notin {"idle", "done"}
      PROVE  TimerInv'
  <2>1. OneStart'
    BY <1>1, <1>2, <1>9 DEF Releases, OneStart, Pending, Starting
  <2>2. Absent'
    BY <1>2, <1>4, <1>9
  <2> QED
    BY <1>3, <1>9, <2>1, <2>2
<1>10. ASSUME Answer(q) PROVE TimerInv'
  BY <1>9, <1>10 DEF Answer, Refreshed, Goes
<1>11. ASSUME OpenFails(q) PROVE TimerInv'
  BY <1>9, <1>11 DEF OpenFails, Goes
<1>12. ASSUME UNCHANGED <<cur, recs, spawning, look, reserved, strayed>>, DOMAIN procs' = Records,
              \A r \in Records, g \in Gens : procs[r][g] = "none" => procs'[r][g] = "none",
              req[q].pc \in AfterStop \cup {"refreshing"},
              NEW pc \in AfterStop, NEW gen \in Gens, NEW kill \in Gens \cup {None},
              req' = [req EXCEPT ![q].pc = pc, ![q].gen = gen, ![q].kill = kill],
              req[q].rec # 0, gen <= recs[req[q].rec].gen,
              pc = "opening" => Starting(q),
              (OnTrack /\ recs[req[q].rec].gen = gen /\ req[q].rec = cur) =>
                 \/ Terminal(recs[req[q].rec])
                 \/ recs[req[q].rec].state = "stopping" /\ pc # "opening"
       PROVE  TimerInv'
  <2> DEFINE new == [req[q] EXCEPT !.pc = pc, !.gen = gen, !.kill = kill]
  <2>1. /\ new \in RequestType /\ new.rec = req[q].rec /\ new.op = req[q].op
        /\ new.pc = pc /\ new.gen = gen
    BY <1>1, <1>12 DEF RequestType
  <2>2. req' = [req EXCEPT ![q] = new]
    BY <1>1, <1>12
  <2> HIDE DEF new
  <2>3. OneStart'
    BY <1>1, <1>12, <2>1, <2>2 DEF OneStart, Pending, Starting, AfterStop
  <2>4. Absent'
    <3>1. NoneBeyond'
      BY <1>1, <1>12 DEF Absent, NoneBeyond
    <3>2. LooksWithin' /\ AsksWithin'
      BY <1>1, <1>12, <2>1, <2>2 DEF Absent, LooksWithin, AsksWithin
    <3> QED
      BY <3>1, <3>2 DEF Absent
  <2>5. UNCHANGED <<cur, recs, strayed>>
    BY <1>12
  <2>6. /\ new.rec # 0 /\ new.gen <= recs[new.rec].gen
        /\ new.pc = "opening" => new.op \in {"start", "replace"}
        /\ (OnTrack /\ new.pc \in AfterStop /\ new.rec # 0
              /\ recs[new.rec].gen = new.gen /\ new.rec = cur) =>
                 \/ Terminal(recs[new.rec])
                 \/ recs[new.rec].state = "stopping" /\ new.pc # "opening"
    BY <1>12, <2>1 DEF Starting
  <2> QED
    BY <2>1, <2>2, <2>3, <2>4, <2>5, <2>6, RequestMoves
<1>13. req[q].pc \notin {"idle", "opening", "done"} =>
          /\ req[q].rec \in Records /\ req[q].gen \in Gens
          /\ req[q].gen <= recs[req[q].rec].gen /\ recs[req[q].rec].gen \in Gens
          /\ recs[req[q].rec].gen <= recs[req[q].rec].gen
  <2>1. \A r \in Records : recs[r].gen \in Gens
    BY <1>1 DEF RecordType
  <2>2. /\ req[q].rec \in {0} \cup Records /\ req[q].gen \in Gens
        /\ req[q].rec # 0 => req[q].gen <= recs[req[q].rec].gen
        /\ req[q].rec = 0 => req[q].pc \in {"idle", "opening", "done"}
    BY <1>1 DEF Known, RequestType
  <2>3. \A g \in Gens : g <= g
    BY Counted
  <2>4. req[q].rec # 0 => recs[req[q].rec].gen \in Gens
    BY <2>1, <2>2
  <2> QED
    BY <2>2, <2>3, <2>4
<1>14. ASSUME NothingToStop(q) PROVE TimerInv'
  <2>1. req[q].pc = "refreshing" /\ Terminal(recs[req[q].rec])
        /\ UNCHANGED <<cur, recs, procs, spawning, look, reserved, strayed>>
    BY <1>14 DEF NothingToStop, Refreshed
  <2>2. CASE req[q].op = "stop"
    BY <1>1, <1>9, <1>14, <2>1, <2>2 DEF NothingToStop, Goes, Releases, Starting, OneStart
  <2>3. CASE req[q].op # "stop"
    <3> DEFINE pc == IF Starting(q) THEN "opening" ELSE "reopening"
               gen == recs[req[q].rec].gen
    <3>1. req' = [req EXCEPT ![q].pc = pc, ![q].gen = gen, ![q].kill = req[q].kill]
      BY <1>1, <1>14, <2>3 DEF NothingToStop, RequestType
    <3>2. pc \in AfterStop /\ gen \in Gens /\ gen <= gen
          /\ req[q].kill \in Gens \cup {None} /\ req[q].rec # 0
          /\ (pc = "opening" => Starting(q))
      BY <1>1, <1>13, <2>1, Counted DEF AfterStop, RequestType
    <3>3. DOMAIN procs' = Records
          /\ \A r \in Records, g \in Gens : procs[r][g] = "none" => procs'[r][g] = "none"
      BY <1>1, <2>1 DEF Absent, NoneBeyond
    <3> HIDE DEF pc
    <3> QED
      BY <1>12, <2>1, <3>1, <3>2, <3>3
  <2> QED
    BY <2>2, <2>3
<1>15. ASSUME Killed(q) PROVE TimerInv'
  <2>1. req[q].pc = "killing"
        /\ UNCHANGED <<cur, recs, spawning, look, reserved, strayed>>
    BY <1>15 DEF Killed
  <2>2. req' = [req EXCEPT ![q].pc = "waiting", ![q].gen = req[q].gen, ![q].kill = None]
    BY <1>1, <1>15 DEF Killed, RequestType
  <2>3. DOMAIN procs' = Records
        /\ \A r \in Records, g \in Gens : procs[r][g] = "none" => procs'[r][g] = "none"
    BY <1>1, <1>15 DEF Killed, Absent, NoneBeyond
  <2>4. (OnTrack /\ recs[req[q].rec].gen = req[q].gen /\ req[q].rec = cur) =>
           \/ Terminal(recs[req[q].rec])
           \/ recs[req[q].rec].state = "stopping"
    BY <1>13, <2>1, Counted DEF OnTrack, StaysStopped, Overtaken, AfterStop
  <2>5. "waiting" \in AfterStop /\ "killing" \in AfterStop /\ "waiting" # "opening"
    BY DEF AfterStop
  <2> QED
    BY <1>12, <1>13, <2>1, <2>2, <2>3, <2>4, <2>5, Counted
<1>16. ASSUME WaitEnds(q) PROVE TimerInv'
  <2> DEFINE throws == req[q].op = "replace" /\ ~Terminal(recs[req[q].rec])
  <2>1. /\ req[q].pc = "waiting" /\ reserved' = (reserved /\ ~throws)
        /\ UNCHANGED <<cur, recs, procs, spawning, look, strayed>>
    BY <1>16 DEF WaitEnds
  <2>2. CASE req[q].op = "stop" \/ throws
    <3>1. req' = [req EXCEPT ![q] = Done]
      BY <1>16, <2>2 DEF WaitEnds, Goes
    <3>2. Releases(q)
      <4>1. CASE throws
        BY <2>1, <4>1 DEF Releases, Starting
      <4>2. CASE ~throws
        BY <2>1, <2>2, <4>2 DEF Releases, Starting
      <4> QED
        BY <4>1, <4>2
    <3> QED
      BY <1>9, <2>1, <3>1, <3>2
  <2>3. CASE ~(req[q].op = "stop" \/ throws)
    <3> DEFINE pc == IF req[q].op = "replace" THEN "opening" ELSE "reopening"
    <3>1. req' = [req EXCEPT ![q].pc = pc, ![q].gen = req[q].gen, ![q].kill = req[q].kill]
      <4>1. req' = [req EXCEPT ![q].pc = pc]
        BY <1>16, <2>3 DEF WaitEnds, Goes
      <4> QED
        BY <1>1, <4>1 DEF RequestType
    <3>2. pc \in AfterStop /\ req[q].kill \in Gens \cup {None}
          /\ (pc = "opening" => Starting(q) /\ Terminal(recs[req[q].rec]))
      BY <1>1, <2>3 DEF AfterStop, RequestType, Starting
    <3>3. (OnTrack /\ recs[req[q].rec].gen = req[q].gen /\ req[q].rec = cur) =>
             \/ Terminal(recs[req[q].rec])
             \/ recs[req[q].rec].state = "stopping" /\ pc # "opening"
      <4>1. (OnTrack /\ recs[req[q].rec].gen = req[q].gen /\ req[q].rec = cur) =>
             \/ Terminal(recs[req[q].rec])
             \/ recs[req[q].rec].state = "stopping"
        BY <1>13, <2>1, Counted DEF OnTrack, StaysStopped, Overtaken, AfterStop
      <4> QED
        BY <3>2, <4>1
    <3>4. DOMAIN procs' = Records /\ reserved' = reserved
          /\ \A r \in Records, g \in Gens : procs[r][g] = "none" => procs'[r][g] = "none"
      BY <1>1, <2>1, <2>3 DEF Absent, NoneBeyond, OneStart
    <3>5. req[q].pc \in AfterStop /\ req[q].rec # 0
      BY <1>13, <2>1, Counted DEF AfterStop
    <3> HIDE DEF pc
    <3> QED
      BY <1>12, <1>13, <2>1, <3>1, <3>2, <3>3, <3>4, <3>5
  <2> QED
    BY <2>2, <2>3
<1> QED
  BY <1>7, <1>8, <1>10, <1>11, <1>14, <1>15, <1>16

(* A change of mode and a stop: a record within its generation, and the      *)
(* request that asked.                                                       *)
LEMMA BothMove ==
  ASSUME TimerInv, UNCHANGED <<cur, procs, spawning, reserved>>,
         strayed' \in BOOLEAN, strayed => strayed', LooksWithin',
         NEW q \in Requests, req[q].pc = "refreshing", NEW r, r = req[q].rec,
         NEW new \in RecordType, recs' = [recs EXCEPT ![r] = new],
         new.gen = recs[r].gen,
         new.held => new.armed > 0, new.state = "stopping" => new.stop,
         ~Terminal(recs[r]),
         recs[r].state = "stopping" => new.state = "stopping" \/ Terminal(new),
         OnTrack => /\ new.armed = IF new.held THEN 1 ELSE 0
                    /\ new.held => new.state = "restarting" /\ r = cur,
         NEW ask \in RequestType, req' = [req EXCEPT ![q] = ask],
         ask.rec = r, ask.gen <= recs[r].gen,
         Starting(q) <=> ask.op \in {"start", "replace"},
         \/ ask.pc = "refreshing"
         \/ /\ ask.pc \in {"waiting", "killing"}
            /\ new.state = "stopping" \/ Terminal(new)
  PROVE  TimerInv'
<1> USE DEF TimerInv
<1>1. r \in Records /\ r # 0 /\ r <= cur /\ cur \in {0} \cup Records
  BY Counted DEF Types, RequestType, Known, Absent, AsksWithin
<1>2. /\ recs \in [Records -> RecordType] /\ req \in [Requests -> RequestType]
      /\ \A s \in Records : recs'[s] = IF s = r THEN new ELSE recs[s]
      /\ \A p \in Requests : req'[p] = IF p = q THEN ask ELSE req[p]
  BY <1>1 DEF Types
<1>3. Types'
  BY <1>1, <1>2 DEF Types
<1>4. Absent'
  <2>1. NoneBeyond'
    BY <1>1, <1>2, Counted DEF Absent, NoneBeyond
  <2>2. AsksWithin'
    BY <1>1, <1>2 DEF Absent, AsksWithin
  <2> QED
    BY <2>1, <2>2 DEF Absent
<1>5. Flags'
  BY <1>2 DEF Flags
<1>6. Known'
  <2> SUFFICES ASSUME NEW p \in Requests
               PROVE  /\ req'[p].rec # 0 => req'[p].gen <= recs'[req'[p].rec].gen
                      /\ req'[p].rec = 0 => req'[p].pc \in {"idle", "opening", "done"}
                      /\ req'[p].pc = "opening" => req'[p].op \in {"start", "replace"}
    BY DEF Known, Starting
  <2>1. CASE p = q
    BY <1>1, <1>2, <2>1
  <2>2. CASE p # q
    <3>1. req[p].rec # 0 => req[p].rec \in Records
      BY <1>2 DEF RequestType
    <3> QED
      BY <1>1, <1>2, <2>2, <3>1 DEF Known, Starting
  <2> QED
    BY <2>1, <2>2
<1>7. OneStart'
  BY <1>2 DEF OneStart, Pending, Starting
<1>8. ASSUME OnTrack PROVE OnTrack'
  <2>1. HoldsTimers'
    BY <1>2, <1>8 DEF OnTrack, HoldsTimers
  <2>2. r = cur
    BY <1>1, <1>8, Counted DEF OnTrack, Replaced
  <2>3. Replaced'
    BY <1>1, <1>2, <1>8, <2>2, Counted DEF OnTrack, Replaced
  <2>4. StillNew'
    BY <1>2, <1>8 DEF OnTrack, StillNew
  <2>5. StaysStopped'
    <3> SUFFICES ASSUME NEW p \in Requests, req'[p].pc \in AfterStop, req'[p].rec # 0,
                        recs'[req'[p].rec].gen = req'[p].gen, req'[p].rec = cur
                 PROVE  \/ Terminal(recs'[cur])
                        \/ recs'[cur].state = "stopping" /\ req'[p].pc # "opening"
      BY DEF StaysStopped, Overtaken
    <3>1. CASE p = q
      BY <1>1, <1>2, <2>2, <3>1 DEF AfterStop
    <3>2. CASE p # q
      <4>1. recs[cur].state = "stopping" /\ req[p].pc # "opening"
        BY <1>2, <1>8, <2>2, <3>2 DEF OnTrack, StaysStopped, Overtaken
      <4> QED
        BY <1>1, <1>2, <2>2, <3>2, <4>1
    <3> QED
      BY <3>1, <3>2
  <2> QED
    BY <2>1, <2>3, <2>4, <2>5 DEF OnTrack
<1> QED
  BY <1>3, <1>4, <1>5, <1>6, <1>7, <1>8

(* A change of mode, and a stop of a record that has not ended.              *)
LEMMA Stopping ==
  ASSUME TimerInv, NEW q \in Requests
  PROVE  (Detach(q) \/ Stop(q)) => TimerInv'
<1> DEFINE r == req[q].rec
           rec == recs[r]
<1>1. /\ cur \in {0} \cup Records /\ recs \in [Records -> RecordType]
      /\ req \in [Requests -> RequestType] /\ req[q] \in RequestType
      /\ Absent /\ Known /\ Flags /\ q \in Watchers /\ strayed \in BOOLEAN
  BY DEF TimerInv, Types, Watchers
<1>2. ASSUME Detach(q) \/ Stop(q)
      PROVE  /\ req[q].pc = "refreshing" /\ r \in Records /\ r <= cur
             /\ rec \in RecordType /\ ~Terminal(rec)
             /\ rec.held => rec.armed > 0
             /\ rec.state = "stopping" => rec.stop
             /\ rec.gen \in Gens /\ req[q].gen \in Gens
             /\ req[q].gen <= rec.gen /\ rec.gen <= rec.gen
             /\ OnTrack => /\ rec.armed = IF rec.held THEN 1 ELSE 0
                           /\ rec.held => rec.state = "restarting" /\ r = cur
  <2>1. req[q].pc = "refreshing" /\ (~Terminal(rec) \/ req[q].op = "detach")
    BY <1>2 DEF Detach, Stop, Refreshed
  <2>2. r \in Records /\ r <= cur /\ req[q].gen \in Gens /\ req[q].gen <= rec.gen
    BY <1>1, <2>1 DEF Absent, AsksWithin, Known, RequestType
  <2>3. rec \in RecordType /\ rec.gen \in Gens
    BY <1>1, <2>2 DEF RecordType
  <2>4. ~Terminal(rec)
    BY <1>2 DEF Detach, Stop, Answered
  <2>5. rec.gen <= rec.gen
    <3>1. \A g \in Gens : g <= g
      BY Counted
    <3> HIDE DEF rec
    <3> QED
      BY <2>3, <3>1
  <2>6. /\ rec.held => rec.armed > 0
        /\ rec.state = "stopping" => rec.stop
    BY <1>1, <2>2 DEF Flags
  <2>7. OnTrack => /\ rec.armed = IF rec.held THEN 1 ELSE 0
                   /\ rec.held => rec.state = "restarting" /\ r = cur
    BY <2>2 DEF OnTrack, HoldsTimers
  <2> HIDE DEF rec, r
  <2> QED
    BY <2>1, <2>2, <2>3, <2>4, <2>5, <2>6, <2>7
<1>3. ASSUME Detach(q) PROVE TimerInv'
  <2> DEFINE new == [rec EXCEPT !.det = TRUE]
             ask == [req[q] EXCEPT !.op = "restart"]
  <2>1. /\ new \in RecordType /\ new.gen = rec.gen /\ new.held = rec.held
        /\ new.armed = rec.armed /\ new.state = rec.state /\ new.stop = rec.stop
    BY <1>2, <1>3 DEF RecordType
  <2>2. recs' = [recs EXCEPT ![r] = new]
    BY <1>3 DEF Detach
  <2>3. /\ ask \in RequestType /\ ask.rec = r /\ ask.gen = req[q].gen
        /\ ask.pc = req[q].pc /\ ask.op = "restart"
    BY <1>1 DEF RequestType
  <2>4. req' = [req EXCEPT ![q] = ask]
    BY <1>1, <1>3 DEF Detach
  <2>5. ~Starting(q) /\ UNCHANGED <<cur, procs, spawning, reserved, strayed>>
    BY <1>3 DEF Detach, Starting
  <2>6. LooksWithin'
    <3>1. look' = [look EXCEPT ![q] = Looking(r)']
      BY <1>3 DEF Detach
    <3>2. Looking(r)'.at = "idle" \/ Looking(r)'.rec = r'
      BY DEF Looking, Idle
    <3> QED
      BY <1>1, <1>2, <1>3, <2>3, <2>4, <2>5, <3>1, <3>2 DEF Absent, LooksWithin
  <2> HIDE DEF new, ask
  <2> QED
    BY <1>1, <1>2, <1>3, <2>1, <2>2, <2>3, <2>4, <2>5, <2>6, BothMove
<1>4. ASSUME Stop(q) PROVE TimerInv'
  <2> DEFINE new == Stopped(rec)
             ask == [req[q] EXCEPT !.kill = rec.pid, !.gen = rec.gen,
                       !.pc = IF rec.pid = None THEN "waiting" ELSE "killing"]
  <2>1. /\ new \in RecordType /\ new.gen = rec.gen /\ new.stop /\ ~new.held
        /\ new.armed = IF rec.held THEN rec.armed - 1 ELSE rec.armed
        /\ new.state = IF rec.held THEN "exited" ELSE "stopping"
    BY <1>2, <1>4, StoppedFacts
  <2>2. recs' = [recs EXCEPT ![r] = new]
    BY <1>4 DEF Stop
  <2>3. /\ ask \in RequestType /\ ask.rec = r /\ ask.gen = rec.gen
        /\ ask.pc \in {"waiting", "killing"} /\ ask.op = req[q].op
    BY <1>1, <1>2, <1>4 DEF RequestType, RecordType, AfterStop
  <2>4. req' = [req EXCEPT ![q] = ask]
    BY <1>1, <1>4 DEF Stop
  <2>5. /\ UNCHANGED <<cur, procs, spawning, look, reserved>>
        /\ strayed' \in BOOLEAN /\ (strayed => strayed')
    BY <1>1, <1>4 DEF Stop, Strays
  <2>6. LooksWithin'
    BY <1>1, <2>5 DEF Absent, LooksWithin
  <2>7. /\ Starting(q) <=> ask.op \in {"start", "replace"}
        /\ new.state = "stopping" \/ Terminal(new)
        /\ OnTrack => /\ new.armed = IF new.held THEN 1 ELSE 0
                      /\ new.held => new.state = "restarting" /\ r = cur
    BY <1>2, <1>4, <2>1, <2>3 DEF Starting, Terminal
  <2> HIDE DEF new, ask
  <2> QED
    BY <1>1, <1>2, <1>4, <2>1, <2>2, <2>3, <2>4, <2>5, <2>6, <2>7, BothMove
<1> QED
  BY <1>3, <1>4

(* The launches: a start, a restart, a timer.                                *)
LEMMA Launching ==
  ASSUME TimerInv,
         \/ \E q \in Requests : StartOpens(q) \/ RestartOpens(q)
         \/ \E r \in Records : TimerFires(r)
  PROVE  TimerInv'
<1>1. /\ cur \in {0} \cup Records /\ recs \in [Records -> RecordType]
      /\ req \in [Requests -> RequestType] /\ strayed \in BOOLEAN
      /\ Absent /\ Known /\ Flags /\ OneStart
  BY DEF TimerInv, Types
<1>2. Done \in RequestType /\ Done.rec = 0 /\ Done.pc = "done" /\ Done.op = "none"
  BY Counted DEF Done, NoRequest, RequestType, None
<1>3. ASSUME NEW r \in Records, NEW rec \in RecordType, Launch(r, rec), cur' \in Records,
             cur <= cur', r <= cur', UNCHANGED look,
             \A p \in Requests : req'[p] \in {req[p], Done}
      PROVE  Absent'
  <2>1. NoneBeyond'
    <3> DEFINE up == Launched(rec)
    <3>1. /\ up.gen \in Gens
          /\ \E new : recs' = [recs EXCEPT ![r] = new]
          /\ procs' = procs \/ procs' = [procs EXCEPT ![r][up.gen] = "alive"]
          /\ spawning' = spawning \/ spawning' = spawning \cup {[rec |-> r, gen |-> up.gen]}
      BY <1>3 DEF Launch
    <3> HIDE DEF up
    <3>2. \A s \in Records : s # r => recs'[s] = recs[s]
      BY <1>1, <3>1
    <3>3. DOMAIN procs' = Records /\ \A s \in Records : s # r => procs'[s] = procs[s]
      BY <1>1, <3>1 DEF Absent, NoneBeyond
    <3>4. \A s \in spawning' : s \in spawning \/ (s.rec = r /\ s.gen \in Gens)
      BY <3>1
    <3>5. \A s \in Records : s > cur' => s > cur /\ s # r
      BY <1>1, <1>3, Counted
    <3>6. \A s \in Records : s <= cur => s <= cur'
      BY <1>1, <1>3, Counted
    <3>7. \A s \in Records : s > cur' => recs'[s] = NoRecord
      BY <1>1, <3>2, <3>5 DEF Absent, NoneBeyond
    <3>8. \A s \in Records, g \in Gens : s > cur' => procs'[s][g] = "none"
      BY <1>1, <3>3, <3>5 DEF Absent, NoneBeyond
    <3>9. \A s \in spawning' : s.rec \in Records /\ s.gen \in Gens /\ s.rec <= cur'
      BY <1>1, <1>3, <3>4, <3>6 DEF Absent, NoneBeyond
    <3> QED
      BY <3>3, <3>7, <3>8, <3>9 DEF NoneBeyond
  <2>2. LooksWithin'
    <3>1. \A s \in Records : s <= cur => s <= cur'
      BY <1>1, <1>3, Counted
    <3>2. look' = look
      BY <1>3
    <3> QED
      BY <1>1, <3>1, <3>2 DEF Absent, LooksWithin
  <2>3. AsksWithin'
    <3>1. \A p \in Requests : req[p].rec \in {0} \cup Records /\ req[p].rec <= cur
      BY <1>1 DEF Absent, AsksWithin, RequestType
    <3>2. \A s \in {0} \cup Records : s <= cur => s <= cur'
      BY <1>1, <1>3, Counted
    <3>3. 0 <= cur'
      BY <1>3, Counted
    <3> QED
      BY <1>2, <1>3, <3>1, <3>2, <3>3 DEF AsksWithin
  <2> QED
    BY <2>1, <2>2, <2>3 DEF Absent
<1>4. ASSUME NEW q \in Requests, StartOpens(q) PROVE TimerInv'
  <2> DEFINE fresh == cur + 1
  <2>1. /\ req[q].pc = "opening" /\ fresh \in Records /\ cur' = fresh
        /\ strayed' = (strayed \/ (req[q].rec # 0 /\ Overtaken(q)))
        /\ reserved' = FALSE /\ UNCHANGED look
        /\ req' = [req EXCEPT ![q] = Done]
    BY <1>4 DEF StartOpens, Strays, Goes
  <2>2. PICK spec \in Specs : Launch(fresh, Fresh(spec))
    BY <1>4 DEF StartOpens
  <2> DEFINE rec == Fresh(spec)
  <2>3. rec \in RecordType /\ ~rec.held /\ rec.armed = 0 /\ rec.gen = 0
    BY DaemonRecordAssumption, Counted DEF Fresh, NoRecord, RecordType, None
  <2>4. PICK new \in RecordType :
           /\ recs' = [recs EXCEPT ![fresh] = new]
           /\ new.gen = rec.gen + 1 /\ new.gen \in Gens
           /\ new.state # "stopping"
           /\ \/ new.held = rec.held /\ new.armed = rec.armed
              \/ new.state = "restarting" /\ new.held /\ new.armed = rec.armed + 1
    <3> HIDE DEF rec, fresh
    <3> QED
      BY <2>1, <2>2, <2>3, LaunchFacts DEF rec
  <2>5. cur <= fresh /\ fresh <= fresh /\ fresh > cur /\ cur \in Nat
    BY <1>1, Counted
  <2>6. recs[fresh].gen = 0
    BY <1>1, <2>1, <2>5 DEF Absent, NoneBeyond, NoRecord
  <2>7. \A p \in Requests : req'[p] = IF p = q THEN Done ELSE req[p]
    BY <1>1, <2>1
  <2>8. Absent'
    BY <1>3, <2>1, <2>2, <2>3, <2>5, <2>7
  <2>9. Pending(q)
    BY <1>1, <2>1 DEF Known, Pending
  <2>10. OneStart' /\ \A p \in Requests : req'[p].pc # "opening"
    BY <1>1, <1>2, <2>1, <2>7, <2>9 DEF OneStart, Pending, Starting, Known
  <2>11. /\ new.held => new.armed > 0
         /\ new.armed = IF new.held THEN 1 ELSE 0
         /\ new.held => new.state = "restarting"
         /\ new.gen > recs[fresh].gen
    BY <2>3, <2>4, <2>6
  <2>12. ASSUME ~strayed', OnTrack PROVE \A s \in Records : s < fresh => Terminal(recs[s])
    <3>1. cur # 0 => Terminal(recs[cur])
      <4>1. CASE req[q].rec = 0
        BY <2>1, <2>12, <4>1 DEF OnTrack, StillNew
      <4>2. CASE req[q].rec # 0
        BY <2>1, <2>12, <4>2 DEF OnTrack, StaysStopped, AfterStop, Overtaken
      <4> QED
        BY <4>1, <4>2
    <3> QED
      BY <1>1, <2>12, <3>1, Counted DEF OnTrack, Replaced
  <2>13. strayed' \in BOOLEAN /\ (strayed => strayed')
    BY <1>1, <2>1
  <2>14. req' \in [Requests -> RequestType] /\ \A p \in Requests : req'[p] \in {req[p], Done}
    BY <1>1, <1>2, <2>1
  <2> HIDE DEF fresh, rec
  <2> QED
    BY <2>1, <2>4, <2>5, <2>8, <2>10, <2>11, <2>12, <2>13, <2>14, LaunchMoves
<1>5. ASSUME NEW q \in Requests, RestartOpens(q) PROVE TimerInv'
  <2> DEFINE r == req[q].rec
  <2>1. /\ req[q].pc = "reopening" /\ Launch(r, recs[r])
        /\ strayed' = (strayed \/ Overtaken(q))
        /\ UNCHANGED <<cur, look, reserved>>
        /\ req' = [req EXCEPT ![q] = Done]
    BY <1>5 DEF RestartOpens, Strays, Goes
  <2>2. r \in Records /\ r <= cur /\ cur \in Records /\ cur <= cur
    <3>1. r \in {0} \cup Records /\ r # 0 /\ r <= cur
      BY <1>1, <2>1 DEF Known, RequestType, Absent, AsksWithin
    <3> HIDE DEF r
    <3> QED
      BY <1>1, <3>1, Counted
  <2>3. recs[r] \in RecordType /\ recs[r].armed \in Nat
    BY <1>1, <2>2 DEF RecordType
  <2>4. PICK new \in RecordType :
           /\ recs' = [recs EXCEPT ![r] = new]
           /\ new.gen = recs[r].gen + 1 /\ new.gen \in Gens
           /\ new.state # "stopping"
           /\ \/ new.held = recs[r].held /\ new.armed = recs[r].armed
              \/ new.state = "restarting" /\ new.held /\ new.armed = recs[r].armed + 1
    <3> HIDE DEF r
    <3> QED
      BY <2>1, <2>2, <2>3, LaunchFacts
  <2>5. \A p \in Requests : req'[p] = IF p = q THEN Done ELSE req[p]
    BY <1>1, <2>1
  <2>6. req' \in [Requests -> RequestType] /\ \A p \in Requests : req'[p] \in {req[p], Done}
    BY <1>1, <1>2, <2>1
  <2>7. Absent'
    <3> HIDE DEF r
    <3> QED
      BY <1>3, <2>1, <2>2, <2>3, <2>6
  <2>8. OneStart'
    BY <1>1, <1>2, <2>1, <2>5 DEF OneStart, Pending, Starting
  <2>9. recs[r].gen \in Nat
    BY <2>3, Counted DEF RecordType
  <2>10. (recs[r].held => recs[r].armed > 0) /\ recs[r].held \in BOOLEAN
    BY <1>1, <2>2, <2>3 DEF Flags, RecordType
  <2>11. new.gen > recs[r].gen /\ (new.held => new.armed > 0)
    BY <2>3, <2>4, <2>9, <2>10
  <2>12. ASSUME ~strayed', OnTrack
         PROVE  /\ r = cur
                /\ \A s \in Records : s < r => Terminal(recs[s])
                /\ new.armed = IF new.held THEN 1 ELSE 0
                /\ new.held => new.state = "restarting"
                /\ \A p \in Requests : req'[p].pc = "opening" => req'[p].rec # 0
    <3>1. r = cur /\ \A s \in Records : s < r => Terminal(recs[s])
      BY <2>1, <2>12 DEF OnTrack, Replaced, Overtaken
    <3>2. Terminal(recs[r]) \/ recs[r].state = "stopping"
      BY <2>1, <2>2, <2>12, Counted DEF OnTrack, StaysStopped, AfterStop
    <3>3. ~recs[r].held /\ recs[r].armed = 0
      BY <2>2, <2>12, <3>2 DEF OnTrack, HoldsTimers, Terminal
    <3>4. /\ new.armed = IF new.held THEN 1 ELSE 0
          /\ new.held => new.state = "restarting"
      BY <2>4, <3>3
    <3>5. \A p \in Requests : req'[p].pc = "opening" => req'[p].rec # 0
      BY <1>2, <2>2, <2>5, <2>12, Counted DEF OnTrack, StillNew
    <3> QED
      BY <3>1, <3>4, <3>5
  <2>13. strayed' \in BOOLEAN /\ (strayed => strayed') /\ cur' = cur
    BY <1>1, <2>1
  <2> HIDE DEF r
  <2> QED
    BY <2>2, <2>4, <2>6, <2>7, <2>8, <2>11, <2>12, <2>13, LaunchMoves
<1>6. ASSUME NEW r \in Records, TimerFires(r) PROVE TimerInv'
  <2> DEFINE rec == [recs[r] EXCEPT !.armed = @ - 1, !.held = FALSE]
  <2>1. /\ recs[r].armed > 0 /\ Launch(r, rec)
        /\ UNCHANGED <<cur, look, req, reserved, strayed>>
    BY <1>6 DEF TimerFires
  <2>2. recs[r] \in RecordType /\ recs[r].armed \in Nat /\ recs[r].armed - 1 \in Nat
        /\ recs[r].gen \in Nat
    BY <1>1, <2>1, Counted DEF RecordType
  <2>3. /\ rec \in RecordType /\ rec.gen = recs[r].gen /\ ~rec.held
        /\ rec.armed = recs[r].armed - 1
    BY <2>2 DEF RecordType
  <2>4. PICK new \in RecordType :
           /\ recs' = [recs EXCEPT ![r] = new]
           /\ new.gen = rec.gen + 1 /\ new.gen \in Gens
           /\ new.state # "stopping"
           /\ \/ new.held = rec.held /\ new.armed = rec.armed
              \/ new.state = "restarting" /\ new.held /\ new.armed = rec.armed + 1
    <3> HIDE DEF rec
    <3> QED
      BY <2>1, <2>3, LaunchFacts
  <2>5. r <= cur /\ cur \in Records /\ cur <= cur
    BY <1>1, <2>1, Counted DEF Absent, NoneBeyond, NoRecord
  <2>6. Absent'
    <3> HIDE DEF rec
    <3> QED
      BY <1>3, <2>1, <2>3, <2>5
  <2>7. OneStart'
    BY <1>1, <2>1 DEF OneStart, Pending, Starting
  <2>8. new.gen > recs[r].gen /\ (new.held => new.armed > 0)
    <3> HIDE DEF rec
    <3>1. new.gen > recs[r].gen
      BY <2>2, <2>3, <2>4
    <3>2. rec.armed + 1 > 0
      BY <2>2, <2>3
    <3> QED
      BY <2>3, <2>4, <3>1, <3>2
  <2>9. ASSUME OnTrack
        PROVE  /\ r = cur
               /\ \A s \in Records : s < r => Terminal(recs[s])
               /\ new.armed = IF new.held THEN 1 ELSE 0
               /\ new.held => new.state = "restarting"
               /\ \A p \in Requests : req[p].pc = "opening" => req[p].rec # 0
    <3>1. recs[r].held /\ recs[r].armed = 1 /\ r = cur
      BY <2>1, <2>9 DEF OnTrack, HoldsTimers
    <3>2. /\ new.armed = IF new.held THEN 1 ELSE 0
          /\ new.held => new.state = "restarting"
      <4> HIDE DEF rec
      <4>1. rec.armed = 0 /\ rec.armed + 1 = 1
        BY <2>3, <3>1
      <4> QED
        BY <2>3, <2>4, <4>1
    <3> QED
      BY <2>5, <2>9, <3>1, <3>2, Counted DEF OnTrack, Replaced, StillNew
  <2>10. strayed' \in BOOLEAN /\ (strayed => strayed') /\ cur' = cur
         /\ req' = req /\ req' \in [Requests -> RequestType]
    BY <1>1, <2>1
  <2> HIDE DEF rec
  <2> QED
    BY <2>4, <2>5, <2>6, <2>7, <2>8, <2>9, <2>10, LaunchMoves
<1> QED
  BY <1>4, <1>5, <1>6

-----------------------------------------------------------------------------
LEMMA TimerNext == TimerInv /\ [Next]_vars => TimerInv'
<1>1. ASSUME TimerInv, UNCHANGED vars PROVE TimerInv'
  BY <1>1 DEF vars, TimerInv, Types, Absent, NoneBeyond, LooksWithin, AsksWithin, Flags, Known,
     OneStart, Pending, Starting, OnTrack, HoldsTimers, Replaced, StillNew, StaysStopped, Overtaken
<1>2. ASSUME TimerInv, NEW q \in Requests, Request(q) PROVE TimerInv'
  <2>1. CASE StartOpens(q) \/ RestartOpens(q)
    BY <1>2, <2>1, Launching
  <2>2. CASE Detach(q) \/ Stop(q)
    BY <1>2, <2>2, Stopping
  <2> QED
    BY <1>2, <2>1, <2>2, Waiting DEF Request
<1> QED
  BY <1>1, <1>2, OutsideMoves, Launching DEF Next

(* Unless a request has overtaken another or the broker acted in the blind   *)
(* window of a detached launch, no relaunch timer is armed but the one its   *)
(* record holds, so that #stopRecord, which takes that one, leaves none to   *)
(* launch the daemon again.                                                  *)
THEOREM RecordHoldsTimer == Spec => []TimerIsHeld
<1>1. TimerInv => TimerIsHeld
  BY DEF TimerInv, OnTrack, TimerIsHeld
<1> QED
  BY <1>1, TimerInit, TimerNext, PTL DEF Spec

-----------------------------------------------------------------------------
(* Types, and the process behind the name.                                   *)
Statuses == {"none", "alive", "dead", "settling", "told"}
LookType == [at : {"idle", "read", "settle"}, rec : Records, gen : Gens]
SpawnType == [rec : Records, gen : Gens]

Shapes ==
    /\ procs \in [Records -> [Gens -> Statuses]]
    /\ spawning \subseteq SpawnType
    /\ look \in [Watchers -> LookType]

(* Where a request can be, by its operation.                                 *)
Asked == \A q \in Requests :
    /\ req[q].pc \in {"killing", "waiting"} => req[q].op # "start"
    /\ req[q].pc = "killing" => req[q].kill # None
    /\ req[q].pc = "reopening" => ~Starting(q)

(* The name is reserved for somebody: with OneStart, for one start.          *)
SomeStart == reserved => \E q \in Requests : Pending(q)

TypesInv == TimerInv /\ Shapes /\ Asked /\ SomeStart

(* No process and no look is ahead of the generations its record had.        *)
Unopened ==
    /\ \A r \in Records, g \in Gens : g > recs[r].gen => procs[r][g] = "none"
    /\ \A s \in spawning : s.gen <= recs[s.rec].gen /\ procs[s.rec][s.gen] = "none"
    /\ \A w \in Watchers : look[w].at # "idle" => look[w].gen <= recs[look[w].rec].gen

(* A record without a process, which no launch is about to give it.          *)
Unspawned(r) == \A s \in spawning : s.rec # r
Vacant(r) == (\A g \in Gens : ~Live(r, g)) /\ Unspawned(r)

SpawnsCurrent == \A s \in spawning :
    s.rec = cur /\ s.gen = recs[cur].gen /\ recs[cur].state = "running"

(* What is about to be settled as gone is gone, and what was terminated is.  *)
LooksVacant == \A w \in Watchers :
    look[w].at = "settle" /\ look[w].gen = recs[look[w].rec].gen
        => Vacant(look[w].rec)

KillsIt(q) ==
    /\ \A g \in Gens : Live(req[q].rec, g) => g = req[q].kill
    /\ Unspawned(req[q].rec)

StopsVacant == \A q \in Requests : req[q].rec # 0 /\ ~Overtaken(q) =>
    /\ req[q].pc \in AfterStop \ {"killing"} => Vacant(req[q].rec)
    /\ req[q].pc = "killing" => KillsIt(q)

OnProcess == Tracks /\ SpawnsCurrent /\ LooksVacant /\ StopsVacant

TrackInv == TypesInv /\ Unopened /\ (strayed \/ OnProcess)

(* Every process, look and launch is of a record and a generation.           *)
LEMMA LookingTyped ==
  ASSUME Types, NEW r \in Records
  PROVE  Looking(r) \in LookType /\ Idle \in LookType
BY Counted DEF Looking, Idle, LookType, Types, RecordType

LEMMA LaunchShapes ==
  ASSUME Shapes, NEW r \in Records, NEW rec, Launch(r, rec), UNCHANGED look
  PROVE  Shapes'
<1> DEFINE g == Launched(rec).gen
<1>1. /\ g \in Gens /\ look' = look
      /\ procs' = procs \/ procs' = [procs EXCEPT ![r][g] = "alive"]
      /\ spawning' = spawning \/ spawning' = spawning \cup {[rec |-> r, gen |-> g]}
  BY DEF Launch
<1> HIDE DEF g
<1>2. [rec |-> r, gen |-> g] \in SpawnType
  BY <1>1 DEF SpawnType
<1>3. "alive" \in Statuses
  BY DEF Statuses
<1> QED
  BY <1>1, <1>2, <1>3 DEF Shapes

LEMMA OutsideShapes ==
  ASSUME Shapes, Types, Absent,
         \/ \E r \in Records, g \in Gens : Process(r, g)
         \/ \E w \in Watchers : Refresh(w)
         \/ MonitorLooks
         \/ \E s \in spawning : Spawn(s)
  PROVE  Shapes'
<1> USE DEF Shapes
<1>1. ASSUME NEW r \in Records, NEW g \in Gens, Process(r, g) PROVE Shapes'
  <2>1. UNCHANGED <<spawning, look>>
    BY <1>1 DEF Process, ProcExit, ExitHeard, ExitSettles
  <2>2. \E st \in Statuses : procs' = [procs EXCEPT ![r][g] = st]
    BY <1>1 DEF Process, ProcExit, ExitHeard, ExitSettles, Statuses
  <2> QED
    BY <2>1, <2>2
<1>2. ASSUME NEW w \in Watchers, Refresh(w) PROVE Shapes'
  <2>1. UNCHANGED <<spawning, procs>>
    BY <1>2 DEF Refresh, Look, LookSettles
  <2>2. look' = [look EXCEPT ![w] = [@ EXCEPT !.at = "settle"]] \/ look' = [look EXCEPT ![w] = Idle]
    BY <1>2 DEF Refresh, Look, LookSettles
  <2>3. Idle \in LookType /\ [look[w] EXCEPT !.at = "settle"] \in LookType
    BY Counted DEF Idle, LookType
  <2> QED
    BY <2>1, <2>2, <2>3
<1>3. ASSUME MonitorLooks PROVE Shapes'
  BY <1>3, LookingTyped, Counted DEF MonitorLooks
<1>4. ASSUME NEW s \in spawning, Spawn(s) PROVE Shapes'
  <2>1. s.rec \in Records /\ s.gen \in Gens
    BY DEF SpawnType
  <2>2. \E st \in Statuses : procs' = [procs EXCEPT ![s.rec][s.gen] = st]
    BY <1>4 DEF Spawn, Statuses
  <2>3. spawning' \subseteq spawning /\ UNCHANGED look
    BY <1>4 DEF Spawn
  <2> QED
    BY <2>1, <2>2, <2>3
<1> QED
  BY <1>1, <1>2, <1>3, <1>4

LEMMA RequestShapes ==
  ASSUME Shapes, Types, Types', Asked, Absent, Known, NEW q \in Requests, Request(q)
  PROVE  Shapes'
<1>1. q \in Watchers /\ cur \in {0} \cup Records
  BY DEF Watchers, Types
<1>2. ASSUME UNCHANGED <<procs, spawning>>, NEW r \in Records,
             look' = look \/ look' = [look EXCEPT ![q] = Looking(r)]
      PROVE  Shapes'
  BY <1>1, <1>2, LookingTyped DEF Shapes
<1>3. CASE StartArrives(q)
  <2>1. CASE look' = look
    BY <1>2, <1>3, <2>1, Counted DEF StartArrives
  <2>2. CASE look' # look
    <3>1. cur \in Records /\ look' = [look EXCEPT ![q] = Looking(cur)]
      BY <1>1, <1>3, <2>2 DEF StartArrives
    <3> QED
      BY <1>2, <1>3, <3>1 DEF StartArrives
  <2> QED
    BY <2>1, <2>2
<1>4. CASE RequestArrives(q)
  BY <1>1, <1>2, <1>4 DEF RequestArrives
<1>5. CASE Answer(q) \/ NothingToStop(q) \/ Stop(q) \/ WaitEnds(q) \/ OpenFails(q)
  BY <1>2, <1>5, Counted DEF Answer, NothingToStop, Stop, WaitEnds, OpenFails
<1>6. CASE Detach(q)
  <2>1. req[q].rec \in Records /\ UNCHANGED <<procs, spawning>>
    BY <1>6 DEF Detach, Refreshed, Types, RequestType, Known
  <2>2. PICK r \in Records : r = req[q].rec
    BY <2>1
  <2>3. req'[q].rec = r
    BY <1>6, <2>2 DEF Detach, Types, RequestType
  <2>4. look' = [look EXCEPT ![q] = Looking(r)']
    BY <1>6, <2>2, <2>3 DEF Detach, Looking
  <2>5. Looking(r)' \in LookType
    BY Counted DEF Types, Looking, Idle, LookType, RecordType
  <2> QED
    BY <1>1, <2>1, <2>4, <2>5 DEF Shapes
<1>7. CASE Killed(q)
  <2>1. req[q].rec \in Records /\ req[q].kill \in Gens
    BY <1>7 DEF Killed, Types, RequestType, Known, Asked
  <2>2. PICK r \in Records, g \in Gens : r = req[q].rec /\ g = req[q].kill
    BY <2>1
  <2>3. procs' = procs \/ \E st \in Statuses : procs' = [procs EXCEPT ![r][g] = st]
    BY <1>7, <2>2 DEF Killed, Statuses
  <2>4. UNCHANGED <<look, spawning>>
    BY <1>7 DEF Killed
  <2> QED
    BY <2>3, <2>4 DEF Shapes
<1>8. CASE StartOpens(q)
  <2>1. cur + 1 \in Records /\ UNCHANGED look /\ \E spec \in Specs : Launch(cur + 1, Fresh(spec))
    BY <1>8 DEF StartOpens
  <2> QED
    BY <2>1, LaunchShapes
<1>9. CASE RestartOpens(q)
  <2>1. req[q].rec \in Records /\ UNCHANGED look /\ Launch(req[q].rec, recs[req[q].rec])
    BY <1>9 DEF RestartOpens, Types, RequestType, Known
  <2> QED
    BY <2>1, LaunchShapes
<1> QED
  BY <1>3, <1>4, <1>5, <1>6, <1>7, <1>8, <1>9 DEF Request

LEMMA ShapesNext == TypesInv /\ TimerInv' /\ [Next]_vars => Shapes'
<1> SUFFICES ASSUME TypesInv, TimerInv', [Next]_vars PROVE Shapes'
  OBVIOUS
<1>1. Shapes /\ Types /\ Types' /\ Asked /\ Absent /\ Known
  BY DEF TypesInv, TimerInv
<1>2. ASSUME NEW r \in Records, TimerFires(r) PROVE Shapes'
  BY <1>1, <1>2, LaunchShapes DEF TimerFires
<1>3. CASE UNCHANGED vars
  BY <1>1, <1>3 DEF vars, Shapes
<1> QED
  BY <1>1, <1>2, <1>3, OutsideShapes, RequestShapes DEF Next

(* Only its own steps move a request, and by its operation.                  *)
LEMMA AskedNext == TypesInv /\ [Next]_vars => Asked'
<1> SUFFICES ASSUME TypesInv, [Next]_vars PROVE Asked'
  OBVIOUS
<1>1. Asked /\ req \in [Requests -> RequestType]
  BY DEF TypesInv, TimerInv, Types
<1>2. ASSUME UNCHANGED req PROVE Asked'
  BY <1>1, <1>2 DEF Asked, Starting
<1>3. /\ Done.pc = "done" /\ NoRequest.pc = "idle"
  BY DEF Done, NoRequest
<1>4. ASSUME NEW q \in Requests, Request(q) PROVE Asked'
  <2>1. ASSUME NEW new, req' = [req EXCEPT ![q] = new],
               new.pc \in {"killing", "waiting"} => new.op # "start",
               new.pc = "killing" => new.kill # None,
               new.pc = "reopening" => new.op \notin {"start", "replace"}
        PROVE  Asked'
    BY <1>1, <2>1 DEF Asked, Starting
  <2>2. ASSUME req' = [req EXCEPT ![q] = Done] PROVE Asked'
    BY <1>3, <2>1, <2>2
  <2>3. CASE StartArrives(q) \/ RequestArrives(q)
    <3>1. \E new : /\ req' = [req EXCEPT ![q] = new]
                   /\ new.pc \in {"done", "opening", "refreshing"}
      BY <1>3, <2>3 DEF StartArrives, RequestArrives
    <3> QED
      BY <2>1, <3>1
  <2>4. CASE Answer(q) \/ StartOpens(q) \/ RestartOpens(q) \/ OpenFails(q)
    BY <2>2, <2>4 DEF Answer, StartOpens, RestartOpens, OpenFails, Goes
  <2>5. CASE Detach(q)
    <3>1. req' = [req EXCEPT ![q] = [req[q] EXCEPT !.op = "restart"]] /\ req[q].pc = "refreshing"
      BY <1>1, <2>5 DEF Detach, Refreshed
    <3> QED
      BY <1>1, <2>1, <3>1 DEF RequestType
  <2>6. CASE NothingToStop(q)
    <3>1. CASE req[q].op = "stop"
      BY <2>2, <2>6, <3>1 DEF NothingToStop, Goes
    <3>2. CASE req[q].op # "stop"
      <4> DEFINE new == [req[q] EXCEPT !.pc = IF Starting(q) THEN "opening" ELSE "reopening",
                                       !.gen = recs[req[q].rec].gen]
      <4>1. req' = [req EXCEPT ![q] = new]
        BY <1>1, <2>6, <3>2 DEF NothingToStop
      <4>2. new.pc = IF Starting(q) THEN "opening" ELSE "reopening"
        BY <1>1 DEF RequestType
      <4>3. new.op = req[q].op
        BY <1>1 DEF RequestType
      <4> HIDE DEF new
      <4> QED
        BY <2>1, <4>1, <4>2, <4>3 DEF Starting
    <3> QED
      BY <3>1, <3>2
  <2>7. CASE Stop(q)
    <3> DEFINE rec == recs[req[q].rec]
               new == [req[q] EXCEPT !.kill = rec.pid, !.gen = rec.gen,
                         !.pc = IF rec.pid = None THEN "waiting" ELSE "killing"]
    <3>1. req' = [req EXCEPT ![q] = new]
      BY <1>1, <2>7 DEF Stop
    <3>2. /\ new.op = req[q].op /\ new.kill = rec.pid
          /\ new.pc = IF rec.pid = None THEN "waiting" ELSE "killing"
      BY <1>1 DEF RequestType
    <3>3. req[q].op # "start"
      BY <2>7 DEF Stop, Answered
    <3> HIDE DEF new, rec
    <3> QED
      BY <2>1, <3>1, <3>2, <3>3
  <2>8. CASE Killed(q)
    <3>1. req' = [req EXCEPT ![q] = [req[q] EXCEPT !.pc = "waiting", !.kill = None]]
          /\ req[q].op # "start"
      BY <1>1, <2>8 DEF Killed, Asked
    <3> QED
      BY <1>1, <2>1, <3>1 DEF RequestType
  <2>9. CASE WaitEnds(q)
    <3>1. req[q].pc = "waiting" /\ req[q].op # "start"
      BY <1>1, <2>9 DEF WaitEnds, Asked
    <3>2. \/ req' = [req EXCEPT ![q] = Done]
          \/ req' = [req EXCEPT ![q] = [@ EXCEPT !.pc = "opening"]]
          \/ req' = [req EXCEPT ![q] = [@ EXCEPT !.pc = "reopening"]] /\ req[q].op # "replace"
      BY <2>9 DEF WaitEnds, Goes
    <3>3. CASE req' = [req EXCEPT ![q] = [@ EXCEPT !.pc = "opening"]]
      BY <1>1, <2>1, <3>3 DEF RequestType
    <3>4. CASE req' = [req EXCEPT ![q] = [@ EXCEPT !.pc = "reopening"]] /\ req[q].op # "replace"
      BY <1>1, <2>1, <3>1, <3>4 DEF RequestType
    <3> QED
      BY <2>2, <3>2, <3>3, <3>4
  <2> QED
    BY <1>4, <2>3, <2>4, <2>5, <2>6, <2>7, <2>8, <2>9 DEF Request
<1>5. CASE ~\E q \in Requests : Request(q)
  <2>1. UNCHANGED req
    BY <1>5 DEF Next, Refresh, Look, LookSettles, MonitorLooks, Process, ProcExit,
                ExitHeard, ExitSettles, Spawn, TimerFires, vars
  <2> QED
    BY <1>2, <2>1
<1> QED
  BY <1>4, <1>5

(* The reservation ends with the start it was made for.                      *)
LEMMA SomeStartNext == TypesInv /\ TimerInv' /\ [Next]_vars => SomeStart'
<1> SUFFICES ASSUME TypesInv, TimerInv', [Next]_vars, reserved' PROVE \E q \in Requests : Pending(q)'
  BY DEF SomeStart
<1>1. /\ Asked /\ SomeStart /\ Known /\ OneStart /\ req \in [Requests -> RequestType]
  BY DEF TypesInv, TimerInv, Types
<1>2. CASE UNCHANGED <<req, reserved>>
  BY <1>1, <1>2 DEF SomeStart, Pending, Starting
<1>3. Done.op = "none" /\ Done.pc = "done"
  BY DEF Done, NoRequest
<1>4. ASSUME NEW q \in Requests, Request(q), ~UNCHANGED <<req, reserved>>
      PROVE  \E p \in Requests : Pending(p)'
  <2>1. ASSUME reserved, Pending(q) => Pending(q)', \A p \in Requests : p # q => req'[p] = req[p]
        PROVE  \E p \in Requests : Pending(p)'
    BY <1>1, <2>1 DEF SomeStart, Pending, Starting
  <2>2. \A p \in Requests : p # q => req'[p] = req[p]
    <3>1. \E new : req' = [req EXCEPT ![q] = new]
      BY <1>4 DEF Request, StartArrives, RequestArrives, Answer, Detach, NothingToStop, Stop,
                  Killed, WaitEnds, StartOpens, RestartOpens, OpenFails, Goes
    <3> QED
      BY <1>1, <3>1
  <2>3. CASE StartArrives(q)
    <3>1. CASE reserved
      <4>1. ~Pending(q)
        BY <2>3 DEF StartArrives, Pending
      <4> QED
        BY <2>1, <2>2, <3>1, <4>1
    <3>2. CASE ~reserved
      BY <1>1, <2>3, <3>2 DEF StartArrives, StartRefused, Pending, Starting
    <3> QED
      BY <3>1, <3>2
  <2>4. CASE RequestArrives(q)
    <3>1. ~Pending(q) /\ reserved
      BY <2>4 DEF RequestArrives, Pending
    <3> QED
      BY <2>1, <2>2, <3>1
  <2>5. CASE Answer(q) \/ OpenFails(q)
    <3>1. reserved /\ ~Starting(q)
      BY <1>1, <2>5 DEF Answer, OpenFails, Releases, OneStart
    <3> QED
      BY <2>1, <2>2, <3>1 DEF Pending
  <2>6. CASE Detach(q)
    <3>1. reserved /\ ~Pending(q)
      BY <2>6 DEF Detach, Pending, Starting
    <3> QED
      BY <2>1, <2>2, <3>1
  <2>7. CASE NothingToStop(q)
    <3>1. reserved /\ (Starting(q) => req'[q].op = req[q].op /\ req'[q].pc = "opening")
      BY <1>1, <2>7 DEF NothingToStop, Starting, RequestType
    <3> QED
      BY <2>1, <2>2, <3>1 DEF Pending, Starting
  <2>8. CASE Stop(q) \/ Killed(q)
    <3>1. \E pc \in {"waiting", "killing"} : \E gen, kill :
             req' = [req EXCEPT ![q].kill = kill, ![q].gen = gen, ![q].pc = pc]
      <4>1. CASE Stop(q)
        BY <4>1 DEF Stop
      <4>2. CASE Killed(q)
        <5>1. req' = [req EXCEPT ![q].kill = None, ![q].gen = req[q].gen, ![q].pc = "waiting"]
          BY <1>1, <4>2 DEF Killed, RequestType
        <5> QED
          BY <5>1
      <4> QED
        BY <2>8, <4>1, <4>2
    <3>2. reserved
      BY <2>8 DEF Stop, Killed
    <3>3. req'[q].op = req[q].op /\ req'[q].pc \in {"waiting", "killing"}
      BY <1>1, <3>1 DEF RequestType
    <3> QED
      BY <2>1, <2>2, <3>2, <3>3 DEF Pending, Starting
  <2>9. CASE WaitEnds(q)
    <3>1. reserved /\ ~(req[q].op = "replace" /\ ~Terminal(recs[req[q].rec]))
          /\ req[q].op # "start"
      BY <1>1, <2>9 DEF WaitEnds, OneStart, Asked
    <3>2. req[q].op = "replace" => req' = [req EXCEPT ![q].pc = "opening"]
      BY <2>9, <3>1 DEF WaitEnds, Goes
    <3>3. ASSUME Pending(q) PROVE Pending(q)'
      <4>1. req[q].op = "replace"
        BY <3>1, <3>3 DEF Pending, Starting
      <4>2. req' = [req EXCEPT ![q] = [req[q] EXCEPT !.pc = "opening"]]
        BY <1>1, <3>2, <4>1
      <4>3. req'[q].op = "replace" /\ req'[q].pc = "opening"
        BY <1>1, <4>1, <4>2 DEF RequestType
      <4> QED
        BY <4>3 DEF Pending, Starting
    <3> QED
      BY <2>1, <2>2, <3>1, <3>3
  <2>10. CASE StartOpens(q)
    BY <2>10 DEF StartOpens
  <2>11. CASE RestartOpens(q)
    <3>1. reserved /\ ~Pending(q)
      BY <1>1, <2>11 DEF RestartOpens, Asked, Pending
    <3> QED
      BY <2>1, <2>2, <3>1
  <2> QED
    BY <1>4, <2>3, <2>4, <2>5, <2>6, <2>7, <2>8, <2>9, <2>10, <2>11 DEF Request
<1>5. CASE ~\E q \in Requests : Request(q)
  <2>1. UNCHANGED <<req, reserved>>
    BY <1>5 DEF Next, Refresh, Look, LookSettles, MonitorLooks, Process, ProcExit,
                ExitHeard, ExitSettles, Spawn, TimerFires, vars
  <2> QED
    BY <1>2, <2>1
<1> QED
  BY <1>2, <1>4, <1>5

LEMMA TypesInit == Init => TypesInv
<1> SUFFICES ASSUME Init PROVE TypesInv
  OBVIOUS
<1>1. TimerInv
  BY TimerInit
<1>2. Idle \in LookType /\ "none" \in Statuses /\ "alive" \in Statuses
  BY Counted DEF Idle, LookType, Statuses
<1>3. procs \in [Records -> [Gens -> Statuses]]
  BY <1>2 DEF Init, NothingThere, RecoveredThere
<1>4. Shapes
  BY <1>2, <1>3 DEF Init, Shapes
<1>5. Asked /\ SomeStart
  BY DEF Init, Asked, SomeStart, NoRequest
<1> QED
  BY <1>1, <1>4, <1>5 DEF TypesInv

LEMMA TypesNext == TypesInv /\ [Next]_vars => TypesInv'
BY TimerNext, ShapesNext, AskedNext, SomeStartNext DEF TypesInv

(* Every record, process, look and request is of a record and a generation   *)
(* that exist, and the name is reserved exactly while one start is between   *)
(* its check and its record, whatever the requests that interleave.          *)
THEOREM RecordTyped == Spec => []TypeOK
<1>1. TypesInv => TypeOK
  BY DEF TypesInv, TimerInv, Types, Shapes, SpawnType, LookType, Statuses, RequestType,
         AfterStop, OneStart, SomeStart, TypeOK
<1> QED
  BY <1>1, TypesInit, TypesNext, PTL DEF Spec

-----------------------------------------------------------------------------
(* What a launch does to the processes: it opens one, asks for one, or none. *)
LEMMA LaunchOutcome ==
  ASSUME NEW r \in Records, NEW rec \in RecordType, Launch(r, rec)
  PROVE  \E new \in RecordType :
           /\ recs' = [recs EXCEPT ![r] = new]
           /\ new.gen = rec.gen + 1 /\ new.gen \in Gens
           /\ \/ /\ new.state = "running" /\ procs' = procs
                 /\ spawning' = spawning \cup {[rec |-> r, gen |-> new.gen]}
              \/ /\ new.state = "running" /\ new.pid = new.gen /\ spawning' = spawning
                 /\ procs' = [procs EXCEPT ![r][new.gen] = "alive"]
              \/ procs' = procs /\ spawning' = spawning
<1> DEFINE up == Launched(rec)
           on == [up EXCEPT !.own = up.gen, !.pid = up.gen]
<1>1. up.gen \in Gens
  BY DEF Launch
<1>2. up \in RecordType /\ up.gen = rec.gen + 1 /\ up.state = "running"
  BY <1>1, Counted DEF Launched, RecordType
<1>3. on \in RecordType /\ on.gen = up.gen /\ on.state = "running" /\ on.pid = up.gen
  BY <1>1, <1>2 DEF RecordType
<1>4. SettledWith(up, TRUE) \in RecordType /\ SettledWith(up, TRUE).gen = up.gen
  BY <1>2, SettledFacts
<1>5. \/ /\ recs' = [recs EXCEPT ![r] = up] /\ procs' = procs
         /\ spawning' = spawning \cup {[rec |-> r, gen |-> up.gen]}
      \/ /\ recs' = [recs EXCEPT ![r] = on] /\ spawning' = spawning
         /\ procs' = [procs EXCEPT ![r][up.gen] = "alive"]
      \/ /\ recs' = [recs EXCEPT ![r] = SettledWith(up, TRUE)]
         /\ UNCHANGED <<procs, spawning>>
  BY DEF Launch
<1> HIDE DEF up, on
<1> QED
  BY <1>1, <1>2, <1>3, <1>4, <1>5

(* A step that keeps the generations opens no process ahead of them.         *)
LEMMA UnopenedKept ==
  ASSUME Unopened, Types, Shapes, Absent, Shapes',
         \A r \in Records : recs'[r].gen = recs[r].gen,
         \A r \in Records, g \in Gens : procs[r][g] = "none" =>
            procs'[r][g] = "none" \/ [rec |-> r, gen |-> g] \in spawning \ spawning',
         spawning' \subseteq spawning,
         \A w \in Watchers : \/ look'[w].at = "idle" \/ look'[w] = look[w]
                             \/ look'[w].gen <= recs[look'[w].rec].gen
  PROVE  Unopened'
<1>1. \A r \in Records, g \in Gens : g > recs'[r].gen => procs'[r][g] = "none"
  <2> SUFFICES ASSUME NEW r \in Records, NEW g \in Gens, g > recs[r].gen
               PROVE  procs'[r][g] = "none"
    OBVIOUS
  <2>1. procs[r][g] = "none"
    BY DEF Unopened
  <2>2. CASE [rec |-> r, gen |-> g] \in spawning
    <3>1. g <= recs[r].gen
      BY <2>2 DEF Unopened
    <3>2. g \in Nat /\ recs[r].gen \in Nat
      BY Counted DEF Types, RecordType
    <3> QED
      BY <3>1, <3>2
  <2> QED
    BY <2>1, <2>2
<1>2. \A s \in spawning' : s.gen <= recs'[s.rec].gen /\ procs'[s.rec][s.gen] = "none"
  <2> SUFFICES ASSUME NEW s \in spawning'
               PROVE  s.gen <= recs'[s.rec].gen /\ procs'[s.rec][s.gen] = "none"
    OBVIOUS
  <2>1. s \in spawning /\ s.rec \in Records /\ s.gen \in Gens /\ s = [rec |-> s.rec, gen |-> s.gen]
    BY DEF Shapes, SpawnType
  <2>2. procs[s.rec][s.gen] = "none" /\ s.gen <= recs[s.rec].gen
    BY <2>1 DEF Unopened
  <2> QED
    BY <2>1, <2>2
<1>3. ASSUME NEW w \in Watchers, look'[w].at # "idle"
      PROVE  look'[w].gen <= recs'[look'[w].rec].gen
  <2>1. look'[w].rec \in Records
    BY DEF Shapes, LookType
  <2> QED
    BY <1>3, <2>1 DEF Unopened
<1> QED
  BY <1>1, <1>2, <1>3 DEF Unopened

LEMMA UnopenedLaunch ==
  ASSUME Unopened, Types, Shapes, Absent, Shapes', UNCHANGED look,
         NEW r \in Records, NEW rec \in RecordType, rec.gen = recs[r].gen, Launch(r, rec)
  PROVE  Unopened'
<1>1. PICK new \in RecordType :
           /\ recs' = [recs EXCEPT ![r] = new]
           /\ new.gen = rec.gen + 1 /\ new.gen \in Gens
           /\ \/ /\ new.state = "running" /\ procs' = procs
                 /\ spawning' = spawning \cup {[rec |-> r, gen |-> new.gen]}
              \/ /\ new.state = "running" /\ new.pid = new.gen /\ spawning' = spawning
                 /\ procs' = [procs EXCEPT ![r][new.gen] = "alive"]
              \/ procs' = procs /\ spawning' = spawning
  BY LaunchOutcome
<1>2. /\ \A s \in Records : recs'[s] = IF s = r THEN new ELSE recs[s]
      /\ \A s \in Records : recs[s].gen \in Nat
      /\ new.gen \in Nat /\ new.gen = recs[r].gen + 1
      /\ \A g \in Gens : g \in Nat
  BY <1>1, Counted DEF Types, RecordType
<1>3. procs[r][new.gen] = "none"
  BY <1>1, <1>2 DEF Unopened
<1>4. /\ \A s \in Records, g \in Gens : s # r \/ g # new.gen => procs'[s][g] = procs[s][g]
      /\ spawning' # spawning => procs' = procs
  BY <1>1 DEF Shapes
<1>5. \A s \in Records, g \in Gens : g > recs'[s].gen => procs'[s][g] = "none"
  BY <1>2, <1>4 DEF Unopened
<1>6. ASSUME NEW s \in spawning'
      PROVE  s.gen <= recs'[s.rec].gen /\ procs'[s.rec][s.gen] = "none"
  <2>1. CASE s \in spawning
    <3>1. s.rec \in Records /\ s.gen \in Gens /\ s.gen <= recs[s.rec].gen
          /\ procs[s.rec][s.gen] = "none"
      BY <2>1 DEF Unopened, Shapes, SpawnType
    <3>2. s.rec # r \/ s.gen # new.gen
      BY <1>2, <3>1
    <3>3. s.gen \in Nat /\ recs[s.rec].gen \in Nat
      BY <1>2, <3>1
    <3>4. s.gen <= recs'[s.rec].gen
      BY <1>2, <3>1, <3>3
    <3> QED
      BY <1>4, <3>1, <3>2, <3>4
  <2>2. CASE s \notin spawning
    <3>1. s = [rec |-> r, gen |-> new.gen] /\ procs' = procs
      BY <1>1, <2>2
    <3> QED
      BY <1>2, <1>3, <3>1
  <2> QED
    BY <2>1, <2>2
<1>7. ASSUME NEW w \in Watchers, look'[w].at # "idle"
      PROVE  look'[w].gen <= recs'[look'[w].rec].gen
  <2>1. look[w].rec \in Records /\ look[w].gen \in Nat /\ look[w].gen <= recs[look[w].rec].gen
        /\ look'[w] = look[w]
    BY <1>2, <1>7 DEF Shapes, LookType, Unopened
  <2> QED
    BY <1>2, <2>1
<1> QED
  BY <1>5, <1>6, <1>7 DEF Unopened

LEMMA UnopenedNext == TrackInv /\ TypesInv' /\ [Next]_vars => Unopened'
<1> SUFFICES ASSUME TrackInv, TypesInv', [Next]_vars PROVE Unopened'
  OBVIOUS
<1>1. /\ Unopened /\ Types /\ Shapes /\ Absent /\ Known /\ Asked /\ Shapes'
      /\ cur \in {0} \cup Records /\ recs \in [Records -> RecordType]
      /\ req \in [Requests -> RequestType]
      /\ Types'
  BY DEF TrackInv, TypesInv, TimerInv, Types
<1>2. /\ \A r \in Records : recs[r].gen \in Nat /\ recs[r].gen <= recs[r].gen
      /\ \A q \in Requests : q \in Watchers
      /\ Idle.at = "idle"
  <2>1. \A r \in Records : recs[r].gen \in Gens
    BY <1>1 DEF RecordType
  <2>2. \A g \in Gens : g \in Nat /\ g <= g
    BY Counted
  <2> QED
    BY <2>1, <2>2 DEF Watchers, Idle
<1>3. ASSUME \A r \in Records : recs'[r].gen = recs[r].gen, UNCHANGED <<procs, spawning>>,
             NEW w \in Watchers,
             \/ look' = look
             \/ look' = [look EXCEPT ![w] = Idle]
             \/ look' = [look EXCEPT ![w] = [@ EXCEPT !.at = "settle"]] /\ look[w].at # "idle"
             \/ \E r \in Records : look' = [look EXCEPT ![w] = Looking(r)]
             \/ \E r \in Records : look' = [look EXCEPT ![w] = Looking(r)']
      PROVE  Unopened'
  <2>1. ASSUME NEW v \in Watchers
        PROVE  \/ look'[v].at = "idle" \/ look'[v] = look[v]
               \/ look'[v].gen <= recs[look'[v].rec].gen
    <3>1. CASE v # w
      BY <1>1, <1>3, <3>1 DEF Shapes
    <3>2. CASE v = w
      <4>1. CASE look' = look \/ look' = [look EXCEPT ![w] = Idle]
        BY <1>1, <1>2, <3>2, <4>1 DEF Shapes
      <4>2. CASE look' = [look EXCEPT ![w] = [@ EXCEPT !.at = "settle"]] /\ look[w].at # "idle"
        BY <1>1, <3>2, <4>2 DEF Shapes, LookType, Unopened
      <4>3. CASE \E r \in Records : look' = [look EXCEPT ![w] = Looking(r)]
        BY <1>1, <1>2, <3>2, <4>3 DEF Shapes, Looking
      <4>4. CASE \E r \in Records : look' = [look EXCEPT ![w] = Looking(r)']
        BY <1>1, <1>2, <1>3, <3>2, <4>4 DEF Shapes, Looking
      <4> QED
        BY <1>3, <4>1, <4>2, <4>3, <4>4
    <3> QED
      BY <3>1, <3>2
  <2> QED
    BY <1>1, <1>3, <2>1, UnopenedKept
<1>4. \A r \in Records : recs[r] = recs'[r] => recs'[r].gen = recs[r].gen
  OBVIOUS
<1>5. ASSUME NEW r \in Records, NEW gen, NEW bad \in BOOLEAN, SettleNow(r, gen, bad)
      PROVE  \A s \in Records : recs'[s].gen = recs[s].gen
  <2>1. SettledWith(recs[r], bad).gen = recs[r].gen
    BY <1>1, SettledFacts
  <2> QED
    BY <1>1, <1>5, <2>1 DEF SettleNow
<1>6. ASSUME NEW q \in Requests, Request(q) PROVE Unopened'
  <2>1. CASE StartArrives(q)
    <3>1. look' = look \/ \E r \in Records : look' = [look EXCEPT ![q] = Looking(r)]
      BY <1>1, <2>1 DEF StartArrives
    <3> QED
      BY <1>2, <1>3, <2>1, <3>1 DEF StartArrives
  <2>2. CASE RequestArrives(q)
    <3>1. \E r \in Records : look' = [look EXCEPT ![q] = Looking(r)]
      BY <1>1, <2>2 DEF RequestArrives
    <3> QED
      BY <1>2, <1>3, <2>2, <3>1 DEF RequestArrives
  <2>3. CASE Answer(q) \/ NothingToStop(q) \/ WaitEnds(q) \/ OpenFails(q)
    BY <1>2, <1>3, <2>3 DEF Answer, NothingToStop, WaitEnds, OpenFails
  <2>4. CASE Detach(q)
    <3>1. PICK r \in Records : r = req[q].rec
      BY <1>1, <2>4 DEF Detach, Refreshed, RequestType, Known
    <3>2. req'[q].rec = r
      BY <1>1, <2>4, <3>1 DEF Detach, RequestType
    <3>3. look' = [look EXCEPT ![q] = Looking(r)']
      BY <2>4, <3>1, <3>2 DEF Detach, Looking
    <3>4. recs' = [recs EXCEPT ![r] = [recs[r] EXCEPT !.det = TRUE]]
      BY <1>1, <2>4, <3>1 DEF Detach
    <3>5. \A s \in Records : recs'[s].gen = recs[s].gen
      BY <1>1, <3>4 DEF RecordType
    <3>6. UNCHANGED <<procs, spawning>> /\ q \in Watchers
      BY <1>2, <2>4 DEF Detach
    <3>7. \E s \in Records : look' = [look EXCEPT ![q] = Looking(s)']
      BY <3>3
    <3> QED
      BY <1>3, <3>5, <3>6, <3>7
  <2>5. CASE Stop(q)
    <3>1. PICK r \in Records : r = req[q].rec
      BY <1>1, <2>5 DEF Stop, Refreshed, RequestType, Known
    <3>2. Stopped(recs[r]).gen = recs[r].gen
      BY <1>1 DEF Stopped, RecordType
    <3>3. recs' = [recs EXCEPT ![r] = Stopped(recs[r])]
      BY <1>1, <2>5, <3>1 DEF Stop
    <3>4. \A s \in Records : recs'[s].gen = recs[s].gen
      BY <1>1, <3>2, <3>3
    <3> QED
      BY <1>2, <1>3, <2>5, <3>4 DEF Stop
  <2>6. CASE Killed(q)
    <3>1. PICK r \in Records, k \in Gens : r = req[q].rec /\ k = req[q].kill
      BY <1>1, <2>6 DEF Killed, RequestType, Known, Asked
    <3>2. UNCHANGED <<recs, spawning, look>>
      BY <2>6 DEF Killed
    <3>3. \/ procs' = procs
          \/ procs[r][k] = "alive" /\ \E st : procs' = [procs EXCEPT ![r][k] = st]
      BY <2>6, <3>1 DEF Killed
    <3>4. \A s \in Records, g \in Gens : procs[s][g] = "none" => procs'[s][g] = "none"
      BY <1>1, <3>3 DEF Shapes
    <3> QED
      BY <1>1, <3>2, <3>4, UnopenedKept
  <2>7. CASE StartOpens(q)
    <3>1. PICK r \in Records : r = cur + 1
      BY <2>7 DEF StartOpens
    <3>2. PICK spec \in Specs : Launch(r, Fresh(spec))
      BY <2>7, <3>1 DEF StartOpens
    <3>3. Fresh(spec) \in RecordType /\ Fresh(spec).gen = 0
      BY DaemonRecordAssumption, Counted DEF Fresh, NoRecord, RecordType, None
    <3>4. recs[r].gen = 0
      <4>1. r > cur
        BY <1>1, <3>1, Counted
      <4> QED
        BY <1>1, <4>1 DEF Absent, NoneBeyond, NoRecord
    <3>5. UNCHANGED look
      BY <2>7 DEF StartOpens
    <3> QED
      BY <1>1, <3>2, <3>3, <3>4, <3>5, UnopenedLaunch
  <2>8. CASE RestartOpens(q)
    <3>1. PICK r \in Records : r = req[q].rec
      BY <1>1, <2>8 DEF RestartOpens, RequestType, Known
    <3>2. Launch(r, recs[r]) /\ UNCHANGED look /\ recs[r] \in RecordType
      BY <1>1, <2>8, <3>1 DEF RestartOpens
    <3> QED
      BY <1>1, <3>2, UnopenedLaunch
  <2> QED
    BY <1>6, <2>1, <2>2, <2>3, <2>4, <2>5, <2>6, <2>7, <2>8 DEF Request
<1>7. ASSUME NEW w \in Watchers, Refresh(w) PROVE Unopened'
  <2>1. CASE Look(w)
    <3>1. \/ look' = [look EXCEPT ![w] = Idle]
          \/ look' = [look EXCEPT ![w] = [@ EXCEPT !.at = "settle"]] /\ look[w].at # "idle"
      BY <2>1 DEF Look
    <3> QED
      BY <1>3, <2>1, <3>1 DEF Look
  <2>2. CASE LookSettles(w)
    <3>1. PICK r \in Records : r = look[w].rec
      BY <1>1 DEF Shapes, LookType
    <3>2. \A s \in Records : recs'[s].gen = recs[s].gen
      BY <1>5, <2>2, <3>1 DEF LookSettles
    <3> QED
      BY <1>3, <2>2, <3>2 DEF LookSettles
  <2> QED
    BY <1>7, <2>1, <2>2 DEF Refresh
<1>8. ASSUME MonitorLooks PROVE Unopened'
  <2>1. "monitor" \in Watchers
    BY DEF Watchers
  <2> QED
    BY <1>3, <1>8, <2>1, Counted DEF MonitorLooks
<1>9. ASSUME NEW r \in Records, NEW g \in Gens, Process(r, g) PROVE Unopened'
  <2>1. procs[r][g] # "none" /\ UNCHANGED <<spawning, look>>
    BY <1>9 DEF Process, ProcExit, ExitHeard, ExitSettles
  <2>2. \E st : procs' = [procs EXCEPT ![r][g] = st]
    BY <1>9 DEF Process, ProcExit, ExitHeard, ExitSettles
  <2>3. recs' = recs \/ \E bad \in BOOLEAN : SettleNow(r, g, bad)
    BY <1>9 DEF Process, ProcExit, ExitHeard, ExitSettles
  <2>4. \A s \in Records : recs'[s].gen = recs[s].gen
    BY <1>5, <2>3
  <2>5. \A s \in Records, k \in Gens : procs[s][k] = "none" => procs'[s][k] = "none"
    BY <1>1, <2>1, <2>2 DEF Shapes
  <2> QED
    BY <1>1, <2>1, <2>4, <2>5, UnopenedKept
<1>10. ASSUME NEW s \in spawning, Spawn(s) PROVE Unopened'
  <2>1. PICK r \in Records, g \in Gens : s = [rec |-> r, gen |-> g]
    BY <1>1 DEF Shapes, SpawnType
  <2>2. spawning' = spawning \ {s} /\ UNCHANGED look
    BY <1>10 DEF Spawn
  <2>3. \E st : procs' = [procs EXCEPT ![r][g] = st]
    BY <1>10, <2>1 DEF Spawn
  <2>4. recs' = recs \/ recs' = [recs EXCEPT ![r] = [recs[r] EXCEPT !.own = g, !.pid = g]]
    <3>1. s.rec = r /\ s.gen = g
      BY <2>1
    <3>2. recs' = recs \/ recs' = [recs EXCEPT ![r].own = g, ![r].pid = g]
      BY <1>10, <3>1 DEF Spawn
    <3> QED
      BY <1>1, <3>2
  <2>5. \A t \in Records : recs'[t].gen = recs[t].gen
    <3>1. recs[r] \in RecordType /\ [recs[r] EXCEPT !.own = g, !.pid = g].gen = recs[r].gen
      BY <1>1 DEF RecordType
    <3> QED
      BY <1>1, <2>4, <3>1
  <2>6. \A t \in Records, k \in Gens : procs[t][k] = "none" =>
            procs'[t][k] = "none" \/ [rec |-> t, gen |-> k] \in spawning \ spawning'
    BY <1>1, <2>1, <2>2, <2>3 DEF Shapes
  <2> QED
    BY <1>1, <2>2, <2>5, <2>6, UnopenedKept
<1>11. ASSUME NEW r \in Records, TimerFires(r) PROVE Unopened'
  <2> DEFINE rec == [recs[r] EXCEPT !.armed = @ - 1, !.held = FALSE]
  <2>1. Launch(r, rec) /\ UNCHANGED look /\ recs[r].armed > 0
    BY <1>11 DEF TimerFires
  <2>2. rec \in RecordType /\ rec.gen = recs[r].gen
    <3>1. recs[r].armed - 1 \in Nat /\ recs[r] \in RecordType
      BY <1>1, <2>1 DEF RecordType
    <3> QED
      BY <3>1 DEF RecordType
  <2> HIDE DEF rec
  <2> QED
    BY <1>1, <2>1, <2>2, UnopenedLaunch
<1>12. CASE UNCHANGED vars
  BY <1>1, <1>12 DEF vars, Unopened
<1> QED
  BY <1>6, <1>7, <1>8, <1>9, <1>10, <1>11, <1>12 DEF Next

-----------------------------------------------------------------------------
(* A step that opens no process and keeps the generations keeps the process  *)
(* the broker shows, as long as what it settles, and what it sends on its    *)
(* way, is without one.                                                      *)
LEMMA ProcessKept ==
  ASSUME TrackInv, OnProcess, TypesInv', cur' = cur,
         \A r \in Records, g \in Gens : Live(r, g)' => Live(r, g),
         spawning' \subseteq spawning,
         \A r \in Records : recs'[r].gen = recs[r].gen,
         \A r \in Records :
            \/ \A g \in Gens : ~Live(r, g)'
            \/ recs'[r].pid = recs[r].pid /\ recs'[r].state \in {recs[r].state, "stopping"},
         \A r \in Records : Unspawned(r)' \/ recs'[r].state = recs[r].state,
         \A w \in Watchers :
            \/ look'[w] = look[w] \/ look'[w].at # "settle"
            \/ \E r \in Records : r = look'[w].rec /\ Vacant(r)',
         \A q \in Requests :
            \/ req'[q] = req[q] \/ req'[q].rec = 0 \/ req'[q].pc \notin AfterStop
            \/ Overtaken(q)'
            \/ \E r \in Records : r = req'[q].rec /\ Vacant(r)'
            \/ /\ req'[q].pc = "killing"
               /\ \E r \in Records :
                     /\ r = req'[q].rec /\ Unspawned(r)'
                     /\ \A g \in Gens : Live(r, g)' => g = req'[q].kill
  PROVE  OnProcess'
<1>1. /\ Shapes /\ Types /\ Shapes' /\ Types'
      /\ Tracks /\ SpawnsCurrent /\ LooksVacant /\ StopsVacant
  BY DEF TrackInv, TypesInv, TimerInv, OnProcess
<1>2. \A r \in Records : Vacant(r) => Vacant(r)'
  BY DEF Vacant, Unspawned
<1>3. Tracks'
  <2> SUFFICES ASSUME NEW r \in Records, NEW g \in Gens, Live(r, g)'
               PROVE  /\ r = cur /\ g = recs'[r].gen
                      /\ recs'[r].state \in {"running", "stopping"} /\ recs'[r].pid = g
    BY DEF Tracks
  <2>1. Live(r, g)
    OBVIOUS
  <2>2. /\ r = cur /\ g = recs[r].gen
        /\ recs[r].state \in {"running", "stopping"} /\ recs[r].pid = g
    BY <1>1, <2>1 DEF Tracks
  <2> QED
    BY <2>2
<1>4. SpawnsCurrent'
  <2> SUFFICES ASSUME NEW s \in spawning'
               PROVE  s.rec = cur /\ s.gen = recs'[cur].gen /\ recs'[cur].state = "running"
    BY DEF SpawnsCurrent
  <2>1. s \in spawning /\ s.rec \in Records
    BY <1>1 DEF Shapes, SpawnType
  <2>2. s.rec = cur /\ s.gen = recs[cur].gen /\ recs[cur].state = "running"
    BY <1>1, <2>1 DEF SpawnsCurrent
  <2>3. ~Unspawned(s.rec)'
    BY DEF Unspawned
  <2> QED
    BY <2>1, <2>2, <2>3
<1>5. LooksVacant'
  <2> SUFFICES ASSUME NEW w \in Watchers, look'[w].at = "settle",
                      NEW r \in Records, r = look'[w].rec, look'[w].gen = recs'[r].gen
               PROVE  Vacant(r)'
    <3>1. \A w \in Watchers : look'[w].rec \in Records
      BY <1>1 DEF Shapes, LookType
    <3> QED
      BY <3>1 DEF LooksVacant, Vacant, Unspawned, Live
  <2>1. CASE look'[w] = look[w]
    BY <1>1, <1>2, <2>1 DEF LooksVacant
  <2> QED
    BY <2>1
<1>6. StopsVacant'
  <2> SUFFICES ASSUME NEW q \in Requests, NEW r \in Records, r = req'[q].rec,
                      recs'[r].gen = req'[q].gen, r = cur, req'[q].pc \in AfterStop,
                      r # 0, ~Vacant(r)', ~Overtaken(q)'
               PROVE  /\ req'[q].pc = "killing" /\ Unspawned(r)'
                      /\ \A g \in Gens : Live(r, g)' => g = req'[q].kill
    BY <1>1 DEF StopsVacant, Types, RequestType, Overtaken, KillsIt, Vacant, Unspawned, Live, AfterStop
  <2>1. CASE req'[q] = req[q]
    <3>1. recs[r].gen = req[q].gen /\ r = req[q].rec /\ req[q].rec # 0 /\ ~Overtaken(q)
      BY <2>1 DEF Overtaken
    <3>2. req[q].pc = "killing" /\ KillsIt(q)
      BY <1>1, <1>2, <2>1, <3>1 DEF StopsVacant
    <3>3. Unspawned(r)'
      BY <3>1, <3>2 DEF KillsIt, Unspawned
    <3> QED
      BY <2>1, <3>1, <3>2, <3>3 DEF KillsIt
  <2> QED
    BY <2>1
<1> QED
  BY <1>3, <1>4, <1>5, <1>6 DEF OnProcess

(* A launch where no record has a process gives the current one its process. *)
LEMMA LaunchTracks ==
  ASSUME TrackInv, OnProcess, TypesInv', UNCHANGED look,
         \A p \in Requests : req'[p] \in {req[p], Done},
         NEW r \in Records, r = cur', \A s \in Records : Vacant(s),
         NEW rec \in RecordType, rec.gen = recs[r].gen, Launch(r, rec)
  PROVE  OnProcess'
<1>1. PICK new \in RecordType :
           /\ recs' = [recs EXCEPT ![r] = new]
           /\ new.gen = rec.gen + 1 /\ new.gen \in Gens
           /\ \/ /\ new.state = "running" /\ procs' = procs
                 /\ spawning' = spawning \cup {[rec |-> r, gen |-> new.gen]}
              \/ /\ new.state = "running" /\ new.pid = new.gen /\ spawning' = spawning
                 /\ procs' = [procs EXCEPT ![r][new.gen] = "alive"]
              \/ procs' = procs /\ spawning' = spawning
  BY LaunchOutcome
<1>2. /\ Shapes /\ Types /\ Shapes' /\ Types' /\ Known /\ Unopened
      /\ recs \in [Records -> RecordType] /\ req \in [Requests -> RequestType]
  BY DEF TrackInv, TypesInv, TimerInv, Types
<1>3. /\ \A s \in Records : recs'[s] = IF s = r THEN new ELSE recs[s]
      /\ \A s \in Records : recs[s].gen \in Nat
      /\ new.gen = recs[r].gen + 1
  BY <1>1, <1>2, Counted DEF RecordType
<1>4. /\ spawning = {} /\ \A s \in Records, g \in Gens : ~Live(s, g)
  BY <1>2 DEF Vacant, Unspawned, Shapes, SpawnType
<1>5. ASSUME NEW s \in Records, NEW g \in Gens, Live(s, g)'
      PROVE  s = r /\ g = new.gen /\ new.pid = g /\ new.state = "running"
  BY <1>1, <1>2, <1>4, <1>5 DEF Live, Shapes
<1>6. ASSUME NEW s \in spawning'
      PROVE  s.rec = r /\ s.gen = new.gen /\ new.state = "running"
  BY <1>1, <1>4, <1>6
<1>7. \A s \in Records : s # r => Vacant(s)'
  BY <1>5, <1>6 DEF Vacant, Unspawned
<1>8. Tracks'
  BY <1>3, <1>5 DEF Tracks
<1>9. SpawnsCurrent'
  BY <1>3, <1>6 DEF SpawnsCurrent
<1>10. LooksVacant'
  <2> SUFFICES ASSUME NEW w \in Watchers, look[w].at = "settle",
                      NEW s \in Records, s = look[w].rec, look[w].gen = recs'[s].gen
               PROVE  Vacant(s)'
    BY <1>2 DEF LooksVacant, Shapes, LookType, Vacant, Unspawned, Live
  <2>1. look[w].gen <= recs[s].gen
    BY <1>2 DEF Unopened
  <2> QED
    BY <1>3, <1>7, <2>1
<1>11. StopsVacant'
  <2> SUFFICES ASSUME NEW q \in Requests, req'[q].rec # 0, ~Overtaken(q)',
                      req'[q].pc \in AfterStop
               PROVE  FALSE
    BY DEF StopsVacant, AfterStop
  <2>1. req'[q] = req[q]
    BY DEF Done, NoRequest, AfterStop
  <2>2. req[q].rec = r /\ req[q].gen = recs'[r].gen
    BY <2>1 DEF Overtaken
  <2>3. req[q].gen <= recs[r].gen
    BY <1>2, <2>1, <2>2 DEF Known
  <2> QED
    BY <1>3, <2>2, <2>3
<1> QED
  BY <1>8, <1>9, <1>10, <1>11 DEF OnProcess

(* Where there is no process.                                                *)
LEMMA VacantFacts ==
  ASSUME TrackInv, OnProcess, NEW r \in Records
  PROVE  /\ r # cur => Vacant(r)
         /\ recs[r].state \notin {"running", "stopping"} => Vacant(r)
         /\ procs[r][recs[r].gen] \notin {"none", "alive"} => Vacant(r)
         /\ [rec |-> r, gen |-> recs[r].gen] \notin spawning => Unspawned(r)
<1>1. /\ Shapes /\ Types /\ Tracks /\ SpawnsCurrent /\ Unopened
  BY DEF TrackInv, TypesInv, TimerInv, OnProcess
<1>2. \A g \in Gens : Live(r, g) =>
         /\ r = cur /\ g = recs[r].gen /\ procs[r][g] = "alive"
         /\ recs[r].state \in {"running", "stopping"}
  BY <1>1 DEF Tracks, Live
<1>3. ASSUME NEW s \in spawning, s.rec = r
      PROVE  /\ r = cur /\ recs[r].state = "running"
             /\ s = [rec |-> r, gen |-> recs[r].gen] /\ procs[r][recs[r].gen] = "none"
  <2>1. s = [rec |-> s.rec, gen |-> s.gen]
    BY <1>1 DEF Shapes, SpawnType
  <2> QED
    BY <1>1, <1>3, <2>1 DEF SpawnsCurrent, Unopened
<1> QED
  BY <1>2, <1>3 DEF Vacant, Unspawned

(* A step that settles one generation of a record, if it does, finds it      *)
(* without a process.                                                        *)
LEMMA SettleTracks ==
  ASSUME TrackInv, OnProcess, TypesInv', UNCHANGED <<cur, req, spawning>>,
         NEW r \in Records, NEW gen, NEW bad \in BOOLEAN, SettleNow(r, gen, bad),
         gen = recs[r].gen => Vacant(r),
         \A s \in Records, g \in Gens : Live(s, g)' => Live(s, g),
         \A w \in Watchers : look'[w] = look[w] \/ look'[w].at # "settle"
  PROVE  OnProcess'
<1>1. recs \in [Records -> RecordType]
  BY DEF TrackInv, TypesInv, TimerInv, Types
<1>2. SettledWith(recs[r], bad).gen = recs[r].gen
  BY <1>1, SettledFacts
<1>3. /\ \A s \in Records : recs'[s].gen = recs[s].gen
      /\ \A s \in Records : recs'[s] = recs[s] \/ (s = r /\ Vacant(r))
  BY <1>1, <1>2 DEF SettleNow, Settles
<1>4. Vacant(r) => Vacant(r)'
  BY DEF Vacant, Unspawned
<1>5. \A s \in Records :
         /\ \/ \A g \in Gens : ~Live(s, g)'
            \/ recs'[s].pid = recs[s].pid /\ recs'[s].state \in {recs[s].state, "stopping"}
         /\ Unspawned(s)' \/ recs'[s].state = recs[s].state
  BY <1>3, <1>4 DEF Vacant
<1> QED
  BY <1>3, <1>5, ProcessKept

LEMMA OutsideTracks ==
  ASSUME TrackInv, OnProcess, TypesInv', ~strayed',
         \/ \E r \in Records, g \in Gens : Process(r, g)
         \/ \E w \in Watchers : Refresh(w)
         \/ MonitorLooks
         \/ \E s \in spawning : Spawn(s)
  PROVE  OnProcess'
<1>1. /\ Shapes /\ Types /\ Shapes' /\ Unopened
      /\ Tracks /\ SpawnsCurrent /\ LooksVacant /\ StopsVacant
      /\ recs \in [Records -> RecordType] /\ req \in [Requests -> RequestType]
  BY DEF TrackInv, TypesInv, TimerInv, Types, OnProcess
<1>2. ASSUME NEW r \in Records, NEW g \in Gens, Process(r, g) PROVE OnProcess'
  <2>1. \A s \in Records, k \in Gens : Live(s, k)' => Live(s, k)
    <3>1. \E st : st # "alive" /\ procs' = [procs EXCEPT ![r][g] = st]
      BY <1>2 DEF Process, ProcExit, ExitHeard, ExitSettles
    <3> QED
      BY <1>1, <3>1 DEF Shapes, Live
  <2>2. UNCHANGED <<cur, req, spawning, look>>
    BY <1>2 DEF Process, ProcExit, ExitHeard, ExitSettles
  <2>3. CASE recs' = recs
    BY <2>1, <2>2, <2>3, ProcessKept
  <2>4. CASE recs' # recs
    <3>1. PICK bad \in BOOLEAN : SettleNow(r, g, bad)
      BY <1>2, <2>4 DEF Process, ProcExit, ExitHeard, ExitSettles
    <3>2. procs[r][g] \in {"dead", "settling"}
      BY <1>2, <2>4 DEF Process, ProcExit, ExitHeard, ExitSettles
    <3>3. g = recs[r].gen => Vacant(r)
      BY <3>2, VacantFacts
    <3> QED
      BY <2>1, <2>2, <3>1, <3>3, SettleTracks
  <2> QED
    BY <2>3, <2>4
<1>3. ASSUME NEW w \in Watchers, Look(w) PROVE OnProcess'
  <2>1. PICK r \in Records : r = look[w].rec
    BY <1>1 DEF Shapes, LookType
  <2>2. UNCHANGED <<cur, recs, procs, spawning, req>>
    BY <1>3 DEF Look
  <2>3. \A v \in Watchers : v # w => look'[v] = look[v]
    BY <1>1, <1>3 DEF Look, Shapes
  <2>4. look'[w].at # "settle" \/ (look'[w].rec = r /\ Vacant(r)')
    <3>1. CASE look' = [look EXCEPT ![w] = Idle]
      BY <1>1, <3>1 DEF Shapes, Idle
    <3>2. CASE look' # [look EXCEPT ![w] = Idle]
      <4>1. /\ look' = [look EXCEPT ![w] = [@ EXCEPT !.at = "settle"]]
            /\ Gone(r) /\ [rec |-> r, gen |-> recs[r].gen] \notin spawning
        BY <1>3, <2>1, <3>2 DEF Look, Strays
      <4>2. \A g \in Gens : ~Live(r, g)
        BY <1>1, <4>1, Counted DEF Gone, Tracks, Live, None
      <4>3. Vacant(r)
        BY <4>1, <4>2, VacantFacts DEF Vacant
      <4>4. Vacant(r)'
        BY <2>2, <4>3 DEF Vacant, Unspawned, Live
      <4>5. look'[w].rec = r
        BY <1>1, <2>1, <4>1 DEF Shapes, LookType
      <4> QED
        BY <4>4, <4>5
    <3> QED
      BY <3>1, <3>2
  <2>5. \A s \in Records, g \in Gens : Live(s, g)' => Live(s, g)
    BY <2>2 DEF Live
  <2> QED
    BY <2>2, <2>3, <2>4, <2>5, ProcessKept
<1>4. ASSUME NEW w \in Watchers, LookSettles(w) PROVE OnProcess'
  <2>1. PICK r \in Records : r = look[w].rec
    BY <1>1 DEF Shapes, LookType
  <2>2. /\ SettleNow(r, look[w].gen, FALSE) /\ look' = [look EXCEPT ![w] = Idle]
        /\ UNCHANGED <<cur, req, spawning, procs>> /\ look[w].at = "settle"
    BY <1>4, <2>1 DEF LookSettles
  <2>3. look[w].gen = recs[r].gen => Vacant(r)
    BY <1>1, <2>1, <2>2 DEF LooksVacant
  <2>4. \A s \in Records, g \in Gens : Live(s, g)' => Live(s, g)
    BY <2>2 DEF Live
  <2>5. \A v \in Watchers : look'[v] = look[v] \/ look'[v].at # "settle"
    BY <1>1, <2>2 DEF Shapes, Idle
  <2> QED
    BY <2>2, <2>3, <2>4, <2>5, SettleTracks
<1>5. ASSUME MonitorLooks PROVE OnProcess'
  <2>1. /\ look' = [look EXCEPT !["monitor"] = Looking(1)]
        /\ UNCHANGED <<cur, recs, procs, spawning, req>>
    BY <1>5 DEF MonitorLooks
  <2>2. \A v \in Watchers : look'[v] = look[v] \/ look'[v].at # "settle"
    BY <1>1, <2>1 DEF Shapes, Looking, Idle
  <2>3. \A s \in Records, g \in Gens : Live(s, g)' => Live(s, g)
    BY <2>1 DEF Live
  <2> QED
    BY <2>1, <2>2, <2>3, ProcessKept
<1>6. ASSUME NEW s \in spawning, Spawn(s) PROVE OnProcess'
  <2>1. PICK r \in Records, g \in Gens : s = [rec |-> r, gen |-> g]
    BY <1>1 DEF Shapes, SpawnType
  <2>2. s.rec = r /\ s.gen = g
    BY <2>1
  <2>3. /\ r = cur /\ g = recs[r].gen /\ recs[r].state = "running"
        /\ procs[r][g] = "none"
    BY <1>1, <2>2 DEF SpawnsCurrent, Unopened
  <2>4. UNCHANGED <<cur, look, req>> /\ spawning' = spawning \ {s}
    BY <1>6 DEF Spawn
  <2>5. CASE UNCHANGED recs /\ procs' = [procs EXCEPT ![r][g] = "dead"]
    <3>1. \A t \in Records, k \in Gens : Live(t, k)' => Live(t, k)
      BY <1>1, <2>5 DEF Shapes, Live
    <3> QED
      BY <2>4, <2>5, <3>1, ProcessKept
  <2>6. CASE /\ procs' = [procs EXCEPT ![r][g] = "alive"]
             /\ recs' = [recs EXCEPT ![r].own = g, ![r].pid = g]
    <3>1. recs' = [recs EXCEPT ![r] = [recs[r] EXCEPT !.own = g, !.pid = g]]
      BY <1>1, <2>6
    <3>2. /\ \A t \in Records : recs'[t].gen = recs[t].gen /\ recs'[t].state = recs[t].state
          /\ recs'[r].pid = g
      <4>1. recs[r] \in RecordType
        BY <1>1
      <4>2. /\ [recs[r] EXCEPT !.own = g, !.pid = g].gen = recs[r].gen
            /\ [recs[r] EXCEPT !.own = g, !.pid = g].state = recs[r].state
            /\ [recs[r] EXCEPT !.own = g, !.pid = g].pid = g
        BY <4>1 DEF RecordType
      <4> QED
        BY <1>1, <3>1, <4>2
    <3>3. \A t \in Records, k \in Gens : Live(t, k)' => t = r /\ k = g
      <4>1. \A t \in Records, k \in Gens : Live(t, k)' => Live(t, k) \/ (t = r /\ k = g)
        BY <1>1, <2>6 DEF Shapes, Live
      <4>2. \A t \in Records, k \in Gens : Live(t, k) => t = r /\ k = g
        BY <1>1, <2>3 DEF Tracks
      <4> QED
        BY <4>1, <4>2
    <3>4. \A t \in Records : Vacant(t) => Vacant(t)'
      <4>1. ~Vacant(r)
        BY <2>2 DEF Vacant, Unspawned
      <4> QED
        BY <2>4, <3>3, <4>1 DEF Vacant, Unspawned
    <3>5. Tracks'
      BY <2>3, <2>4, <3>2, <3>3 DEF Tracks
    <3>6. SpawnsCurrent'
      BY <1>1, <2>3, <2>4, <3>2 DEF SpawnsCurrent
    <3>7. LooksVacant'
      <4> SUFFICES ASSUME NEW w \in Watchers, look[w].at = "settle",
                          NEW t \in Records, t = look[w].rec, look[w].gen = recs'[t].gen
                   PROVE  Vacant(t)'
        BY <1>1, <2>4 DEF LooksVacant, Shapes, LookType, Vacant, Unspawned, Live
      <4> QED
        BY <1>1, <3>2, <3>4 DEF LooksVacant
    <3>8. StopsVacant'
      <4> SUFFICES ASSUME NEW q \in Requests, req[q].rec # 0, req[q].pc \in AfterStop,
                          req[q].rec = cur, recs'[cur].gen = req[q].gen
                   PROVE  FALSE
        BY <2>4 DEF StopsVacant, Overtaken, AfterStop
      <4>1. ~Overtaken(q) /\ req[q].rec = r
        BY <2>3, <3>2 DEF Overtaken
      <4>2. ~Vacant(r) /\ ~Unspawned(r)
        BY <2>2 DEF Vacant, Unspawned
      <4> QED
        BY <1>1, <4>1, <4>2 DEF StopsVacant, KillsIt
    <3> QED
      BY <3>5, <3>6, <3>7, <3>8 DEF OnProcess
  <2> QED
    BY <1>6, <2>2, <2>5, <2>6 DEF Spawn
<1> QED
  BY <1>2, <1>3, <1>4, <1>5, <1>6 DEF Refresh

(* The steps of a request.                                                   *)
LEMMA RequestTracks ==
  ASSUME TrackInv, OnProcess, TypesInv', ~strayed', NEW q \in Requests, Request(q)
  PROVE  OnProcess'
<1>1. /\ Shapes /\ Types /\ Shapes' /\ Known /\ Absent /\ Asked
      /\ Tracks /\ SpawnsCurrent /\ LooksVacant /\ StopsVacant
      /\ recs \in [Records -> RecordType] /\ req \in [Requests -> RequestType]
      /\ cur \in {0} \cup Records /\ q \in Watchers
  BY DEF TrackInv, TypesInv, TimerInv, Types, OnProcess, Watchers
<1>2. ASSUME UNCHANGED <<cur, recs, procs, spawning>>,
             \A w \in Watchers : look'[w] = look[w] \/ look'[w].at # "settle",
             NEW new, req' = [req EXCEPT ![q] = new],
             \/ new.pc \notin AfterStop \/ new.rec = 0
             \/ \E r \in Records :
                   r = new.rec /\ (recs[r].gen = new.gen /\ r = cur => Vacant(r))
      PROVE  OnProcess'
  <2>1. \A r \in Records, g \in Gens : Live(r, g)' <=> Live(r, g)
    BY <1>2 DEF Live
  <2>2. \A r \in Records : Vacant(r) => Vacant(r)'
    BY <1>2, <2>1 DEF Vacant, Unspawned
  <2>3. \A p \in Requests : p # q => req'[p] = req[p]
    BY <1>1, <1>2
  <2>4. req'[q] = new
    BY <1>1, <1>2
  <2>5. \/ new.pc \notin AfterStop \/ new.rec = 0
        \/ Overtaken(q)'
        \/ \E r \in Records : r = req'[q].rec /\ Vacant(r)'
    BY <1>2, <2>2, <2>4 DEF Overtaken
  <2> QED
    BY <1>2, <2>1, <2>3, <2>4, <2>5, ProcessKept
<1>3. Done.pc \notin AfterStop
  BY DEF Done, NoRequest, AfterStop
<1>4. \A r \in Records : Looking(r).at # "settle" /\ Looking(r)'.at # "settle"
  BY DEF Looking, Idle
<1>5. ASSUME NEW r \in Records, look' = [look EXCEPT ![q] = Looking(r)]
      PROVE  \A w \in Watchers : look'[w] = look[w] \/ look'[w].at # "settle"
  BY <1>1, <1>4, <1>5 DEF Shapes
<1>6. CASE StartArrives(q)
  <2>1. \A w \in Watchers : look'[w] = look[w] \/ look'[w].at # "settle"
    <3>1. CASE look' = look
      BY <3>1
    <3>2. CASE look' # look
      <4>1. cur \in Records /\ look' = [look EXCEPT ![q] = Looking(cur)]
        BY <1>1, <1>6, <3>2 DEF StartArrives
      <4> QED
        BY <1>5, <4>1
    <3> QED
      BY <3>1, <3>2
  <2>2. \E new : /\ req' = [req EXCEPT ![q] = new]
                 /\ new.pc \notin AfterStop \/ new.rec = 0
    <3>1. CASE StartRefused
      BY <1>3, <1>6, <3>1 DEF StartArrives
    <3>2. CASE ~StartRefused
      BY <1>6, <3>2 DEF StartArrives, AfterStop
    <3> QED
      BY <3>1, <3>2
  <2> QED
    BY <1>2, <1>6, <2>1, <2>2 DEF StartArrives
<1>7. CASE RequestArrives(q)
  <2>1. \A w \in Watchers : look'[w] = look[w] \/ look'[w].at # "settle"
    BY <1>1, <1>5, <1>7 DEF RequestArrives
  <2>2. \E new : req' = [req EXCEPT ![q] = new] /\ new.pc \notin AfterStop
    BY <1>7 DEF RequestArrives, AfterStop
  <2> QED
    BY <1>2, <1>7, <2>1, <2>2 DEF RequestArrives
<1>8. CASE Answer(q) \/ OpenFails(q)
  BY <1>2, <1>3, <1>8 DEF Answer, OpenFails, Goes
<1>9. CASE Detach(q)
  <2>1. PICK r \in Records : r = req[q].rec
    BY <1>1, <1>9 DEF Detach, Refreshed, RequestType, Known
  <2>2. /\ UNCHANGED <<cur, procs, spawning>>
        /\ recs' = [recs EXCEPT ![r].det = TRUE]
        /\ req' = [req EXCEPT ![q].op = "restart"] /\ req[q].pc = "refreshing"
    BY <1>9, <2>1 DEF Detach, Refreshed
  <2>3. \A s \in Records : /\ recs'[s].gen = recs[s].gen /\ recs'[s].pid = recs[s].pid
                           /\ recs'[s].state = recs[s].state
    <3>1. recs' = [recs EXCEPT ![r] = [recs[r] EXCEPT !.det = TRUE]] /\ recs[r] \in RecordType
      BY <1>1, <2>2
    <3>2. /\ [recs[r] EXCEPT !.det = TRUE].gen = recs[r].gen
          /\ [recs[r] EXCEPT !.det = TRUE].pid = recs[r].pid
          /\ [recs[r] EXCEPT !.det = TRUE].state = recs[r].state
      BY <3>1 DEF RecordType
    <3> QED
      BY <1>1, <3>1, <3>2
  <2>4. \A w \in Watchers : look'[w] = look[w] \/ look'[w].at # "settle"
    <3>1. req'[q].rec = r
      BY <1>1, <2>1, <2>2 DEF RequestType
    <3>2. look' = [look EXCEPT ![q] = Looking(r)']
      BY <1>9, <2>1, <3>1 DEF Detach, Looking
    <3> QED
      BY <1>1, <1>4, <3>2 DEF Shapes
  <2>5. \A p \in Requests : req'[p] = req[p] \/ req'[p].pc \notin AfterStop
    BY <1>1, <2>2 DEF RequestType, AfterStop
  <2>6. \A s \in Records, g \in Gens : Live(s, g)' => Live(s, g)
    BY <2>2 DEF Live
  <2> QED
    BY <2>2, <2>3, <2>4, <2>5, <2>6, ProcessKept
<1>10. CASE NothingToStop(q)
  <2>1. CASE req[q].op = "stop"
    BY <1>2, <1>3, <1>10, <2>1 DEF NothingToStop, Goes
  <2>2. CASE req[q].op # "stop"
    <3>1. PICK r \in Records : r = req[q].rec
      BY <1>1, <1>10 DEF NothingToStop, Refreshed, RequestType, Known
    <3>2. Vacant(r)
      BY <1>10, <3>1, VacantFacts DEF NothingToStop, Terminal
    <3>3. \E pc, gen : req' = [req EXCEPT ![q].pc = pc, ![q].gen = gen]
      BY <1>10, <2>2 DEF NothingToStop
    <3>4. \E new : req' = [req EXCEPT ![q] = new] /\ new.rec = r
      <4>1. \E pc, gen : req' = [req EXCEPT ![q] = [req[q] EXCEPT !.pc = pc, !.gen = gen]]
        BY <1>1, <3>3
      <4>2. \A pc, gen : [req[q] EXCEPT !.pc = pc, !.gen = gen].rec = r
        BY <1>1, <3>1 DEF RequestType
      <4> QED
        BY <4>1, <4>2
    <3> QED
      BY <1>2, <1>10, <3>2, <3>4 DEF NothingToStop
  <2> QED
    BY <2>1, <2>2
<1>11. CASE WaitEnds(q)
  <2>1. req[q].pc = "waiting" /\ UNCHANGED <<cur, recs, procs, spawning, look>>
    BY <1>11 DEF WaitEnds
  <2>2. PICK r \in Records : r = req[q].rec /\ r # 0
    BY <1>1, <2>1 DEF RequestType, Known
  <2>3. CASE req' = [req EXCEPT ![q] = Done]
    BY <1>2, <1>3, <2>1, <2>3
  <2>4. CASE req' # [req EXCEPT ![q] = Done]
    <3>1. PICK pc : req' = [req EXCEPT ![q].pc = pc]
      BY <1>11, <2>4 DEF WaitEnds, Goes
    <3> DEFINE new == [req[q] EXCEPT !.pc = pc]
    <3>2. req' = [req EXCEPT ![q] = new]
      BY <1>1, <3>1
    <3>3. new.rec = r /\ new.gen = req[q].gen
      BY <1>1, <2>2 DEF RequestType
    <3>4. recs[r].gen = req[q].gen /\ r = cur => Vacant(r)
      BY <1>1, <2>1, <2>2 DEF StopsVacant, Overtaken, AfterStop
    <3> HIDE DEF new
    <3> QED
      BY <1>2, <2>1, <3>2, <3>3, <3>4
  <2> QED
    BY <2>3, <2>4
<1>12. CASE Killed(q)
  <2>1. req[q].pc = "killing" /\ UNCHANGED <<cur, recs, spawning, look>>
    BY <1>12 DEF Killed
  <2>2. PICK r \in Records, k \in Gens : r = req[q].rec /\ k = req[q].kill /\ r # 0
    BY <1>1, <2>1, Counted DEF RequestType, Known, Asked
  <2>3. /\ \A s \in Records, g \in Gens : Live(s, g)' => Live(s, g)
        /\ ~Live(r, k)'
    <3>1. \/ procs' = procs /\ procs[r][k] # "alive"
          \/ \E st \in {"told", "dead"} : procs' = [procs EXCEPT ![r][k] = st]
      BY <1>12, <2>2 DEF Killed
    <3> QED
      BY <1>1, <3>1 DEF Shapes, Live
  <2>4. req'[q].rec = r /\ req'[q].gen = req[q].gen
    <3>1. req' = [req EXCEPT ![q] = [req[q] EXCEPT !.pc = "waiting", !.kill = None]]
      BY <1>1, <1>12 DEF Killed
    <3> QED
      BY <1>1, <2>2, <3>1 DEF RequestType
  <2>5. \A p \in Requests : p # q => req'[p] = req[p]
    BY <1>1, <1>12 DEF Killed
  <2>6. Overtaken(q)' \/ Vacant(r)'
    <3> SUFFICES ASSUME ~Overtaken(q)' PROVE Vacant(r)'
      OBVIOUS
    <3>1. ~Overtaken(q)
      BY <2>1, <2>2, <2>4 DEF Overtaken
    <3>2. KillsIt(q)
      BY <1>1, <2>1, <2>2, <3>1 DEF StopsVacant
    <3>3. (\A g \in Gens : Live(r, g) => g = k) /\ Unspawned(r)
      BY <2>2, <3>2 DEF KillsIt
    <3> QED
      BY <2>1, <2>3, <3>3 DEF Vacant, Unspawned
  <2> QED
    BY <2>1, <2>3, <2>4, <2>5, <2>6, ProcessKept
<1>13. CASE Stop(q)
  <2>1. PICK r \in Records : r = req[q].rec /\ r # 0
    BY <1>1, <1>13 DEF Stop, Refreshed, RequestType, Known
  <2> DEFINE ask == [req[q] EXCEPT !.kill = recs[r].pid, !.gen = recs[r].gen,
                       !.pc = IF recs[r].pid = None THEN "waiting" ELSE "killing"]
  <2>2. /\ recs' = [recs EXCEPT ![r] = Stopped(recs[r])]
        /\ UNCHANGED <<cur, procs, spawning, look>>
        /\ [rec |-> r, gen |-> recs[r].gen] \notin spawning
        /\ req' = [req EXCEPT ![q] = ask]
    BY <1>1, <1>13, <2>1 DEF Stop, Strays
  <2>3. /\ ask.rec = r /\ ask.kill = recs[r].pid
        /\ ask.pc = IF recs[r].pid = None THEN "waiting" ELSE "killing"
    BY <1>1, <2>1 DEF RequestType
  <2> HIDE DEF ask
  <2>4. /\ Stopped(recs[r]).gen = recs[r].gen /\ Stopped(recs[r]).pid = recs[r].pid
        /\ recs[r].held \/ Stopped(recs[r]).state = "stopping"
    BY <1>1 DEF Stopped, RecordType
  <2>5. recs[r].held => Vacant(r)
    <3>1. recs[r].held => recs[r].state = "restarting"
      BY <1>13 DEF Stop, Strays, TrackInv, TypesInv, TimerInv, OnTrack, HoldsTimers
    <3> QED
      BY <3>1, VacantFacts
  <2>6. \A s \in Records, g \in Gens : Live(s, g)' <=> Live(s, g)
    BY <2>2 DEF Live
  <2>7. Unspawned(r)
    BY <2>2, VacantFacts
  <2>8. \A s \in Records : Unspawned(s)' <=> Unspawned(s)
    BY <2>2 DEF Unspawned
  <2>9. \A s \in Records : recs'[s] = IF s = r THEN Stopped(recs[r]) ELSE recs[s]
    BY <1>1, <2>2
  <2>10. \A p \in Requests : req'[p] = IF p = q THEN ask ELSE req[p]
    BY <1>1, <2>2
  <2>11. \A g \in Gens : Live(r, g) => g = recs[r].pid /\ recs[r].pid # None
    BY <1>1, Counted DEF Tracks, None
  <2>12. \A s \in Records :
           \/ \A g \in Gens : ~Live(s, g)'
           \/ recs'[s].pid = recs[s].pid /\ recs'[s].state \in {recs[s].state, "stopping"}
    BY <2>4, <2>5, <2>6, <2>9 DEF Vacant
  <2>13. \A s \in Records : Unspawned(s)' \/ recs'[s].state = recs[s].state
    BY <2>7, <2>8, <2>9
  <2>14. \/ /\ ask.pc = "killing" /\ Unspawned(r)'
            /\ \A g \in Gens : Live(r, g)' => g = ask.kill
         \/ Vacant(r)'
    BY <2>3, <2>6, <2>7, <2>8, <2>11 DEF Vacant
  <2>15. \A s \in Records : recs'[s].gen = recs[s].gen
    BY <2>4, <2>9
  <2> QED
    BY <2>2, <2>3, <2>6, <2>10, <2>12, <2>13, <2>14, <2>15, ProcessKept
<1>14. /\ \A p \in Requests : Done \in {req[p], Done}
       /\ req' = [req EXCEPT ![q] = Done] => \A p \in Requests : req'[p] \in {req[p], Done}
       /\ ~strayed => OnTrack
  BY <1>1 DEF TrackInv, TypesInv, TimerInv
<1>15. CASE StartOpens(q)
  <2>1. PICK r \in Records : r = cur + 1 /\ cur' = r
    BY <1>15 DEF StartOpens
  <2>2. PICK spec \in Specs : Launch(r, Fresh(spec))
    BY <1>15, <2>1 DEF StartOpens
  <2>3. Fresh(spec) \in RecordType /\ Fresh(spec).gen = 0
    BY DaemonRecordAssumption, Counted DEF Fresh, NoRecord, RecordType, None
  <2>4. /\ UNCHANGED look /\ req' = [req EXCEPT ![q] = Done] /\ req[q].pc = "opening"
        /\ ~strayed /\ (req[q].rec = 0 \/ ~Overtaken(q))
    BY <1>15 DEF StartOpens, Goes, Strays
  <2>5. recs[r].gen = 0
    <3>1. r > cur
      BY <1>1, <2>1, Counted
    <3> QED
      BY <1>1, <3>1 DEF Absent, NoneBeyond, NoRecord
  <2>6. ASSUME NEW s \in Records PROVE Vacant(s)
    <3>1. CASE s # cur
      BY <3>1, VacantFacts
    <3>2. CASE s = cur
      <4>1. req[q].rec # 0
        BY <1>14, <2>4, <3>2, Counted DEF OnTrack, StillNew
      <4>2. req[q].rec = cur /\ ~Overtaken(q)
        BY <2>4, <4>1 DEF Overtaken
      <4> QED
        BY <1>1, <2>4, <3>2, <4>1, <4>2 DEF StopsVacant, AfterStop
    <3> QED
      BY <3>1, <3>2
  <2> QED
    BY <1>14, <2>1, <2>2, <2>3, <2>4, <2>5, <2>6, LaunchTracks
<1>16. CASE RestartOpens(q)
  <2>1. PICK r \in Records : r = req[q].rec /\ r # 0
    BY <1>1, <1>16 DEF RestartOpens, RequestType, Known
  <2>2. /\ Launch(r, recs[r]) /\ UNCHANGED <<look, cur>> /\ recs[r] \in RecordType
        /\ req' = [req EXCEPT ![q] = Done] /\ req[q].pc = "reopening"
        /\ ~Overtaken(q)
    BY <1>1, <1>16, <2>1 DEF RestartOpens, Goes, Strays
  <2>3. r = cur /\ Vacant(r)
    BY <1>1, <2>1, <2>2 DEF StopsVacant, AfterStop, Overtaken
  <2>4. \A s \in Records : Vacant(s)
    BY <2>3, VacantFacts
  <2> QED
    BY <1>14, <2>2, <2>3, <2>4, LaunchTracks
<1> QED
  BY <1>6, <1>7, <1>8, <1>9, <1>10, <1>11, <1>12, <1>13, <1>15, <1>16 DEF Request

-----------------------------------------------------------------------------
LEMMA TrackInit == Init => TrackInv
<1> SUFFICES ASSUME Init PROVE TrackInv
  OBVIOUS
<1>1. TypesInv
  BY TypesInit
<1>2. /\ spawning = {} /\ \A w \in Watchers : look[w].at = "idle"
      /\ \A q \in Requests : req[q].rec = 0
  BY DEF Init, Idle, NoRequest
<1>3. /\ \A r \in Records : recs[r].gen = 0
      /\ \A r \in Records, g \in Gens : procs[r][g] # "none" =>
            /\ r = cur /\ g = 0 /\ recs[r].state = "running" /\ recs[r].pid = 0
  <2>1. CASE NothingThere
    BY <2>1 DEF NothingThere, NoRecord
  <2>2. CASE RecoveredThere
    BY <2>2 DEF RecoveredThere, Recovered, Fresh, NoRecord
  <2> QED
    BY <2>1, <2>2 DEF Init
<1>4. Unopened
  BY <1>2, <1>3, Counted DEF Unopened
<1>5. OnProcess
  BY <1>2, <1>3 DEF OnProcess, Tracks, Live, SpawnsCurrent, LooksVacant, StopsVacant
<1> QED
  BY <1>1, <1>4, <1>5 DEF TrackInv

LEMMA TrackNext == TrackInv /\ [Next]_vars => TrackInv'
<1> SUFFICES ASSUME TrackInv, [Next]_vars PROVE TrackInv'
  OBVIOUS
<1>1. TypesInv' /\ Unopened'
  BY TypesNext, UnopenedNext DEF TrackInv
<1>2. ASSUME ~strayed' PROVE OnProcess'
  <2>1. ~strayed
    <3>1. UNCHANGED strayed \/ \E x : strayed' = (strayed \/ x)
      BY DEF Next, vars, Request, StartArrives, RequestArrives, Answer, Detach, NothingToStop, Stop,
             Killed, WaitEnds, StartOpens, RestartOpens, OpenFails, Strays, Refresh, Look,
             LookSettles, MonitorLooks, Process, ProcExit, ExitHeard, ExitSettles, Spawn, TimerFires
    <3> QED
      BY <1>2, <3>1
  <2>2. OnProcess /\ Types /\ OnTrack /\ Absent
    BY <2>1 DEF TrackInv, TypesInv, TimerInv
  <2>3. ASSUME NEW r \in Records, TimerFires(r) PROVE OnProcess'
    <3> DEFINE rec == [recs[r] EXCEPT !.armed = @ - 1, !.held = FALSE]
    <3>1. Launch(r, rec) /\ UNCHANGED <<cur, look, req>> /\ recs[r].armed > 0
      BY <2>3 DEF TimerFires
    <3>2. rec \in RecordType /\ rec.gen = recs[r].gen
      <4>1. recs[r].armed - 1 \in Nat /\ recs[r] \in RecordType
        BY <2>2, <3>1 DEF Types, RecordType
      <4> QED
        BY <4>1 DEF RecordType
    <3>3. r = cur /\ recs[r].state = "restarting"
      BY <2>2, <3>1 DEF OnTrack, HoldsTimers
    <3>4. \A s \in Records : Vacant(s)
      BY <2>2, <3>3, VacantFacts
    <3> HIDE DEF rec
    <3> QED
      BY <1>1, <2>2, <3>1, <3>2, <3>3, <3>4, LaunchTracks
  <2>4. CASE UNCHANGED vars
    BY <2>2, <2>4 DEF vars, OnProcess, Tracks, Live, SpawnsCurrent, LooksVacant, StopsVacant,
                      Vacant, Unspawned, KillsIt, Overtaken
  <2> QED
    BY <1>1, <1>2, <2>2, <2>3, <2>4, OutsideTracks, RequestTracks DEF Next
<1> QED
  BY <1>1, <1>2 DEF TrackInv

(* Unless a request strayed, a process that lives is the one the broker      *)
(* shows, signals and stops under the name: the latest generation of the     *)
(* current record, under its pid.                                            *)
THEOREM RecordTracks == Spec => []Tracked
<1>1. TrackInv => Tracked
  BY DEF TrackInv, OnProcess, Tracked
<1> QED
  BY <1>1, TrackInit, TrackNext, PTL DEF Spec
===============================================================================
