----------------------------- MODULE DaemonRecord ------------------------------
(***************************************************************************)
(* One daemon name of the launch broker (launch/broker.ts): the records    *)
(* started under it, the processes launched for each generation of a       *)
(* record, and the requests of concurrent clients.                         *)
(*                                                                         *)
(* Requests are dispatched concurrently, so a request is cut where it      *)
(* awaits: the refresh of a detached record, the death of what it          *)
(* terminates, the settlement, the log files.  A settlement yields only    *)
(* for a detached record, whose output file it reads first.  "starting"    *)
(* and "ready" are "running" here; completions of owners, output and the   *)
(* PTY are left out (a PTY is a process whose pid is known at once).       *)
(***************************************************************************)
EXTENDS Integers, FiniteSets

CONSTANTS
    Requests,   \* one start, read, stop, restart or mode request each
    Specs,      \* [det, policy]: the specs a client starts
    MaxGen      \* bound: launches of one record

ASSUME DaemonRecordAssumption ==
    /\ IsFiniteSet(Requests)
    /\ "monitor" \notin Requests
    /\ Specs \subseteq [det : BOOLEAN, policy : {"no", "on-failure", "always"}]
    /\ MaxGen \in Nat \ {0}

Records == 1..Cardinality(Requests) + 1     \* one recovered, one per start
Watchers == Requests \cup {"monitor"}
Gens == 0..MaxGen
None == -1

VARIABLES
    cur,        \* #records: the record of the name, 0 when there is none
    recs,       \* ManagedDaemon; policy is spec.restart, own is record.process
    procs,      \* the process of each generation, and its settlement
    spawning,   \* detached launches that await their output file
    look,       \* refreshes of detached records in progress
    req,        \* the requests: operation, place, record and process to kill
    reserved,   \* #startingNames has the name
    strayed     \* history: see Strays

vars == <<cur, recs, procs, spawning, look, req, reserved, strayed>>

Terminal(rec) == rec.state \in {"exited", "failed"}
Settled(rec) == Terminal(rec) \/ rec.state = "restarting"

NoRecord == [det |-> FALSE, policy |-> "no", state |-> "none", gen |-> 0,
             stop |-> FALSE, pid |-> None, own |-> None,
             armed |-> 0, held |-> FALSE]
Idle == [at |-> "idle", rec |-> 1, gen |-> 0]
NoRequest == [op |-> "none", pc |-> "idle", rec |-> 0, gen |-> 0, kill |-> None]
Done == [NoRequest EXCEPT !.pc = "done"]

Fresh(spec) == [NoRecord EXCEPT !.det = spec.det, !.policy = spec.policy]

(* What a broker that restarts finds: nothing, or a detached daemon that     *)
(* outlived the last one.  It has its pid and no process object.             *)
Recovered(spec) == [Fresh(spec) EXCEPT !.state = "running", !.pid = 0]

NothingThere ==
    /\ cur = 0
    /\ recs = [r \in Records |-> NoRecord]
    /\ procs = [r \in Records |-> [g \in Gens |-> "none"]]

RecoveredThere ==
    /\ cur = 1
    /\ \E spec \in {s \in Specs : s.det} :
          recs = [r \in Records |-> IF r = 1 THEN Recovered(spec) ELSE NoRecord]
    /\ procs = [r \in Records |->
                  [g \in Gens |-> IF r = 1 /\ g = 0 THEN "alive" ELSE "none"]]

Init ==
    /\ NothingThere \/ RecoveredThere
    /\ spawning = {}
    /\ look = [w \in Watchers |-> Idle]
    /\ req = [q \in Requests |-> NoRequest]
    /\ reserved = FALSE
    /\ strayed = FALSE

-----------------------------------------------------------------------------
(* Settling and launching a record.                                          *)

Restarts(rec, bad) ==
    ~rec.stop /\ (rec.policy = "always" \/ (rec.policy = "on-failure" /\ bad))

SettledWith(rec, bad) ==
    LET gone == [rec EXCEPT !.own = None, !.pid = None]
    IN  IF Restarts(rec, bad)
        THEN [gone EXCEPT !.state = "restarting", !.held = TRUE, !.armed = @ + 1]
        ELSE [gone EXCEPT !.state = IF bad /\ ~rec.stop THEN "failed" ELSE "exited"]

\* Mutant: a record that waits for its relaunch is settled again.
SettlesAgain(rec, gen) == gen = rec.gen

(* Whether a settlement of this generation may still have an effect.         *)
Settles(rec, gen) == gen = rec.gen /\ ~Settled(rec)

(* A restart reserves nothing, so a start and a restart, or two restarts,    *)
(* can overtake one another; and a detached launch is blind to what becomes  *)
(* of its record while it awaits its output file.  From then on the broker   *)
(* may have lost track of a process, and strayed says so.                    *)
Strays(when) == strayed' = (strayed \/ when)

SettleNow(r, gen, bad) ==
    recs' = IF Settles(recs[r], gen)
            THEN [recs EXCEPT ![r] = SettledWith(@, bad)]
            ELSE recs

Launched(rec) == [rec EXCEPT !.gen = @ + 1, !.stop = FALSE,
                             !.state = "running", !.pid = None]

(* #launch: a detached launch first opens its output file.                   *)
Launch(r, before) ==
    LET rec == Launched(before)
    IN  /\ rec.gen \in Gens
        /\ \/ /\ rec.det
              /\ recs' = [recs EXCEPT ![r] = rec]
              /\ spawning' = spawning \cup {[rec |-> r, gen |-> rec.gen]}
              /\ UNCHANGED procs
           \/ /\ ~rec.det
              /\ recs' = [recs EXCEPT ![r] = [rec EXCEPT !.own = rec.gen, !.pid = rec.gen]]
              /\ procs' = [procs EXCEPT ![r][rec.gen] = "alive"]
              /\ UNCHANGED spawning
           \/ /\ ~rec.det       \* the spawn throws
              /\ recs' = [recs EXCEPT ![r] = SettledWith(rec, TRUE)]
              /\ UNCHANGED <<procs, spawning>>

(* #launchDetached, once the file is open; the spawn may throw.  The process *)
(* is stored whatever became of the record.                                  *)
Spawn(s) ==
    /\ spawning' = spawning \ {s}
    /\ \/ /\ procs' = [procs EXCEPT ![s.rec][s.gen] = "alive"]
          /\ recs' = [recs EXCEPT ![s.rec].own = s.gen, ![s.rec].pid = s.gen]
       \/ /\ procs' = [procs EXCEPT ![s.rec][s.gen] = "dead"]
          /\ UNCHANGED recs
    /\ UNCHANGED <<cur, look, req, reserved, strayed>>

(* A process exits.  Nobody holds an exit promise of a recovered one.        *)
ProcExit(r, g) ==
    /\ procs[r][g] = "alive"
    /\ procs' = [procs EXCEPT ![r][g] = IF g = 0 THEN "told" ELSE "dead"]
    /\ UNCHANGED <<cur, recs, spawning, look, req, reserved, strayed>>

(* The exit is heard: #settle up to its read of the output.                  *)
ExitHeard(r, g) ==
    /\ procs[r][g] = "dead"
    /\ IF recs[r].det /\ Settles(recs[r], g)
       THEN /\ procs' = [procs EXCEPT ![r][g] = "settling"]
            /\ UNCHANGED recs
       ELSE /\ procs' = [procs EXCEPT ![r][g] = "told"]
            /\ \E bad \in BOOLEAN : SettleNow(r, g, bad)
    /\ UNCHANGED <<cur, spawning, look, req, reserved, strayed>>

(* #settle after the read: it checks again.                                  *)
ExitSettles(r, g) ==
    /\ procs[r][g] = "settling"
    /\ procs' = [procs EXCEPT ![r][g] = "told"]
    /\ \E bad \in BOOLEAN : SettleNow(r, g, bad)
    /\ UNCHANGED <<cur, spawning, look, req, reserved, strayed>>

TimerFires(r) ==
    /\ recs[r].armed > 0
    /\ Launch(r, [recs[r] EXCEPT !.armed = @ - 1, !.held = FALSE])
    /\ UNCHANGED <<cur, look, req, reserved, strayed>>

-----------------------------------------------------------------------------
(* #refreshDetached, on behalf of a request or of the monitor that follows a *)
(* recovered daemon for as long as its generation lasts.                     *)

\* Mutant: a daemon that is stopping is not followed.
LookingToStop(r) ==
    IF recs[r].det /\ ~Settled(recs[r]) /\ recs[r].state # "stopping"
    THEN [at |-> "read", rec |-> r, gen |-> recs[r].gen]
    ELSE Idle

Looking(r) ==
    IF recs[r].det /\ ~Settled(recs[r])
    THEN [at |-> "read", rec |-> r, gen |-> recs[r].gen]
    ELSE Idle

MonitorLooks ==
    /\ look["monitor"] = Idle
    /\ recs[1].state # "none"
    /\ recs[1].gen = 0
    /\ Looking(1) # Idle
    /\ look' = [look EXCEPT !["monitor"] = Looking(1)]
    /\ UNCHANGED <<cur, recs, procs, spawning, req, reserved, strayed>>

Gone(r) ==
    /\ recs[r].own = None
    /\ recs[r].pid # None => procs[r][recs[r].pid] # "alive"

(* The output is read: is there a process the broker did not launch, and is  *)
(* it gone?  Then it is settled, after another read.                         *)
Look(w) ==
    /\ look[w].at = "read"
    /\ LET r == look[w].rec
           settles == Settles(recs[r], look[w].gen) /\ Gone(r)
       IN  /\ look' = [look EXCEPT ![w] = IF settles THEN [@ EXCEPT !.at = "settle"] ELSE Idle]
           /\ Strays(settles /\ [rec |-> r, gen |-> recs[r].gen] \in spawning)
    /\ UNCHANGED <<cur, recs, procs, spawning, req, reserved>>

LookSettles(w) ==
    /\ look[w].at = "settle"
    /\ SettleNow(look[w].rec, look[w].gen, FALSE)
    /\ look' = [look EXCEPT ![w] = Idle]
    /\ UNCHANGED <<cur, procs, spawning, req, reserved, strayed>>

-----------------------------------------------------------------------------
(* Requests.                                                                 *)

Starting(q) == req[q].op \in {"start", "replace"}
Goes(q, pc) ==
    req' = [req EXCEPT ![q] = IF pc = "done" THEN Done ELSE [@ EXCEPT !.pc = pc]]

\* Mutant: a start that fails keeps the name.
ReleasesNothing(q) == reserved' = reserved

Releases(q) == reserved' = (reserved /\ ~Starting(q))

\* Mutant: nothing is reserved.
StartsAnyway == FALSE

(* A start of a name that is being started is refused.                       *)
StartRefused == reserved

StartArrives(q) ==
    /\ req[q].pc = "idle"
    /\ \E op \in {"start", "replace"} :
          req' = [req EXCEPT ![q] =
                    IF StartRefused THEN Done
                    ELSE [op |-> op, rec |-> cur, gen |-> 0, kill |-> None,
                          pc |-> IF cur = 0 THEN "opening" ELSE "refreshing"]]
    /\ reserved' = TRUE
    /\ look' = IF cur = 0 \/ StartRefused THEN look
               ELSE [look EXCEPT ![q] = Looking(cur)]
    /\ UNCHANGED <<cur, recs, procs, spawning, strayed>>

RequestArrives(q) ==
    /\ req[q].pc = "idle"
    /\ cur # 0
    /\ \E op \in {"read", "stop", "restart", "detach"} :
          req' = [req EXCEPT ![q] = [op |-> op, rec |-> cur, gen |-> 0,
                                     kill |-> None, pc |-> "refreshing"]]
    /\ look' = [look EXCEPT ![q] = Looking(cur)]
    /\ UNCHANGED <<cur, recs, procs, spawning, reserved, strayed>>

Refreshed(q) == req[q].pc = "refreshing" /\ look[q] = Idle

(* What ends with its refresh: list, describe, logs, wait and send; a start  *)
(* over a daemon that is there; a change of mode of one that is gone,        *)
(* stopping or detached already.                                             *)
Answered(q) ==
    LET rec == recs[req[q].rec]
    IN  \/ req[q].op = "read"
        \/ req[q].op = "start" /\ ~Terminal(rec)
        \/ req[q].op = "detach" /\ (Terminal(rec) \/ rec.state = "stopping" \/ rec.det)

Answer(q) ==
    /\ Refreshed(q)
    /\ Answered(q)
    /\ Goes(q, "done")
    /\ Releases(q)
    /\ UNCHANGED <<cur, recs, procs, spawning, look, strayed>>

(* #mode: the spec becomes a detached one, then the daemon is restarted, and *)
(* from now on its refreshes and its settlement read the output file.        *)
Detach(q) ==
    /\ Refreshed(q)
    /\ req[q].op = "detach"
    /\ ~Answered(q)
    /\ recs' = [recs EXCEPT ![req[q].rec].det = TRUE]
    /\ req' = [req EXCEPT ![q].op = "restart"]
    /\ look' = [look EXCEPT ![q] = Looking(req[q].rec)']
    /\ UNCHANGED <<cur, procs, spawning, reserved, strayed>>

(* #stopRecord finds nothing to stop.                                        *)
NothingToStop(q) ==
    /\ Refreshed(q)
    /\ ~Answered(q)
    /\ Terminal(recs[req[q].rec])
    /\ IF req[q].op = "stop" THEN Goes(q, "done")
       ELSE req' = [req EXCEPT ![q].pc = IF Starting(q) THEN "opening" ELSE "reopening",
                               ![q].gen = recs[req[q].rec].gen]
    /\ UNCHANGED <<cur, recs, procs, spawning, look, reserved, strayed>>

(* A record that waits for its relaunch is stopped by taking its timer; any  *)
(* other by terminating its process.                                         *)
Stopped(rec) ==
    IF rec.held
    THEN [rec EXCEPT !.stop = TRUE, !.held = FALSE, !.armed = @ - 1,
                     !.state = "exited"]
    ELSE [rec EXCEPT !.stop = TRUE, !.state = "stopping"]

Stop(q) ==
    /\ Refreshed(q)
    /\ ~Answered(q)
    /\ req[q].op # "detach"
    /\ LET r == req[q].rec
           rec == recs[r]
       IN  /\ ~Terminal(rec)
           /\ recs' = [recs EXCEPT ![r] = Stopped(rec)]
           /\ req' = [req EXCEPT ![q].kill = rec.pid, ![q].gen = rec.gen,
                                 ![q].pc = IF rec.pid = None THEN "waiting" ELSE "killing"]
           /\ Strays([rec |-> r, gen |-> rec.gen] \in spawning)
    /\ UNCHANGED <<cur, procs, spawning, look, reserved>>

(* terminate: the group has its grace, then it is killed.                    *)
Killed(q) ==
    /\ req[q].pc = "killing"
    /\ LET r == req[q].rec
           g == req[q].kill
       IN  procs' = IF procs[r][g] = "alive"
                    THEN [procs EXCEPT ![r][g] = IF g = 0 THEN "told" ELSE "dead"]
                    ELSE procs
    /\ req' = [req EXCEPT ![q].pc = "waiting", ![q].kill = None]
    /\ UNCHANGED <<cur, recs, spawning, look, reserved, strayed>>

(* The wait for the settlement ends, with it or by its time.  Only a         *)
(* replacing start minds which.                                              *)
WaitEnds(q) ==
    /\ req[q].pc = "waiting"
    /\ LET throws == req[q].op = "replace" /\ ~Terminal(recs[req[q].rec])
       IN  Goes(q, CASE req[q].op = "stop" \/ throws -> "done"
                     [] req[q].op = "replace" /\ ~throws -> "opening"
                     [] OTHER -> "reopening")
           /\ reserved' = (reserved /\ ~throws)
    /\ UNCHANGED <<cur, recs, procs, spawning, look, strayed>>

(* Since the request found its record stopped, another one has launched it   *)
(* or has put a new record in its place.                                     *)
Overtaken(q) ==
    recs[req[q].rec].gen # req[q].gen \/ req[q].rec # cur

(* The rest of #start: the record is stored and launched.                    *)
StartOpens(q) ==
    /\ req[q].pc = "opening"
    /\ LET new == cur + 1
       IN  /\ new \in Records
           /\ \E spec \in Specs : Launch(new, Fresh(spec))
           /\ cur' = new
    /\ Strays(req[q].rec # 0 /\ Overtaken(q))
    /\ reserved' = FALSE
    /\ Goes(q, "done")
    /\ UNCHANGED look

(* The rest of #restart: the same record is launched again.                  *)
RestartOpens(q) ==
    /\ req[q].pc = "reopening"
    /\ LET r == req[q].rec
       IN  /\ Launch(r, recs[r])
           /\ Strays(Overtaken(q))
    /\ Goes(q, "done")
    /\ UNCHANGED <<cur, look, reserved>>

(* The working directory or the log cannot be opened.                        *)
OpenFails(q) ==
    /\ req[q].pc \in {"opening", "reopening"}
    /\ Goes(q, "done")
    /\ Releases(q)
    /\ UNCHANGED <<cur, recs, procs, spawning, look, strayed>>

Request(q) ==
    \/ StartArrives(q) \/ RequestArrives(q)
    \/ Answer(q) \/ Detach(q) \/ NothingToStop(q) \/ Stop(q)
    \/ Killed(q) \/ WaitEnds(q)
    \/ StartOpens(q) \/ RestartOpens(q) \/ OpenFails(q)

Refresh(w) == Look(w) \/ LookSettles(w)

Process(r, g) == ProcExit(r, g) \/ ExitHeard(r, g) \/ ExitSettles(r, g)

Next ==
    \/ \E q \in Requests : Request(q)
    \/ \E w \in Watchers : Refresh(w)
    \/ MonitorLooks
    \/ \E r \in Records, g \in Gens : Process(r, g)
    \/ \E s \in spawning : Spawn(s)
    \/ \E r \in Records : TimerFires(r)

Spec == Init /\ [][Next]_vars

(* What is asked of the outside ends: reads of files, a terminated process,  *)
(* the waits with a time.  The monitor looks every 100 ms, and the streams   *)
(* of a dead process end.  A process need not exit by itself, and nobody     *)
(* need send a request.                                                      *)
Fairness ==
    /\ \A w \in Watchers : WF_vars(Refresh(w))
    /\ WF_vars(MonitorLooks)
    /\ \A r \in Records, g \in Gens :
          WF_vars(ExitHeard(r, g)) /\ WF_vars(ExitSettles(r, g))
    /\ \A q \in Requests : WF_vars(Killed(q))
    /\ WF_vars(\E s \in spawning : Spawn(s))

FairSpec == Spec /\ Fairness

-----------------------------------------------------------------------------
RecordType == [det : BOOLEAN, policy : {"no", "on-failure", "always"},
               state : {"none", "running", "stopping", "restarting", "exited", "failed"},
               gen : Gens, stop : BOOLEAN, pid : Gens \cup {None},
               own : Gens \cup {None}, armed : Nat, held : BOOLEAN]

Pending(q) == Starting(q) /\ req[q].pc \notin {"idle", "done"}

(* Types; the name is reserved exactly while a start is between its check    *)
(* and its record.                                                           *)
TypeOK ==
    /\ cur \in {0} \cup Records
    /\ recs \in [Records -> RecordType]
    /\ procs \in [Records -> [Gens -> {"none", "alive", "dead", "settling", "told"}]]
    /\ spawning \subseteq [rec : Records, gen : Gens]
    /\ look \in [Watchers -> [at : {"idle", "read", "settle"}, rec : Records, gen : Gens]]
    /\ req \in [Requests ->
         [op : {"none", "start", "replace", "read", "stop", "restart", "detach"},
          pc : {"idle", "refreshing", "killing", "waiting", "opening", "reopening", "done"},
          rec : {0} \cup Records, gen : Gens, kill : Gens \cup {None}]]
    /\ strayed \in BOOLEAN
    /\ reserved = (\E q \in Requests : Pending(q))

(* A relaunch timer is armed exactly while the record holds it, there is one *)
(* at most, and its record waits to be restarted, so that a stop that takes  *)
(* it is final: an orphaned timer would launch the daemon again.             *)
HoldsTimers ==
    \A r \in Records :
        /\ recs[r].armed = IF recs[r].held THEN 1 ELSE 0
        /\ recs[r].held => recs[r].state = "restarting" /\ r = cur

TimerIsHeld == strayed \/ HoldsTimers

Live(r, g) == procs[r][g] = "alive"

(* A process that lives is the one the broker shows, signals and stops under *)
(* the name: the latest generation of the current record, under its pid.     *)
Tracks ==
    \A r \in Records, g \in Gens : Live(r, g) =>
        /\ r = cur /\ g = recs[r].gen
        /\ recs[r].state \in {"running", "stopping"}
        /\ recs[r].pid = g

Tracked == strayed \/ Tracks

(* A daemon name stands for one process: a start, a restart or a relaunch    *)
(* never leaves a second one beside it.                                      *)
OneProcess ==
    Cardinality({rg \in Records \X Gens : Live(rg[1], rg[2])}) <= 1

(* A daemon that is stopping, or that the broker shows as running although   *)
(* its process is gone.                                                      *)
Unsettled ==
    /\ ~strayed
    /\ cur # 0
    /\ \/ recs[cur].state = "stopping"
       \/ /\ recs[cur].state = "running"
          /\ ~Live(cur, recs[cur].gen)
          /\ [rec |-> cur, gen |-> recs[cur].gen] \notin spawning

(* Such a daemon is settled in the end: also one recovered from an earlier   *)
(* broker, whose exit nobody hears.                                          *)
Ends == Unsettled ~> ~Unsettled
=============================================================================
