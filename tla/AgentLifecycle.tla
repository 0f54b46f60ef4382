--------------------------- MODULE AgentLifecycle ---------------------------
(***************************************************************************)
(* AgentLifecycleManager (packages/coding-agent/src/registry/              *)
(* agent-lifecycle.ts): parking idle subagents, reviving parked ones,      *)
(* reopening killed ones, releasing them and tearing a root down, for one  *)
(* agent id.                                                               *)
(*                                                                         *)
(* The program is single-threaded JavaScript.  One action is what runs     *)
(* between two awaits; every await is a program counter at which anything  *)
(* else may run.  A continuation of a promise that has settled runs before *)
(* any I/O completes: I/O actions wait for Quiet.  Fresh calls (a message, *)
(* a kill) may come in between, because microtasks can make them.          *)
(*                                                                         *)
(* The reviver is a function injected by the executor or by the session    *)
(* bootstrap; it is modelled from sdk.ts (createAgentSession),             *)
(* task/executor.ts and task/persisted-revive.ts.                          *)
(***************************************************************************)
EXTENDS AgentRegistry, FiniteSets

CONSTANTS Callers,   \* those who ask for the live session: messages, Hub, tools
          Releases,  \* the kinds of release that happen, each at most once
          TidyReviver, \* a reviver that fails after attaching detaches its session
          Isolated,  \* spawned runs own a worktree, cleaned up by onRelease
          Nested     \* there are agents between this one and its root

ASSUME ConstantsAssumption == /\ Releases \subseteq {"kill", "cancel", "teardown"}
                              /\ TidyReviver \in BOOLEAN
                              /\ Isolated \in BOOLEAN
                              /\ Nested \in BOOLEAN

VARIABLES session,    \* what became of each AgentSession object
          claim,      \* the ref a session unregisters on disposal, or NoRef
          ready,      \* sessions whose extensions are initialized
          executing,  \* the session of the spawn still running its task
          adopted,    \* #adopted
          park,       \* #parks
          revival,    \* #revivals: the caller that runs it
          reopening,  \* #reopens: the caller that runs it
          op,         \* each caller's ensureLive
          rel,        \* each release
          spawn,      \* a fresh createAgentSession that wants the id
          factory,    \* #persistedReviverFactory is installed
          rootGone,   \* the owning root is in disposedRoots
          disposed,   \* #disposed
          lineage,    \* where the registered parent links lead
          owner,      \* the executor of the spawn knows the root (ownerRoot)
          tombstone   \* the kill marker is on disk

sessionVars == <<session, claim, ready, executing>>
teardownVars == <<factory, rootGone, disposed, lineage, owner>>
vars == <<registryVars, sessionVars, adopted, park, revival, reopening, op, rel,
          spawn, teardownVars, tombstone>>

NoAdoption == [ref |-> NoRef, revive |-> FALSE, cold |-> FALSE, owned |-> FALSE,
               timer |-> FALSE, rooted |-> FALSE]
NoPark == [ref |-> NoRef, ses |-> NoSession, cancelled |-> FALSE,
           detached |-> FALSE, listed |-> FALSE]
NoCall == [pc |-> "idle", init |-> NoRef, fromKilled |-> FALSE, ref |-> NoRef,
           ses |-> NoSession, cold |-> FALSE, rooted |-> FALSE, mate |-> {}]
NoRelease == [pc |-> "idle", ref |-> NoRef, ses |-> NoSession, owned |-> FALSE,
              gen |-> 0]
ReleaseDone == [NoRelease EXCEPT !.pc = "done"]
NoSpawn == [pc |-> "idle", ref |-> NoRef]

CallerPcs == {"idle", "awaitPark", "awaitKept", "unparked", "kept", "joinReopen",
              "probe", "unmark", "reopened", "joinRevival", "cold", "open",
              "construct", "init", "reject", "got"}
ReleasePcs == {"idle", "awaitPark", "go", "persist", "dispose", "done"}

TypeOK ==
    /\ RegistryTypeOK
    /\ session \in [Sessions -> {"unborn", "live", "disposing", "disposed"}]
    /\ claim \in [Sessions -> Refs \cup {NoRef}]
    /\ ready \in SUBSET Sessions
    /\ executing \in Sessions \cup {NoSession}
    /\ adopted \in [ref : Refs \cup {NoRef}, revive : BOOLEAN, cold : BOOLEAN,
                    owned : BOOLEAN, timer : BOOLEAN, rooted : BOOLEAN]
    /\ park \in [ref : Refs \cup {NoRef}, ses : Sessions \cup {NoSession},
                 cancelled : BOOLEAN, detached : BOOLEAN, listed : BOOLEAN]
    /\ revival \in SUBSET Callers
    /\ reopening \in SUBSET Callers
    /\ op \in [Callers -> [pc : CallerPcs, init : Refs \cup {NoRef},
                           fromKilled : BOOLEAN, ref : Refs \cup {NoRef},
                           ses : Sessions \cup {NoSession}, cold : BOOLEAN,
                           rooted : BOOLEAN, mate : SUBSET Callers]]
    /\ rel \in [Releases -> [pc : ReleasePcs, ref : Refs \cup {NoRef},
                             ses : Sessions \cup {NoSession}, owned : BOOLEAN,
                             gen : Nat]]
    /\ spawn \in [pc : {"idle", "probe", "construct"}, ref : Refs \cup {NoRef}]
    /\ factory \in BOOLEAN
    /\ rootGone \in BOOLEAN
    /\ disposed \in BOOLEAN
    /\ lineage \in {"root", "broken", "gone"}
    /\ owner \in BOOLEAN
    /\ tombstone \in BOOLEAN

\* A subagent whose executor is running its task, or one that a scan of the
\* session directory restored as parked, with nothing in memory but its ref.
Init ==
    /\ cur = 1
    /\ \E spawned \in BOOLEAN :
         /\ status = [r \in Refs |-> IF r > 1 THEN "none"
                                     ELSE IF spawned THEN "running" ELSE "parked"]
         /\ attached = [r \in Refs |-> IF r = 1 /\ spawned THEN 1 ELSE NoSession]
         /\ session = [s \in Sessions |-> IF s = 1 /\ spawned THEN "live" ELSE "unborn"]
         /\ claim = [s \in Sessions |-> IF s = 1 /\ spawned THEN 1 ELSE NoRef]
         /\ ready = IF spawned THEN {1} ELSE {}
         /\ executing = IF spawned THEN 1 ELSE NoSession
    /\ runGen = [r \in Refs |-> 0]
    /\ adopted = NoAdoption /\ park = NoPark
    /\ revival = {} /\ reopening = {}
    /\ op = [c \in Callers |-> NoCall]
    /\ rel = [k \in Releases |-> NoRelease]
    /\ spawn = NoSpawn
    /\ factory \in BOOLEAN
    /\ rootGone = FALSE /\ disposed = FALSE /\ tombstone = FALSE
    /\ lineage \in IF Nested THEN {"root", "broken"} ELSE {"root"}
    /\ owner \in {TRUE, ~Nested}

-----------------------------------------------------------------------------
(* Helpers.                                                                 *)

ParkListed == park.ref # NoRef /\ park.listed
\* rootOf follows the registered parent links up to the root.  It knows no root
\* of an id that is not registered, nor past an ancestor (lineage = "broken") or
\* a root (lineage = "gone") that is no longer registered.
Rooted == cur # NoRef /\ lineage = "root"

\* Mutant: only the disposal of the whole manager counts.
GoneIfDisposed(rooted) == disposed
\* Teardown is over for whoever found the root (rooted) when it looked.
Gone(rooted) == disposed \/ (rooted /\ rootGone)

\* A release whose session is disposed and that has no onRelease to await.
Finishing(k) == /\ rel[k].pc = "dispose" /\ ~rel[k].owned
                /\ rel[k].ses # NoSession => session[rel[k].ses] = "disposed"

Quiet == /\ \A c \in Callers : op[c].pc \notin {"unparked", "kept", "reopened"}
         /\ \A k \in Releases : rel[k].pc # "go" /\ ~Finishing(k)
         /\ park.ref # NoRef => park.detached

\* #onRegistryEvent; a disposed manager has unsubscribed.
OnIdle(r, a) == IF ~disposed /\ a.ref = r /\ ~ParkListed
                THEN [a EXCEPT !.timer = TRUE] ELSE a
OnRunning(r, a) == IF ~disposed /\ a.ref = r THEN [a EXCEPT !.timer = FALSE] ELSE a
OnRemoved(r, a) == IF ~disposed /\ a.ref = r THEN NoAdoption ELSE a

\* session.dispose(): idempotent, its promise settles with SessionDisposed.
Dispose(s) == session' = IF s # NoSession /\ session[s] = "live"
                         THEN [session EXCEPT ![s] = "disposing"] ELSE session

Unborn(s) == session[s] = "unborn" /\ \A t \in 1..(s - 1) : session[t] # "unborn"

\* Mutant: the callers that joined are not told.
SettledAlone(c, pc, s) == [op EXCEPT ![c] = [NoCall EXCEPT !.pc = pc, !.ses = s]]
\* The promise of the revival that caller c runs settles, for c and for every
\* caller that joined it.
Settled(c, pc, s) ==
    [d \in Callers |-> IF d = c \/ (op[d].pc = "joinRevival" /\ c \in op[d].mate)
                       THEN [NoCall EXCEPT !.pc = pc, !.ses = s]
                       ELSE op[d]]

\* The revival of caller c rejects; a cold adoption of its own is dropped.
RevivalFails(c) ==
    /\ op' = Settled(c, "idle", NoSession)
    /\ revival' = revival \ {c}
    /\ adopted' = IF op[c].cold /\ adopted.cold /\ adopted.ref = op[c].ref
                  THEN NoAdoption ELSE adopted

\* Everyone who awaited the park that ends now.
ParkAwaited(f) ==
    [c \in Callers |-> IF f[c].pc = "awaitPark" THEN [f[c] EXCEPT !.pc = "unparked"]
                       ELSE IF f[c].pc = "awaitKept" THEN [f[c] EXCEPT !.pc = "kept"]
                       ELSE f[c]]
ParkEnds ==
    /\ park' = NoPark
    /\ op' = ParkAwaited(op)
    /\ rel' = [k \in Releases |-> IF rel[k].pc = "awaitPark"
                                  THEN [rel[k] EXCEPT !.pc = "go"] ELSE rel[k]]

-----------------------------------------------------------------------------
(* ensureLive.  o is the record of the call in progress.                    *)

\* ensureLive throws: the caller has its answer and may call again.
Throws(c) == op' = [op EXCEPT ![c] = NoCall]

\* #resolveAndRevive up to its first await.
ResolveAndRevive(c, r) ==
    LET warm == adopted.ref = r /\ adopted.revive
        went(pc, rooted) == op' = [op EXCEPT ![c] = [NoCall EXCEPT !.pc = pc, !.ref = r,
                                                                   !.rooted = rooted]]
    IN \/ /\ ~warm /\ status[r] = "parked" /\ factory
          /\ went("cold", FALSE) /\ revival' = {c}
       \/ /\ warm /\ cur = r /\ status[r] = "parked"
          /\ went("open", adopted.rooted) /\ revival' = {c}
       \/ /\ ~(~warm /\ status[r] = "parked" /\ factory)
          /\ ~(warm /\ cur = r /\ status[r] = "parked")
          /\ Throws(c) /\ revival' = {}

\* Mutant: ensureLive does not look for a revival in flight.
RevivalOfNone(r) == {}
\* The revival in flight for exactly this ref.
RevivalOf(r) == {d \in revival : op[d].ref = r}

\* The end of ensureLive: join a revival, return the live session, or revive.
JoinOrRevive(c, r) ==
    LET running == RevivalOf(r)
    IN /\ UNCHANGED reopening
       /\ \/ /\ running # {}
             /\ op' = [op EXCEPT ![c] = [NoCall EXCEPT !.pc = "joinRevival",
                                                       !.ref = r, !.mate = running]]
             /\ UNCHANGED revival
          \/ /\ running = {} /\ attached[r] # NoSession
             /\ op' = [op EXCEPT ![c] = [NoCall EXCEPT !.pc = "got",
                                                       !.ses = attached[r]]]
             /\ UNCHANGED revival
          \/ /\ running = {} /\ attached[r] = NoSession
             /\ ResolveAndRevive(c, r)

\* #reopen and the synchronous part of #reopenKilled.
Reopen(c) ==
    LET running == {d \in reopening : op[d].ref = cur}
    IN /\ UNCHANGED revival
       /\ \/ /\ running # {}
             /\ op' = [op EXCEPT ![c] = [NoCall EXCEPT !.pc = "joinReopen",
                                                       !.ref = cur, !.mate = running]]
             /\ UNCHANGED reopening
          \/ /\ running = {} /\ factory /\ attached[cur] = NoSession
             /\ ~Gone(Rooted)
             /\ op' = [op EXCEPT ![c] = [NoCall EXCEPT !.pc = "probe", !.ref = cur,
                                                       !.rooted = Rooted]]
             /\ reopening' = {c}
          \/ /\ running = {}
             /\ ~(factory /\ attached[cur] = NoSession /\ ~Gone(Rooted))
             /\ Throws(c) /\ reopening' = {}

\* What ensureLive does once no park is in its way.
Prepare(c, o) ==
    LET same == /\ cur # NoRef
                /\ o.init # NoRef =>
                     cur = o.init /\ (o.fromKilled \/ status[cur] # "aborted")
    IN \/ ~same /\ Throws(c) /\ UNCHANGED <<revival, reopening>>
       \/ same /\ status[cur] = "aborted" /\ Reopen(c)
       \/ same /\ status[cur] # "aborted" /\ JoinOrRevive(c, cur)

EnsureLive(c) ==
    LET o == [NoCall EXCEPT !.init = cur,
                            !.fromKilled = cur # NoRef /\ status[cur] = "aborted"]
        cancels == LiveSession # NoSession /\ ~park.detached
    IN /\ op[c].pc = "idle" /\ ~disposed
       /\ \/ /\ ParkListed /\ cancels
             /\ park' = [park EXCEPT !.cancelled = TRUE]
             /\ op' = [op EXCEPT ![c] = [o EXCEPT !.pc = "awaitKept"]]
             /\ UNCHANGED <<revival, reopening>>
          \/ /\ ParkListed /\ ~cancels
             /\ op' = [op EXCEPT ![c] = [o EXCEPT !.pc = "awaitPark"]]
             /\ UNCHANGED <<park, revival, reopening>>
          \/ /\ ~ParkListed
             /\ Prepare(c, o) /\ UNCHANGED park
       /\ UNCHANGED <<registryVars, sessionVars, adopted, rel, spawn, teardownVars,
                      tombstone>>

\* The cancelled park has ended: keep the session if the ref is still good.
Kept(c) ==
    LET keeps == cur # NoRef /\ cur = op[c].init /\ status[cur] # "aborted"
                 /\ attached[cur] # NoSession
    IN /\ op[c].pc = "kept"
       /\ \/ /\ keeps
             /\ op' = [op EXCEPT ![c] = [NoCall EXCEPT !.pc = "got",
                                                       !.ses = attached[cur]]]
             /\ adopted' = IF adopted.ref = cur /\ status[cur] = "idle"
                           THEN [adopted EXCEPT !.timer = TRUE] ELSE adopted
             /\ UNCHANGED <<revival, reopening>>
          \/ ~keeps /\ Prepare(c, op[c]) /\ UNCHANGED adopted
       /\ UNCHANGED <<registryVars, sessionVars, park, rel, spawn, teardownVars,
                      tombstone>>

Unparked(c) ==
    /\ op[c].pc = "unparked"
    /\ Prepare(c, op[c])
    /\ UNCHANGED <<registryVars, sessionVars, adopted, park, rel, spawn, teardownVars,
                   tombstone>>

\* The caller takes its answer and may call again.
CallerDone(c) ==
    /\ op[c].pc = "got"
    /\ op' = [op EXCEPT ![c] = NoCall]
    /\ UNCHANGED <<registryVars, sessionVars, adopted, park, revival, reopening, rel,
                   spawn, teardownVars, tombstone>>

-----------------------------------------------------------------------------
(* #reopenKilled: the probe of the factory, then the removal of the marker. *)

ReopenSettled(c, pc, r) ==
    [d \in Callers |-> IF d = c \/ (op[d].pc = "joinReopen" /\ c \in op[d].mate)
                       THEN [NoCall EXCEPT !.pc = pc, !.ref = r]
                       ELSE op[d]]

ProbeFails(c) ==
    /\ Quiet /\ op[c].pc = "probe"
    /\ op' = ReopenSettled(c, "idle", NoRef)
    /\ reopening' = reopening \ {c}
    /\ UNCHANGED <<registryVars, sessionVars, adopted, park, revival, rel, spawn,
                   teardownVars, tombstone>>

\* The factory found a reviver; reopen refuses a ref that is no longer the
\* id's detached tombstone.  The fresh ref is the call's until it has settled.
ProbeSucceeds(c) ==
    /\ Quiet /\ op[c].pc = "probe" /\ ~Gone(op[c].rooted)
    /\ Reopenable(op[c].ref)
    /\ \E r \in Refs :
         /\ Register(r, "parked")
         /\ op' = [d \in Callers |-> IF d = c THEN [op[c] EXCEPT !.pc = "unmark", !.init = r]
                                     ELSE op[d]]
    /\ UNCHANGED <<attached, runGen, sessionVars, adopted, park, revival, reopening,
                   rel, spawn, teardownVars, tombstone>>

Unmark(c) ==
    /\ Quiet /\ op[c].pc = "unmark"
    /\ tombstone' = FALSE
    /\ op' = ReopenSettled(c, "reopened", op[c].init)
    /\ reopening' = reopening \ {c}
    /\ UNCHANGED <<registryVars, sessionVars, adopted, park, revival, rel, spawn,
                   teardownVars>>

Reopened(c) ==
    /\ op[c].pc = "reopened"
    /\ JoinOrRevive(c, op[c].ref)
    /\ UNCHANGED <<registryVars, sessionVars, adopted, park, rel, spawn, teardownVars,
                   tombstone>>

-----------------------------------------------------------------------------
(* The persisted factory answers #resolveAndRevive.                         *)

Cold(c) ==
    LET r == op[c].ref
        fits == cur = r /\ status[r] = "parked"
        adoption == [ref |-> r, revive |-> TRUE, cold |-> TRUE,
                     owned |-> FALSE, timer |-> FALSE, rooted |-> Rooted]
    IN /\ Quiet /\ op[c].pc = "cold"
       /\ \E found \in BOOLEAN :
            \/ /\ ~Gone(Rooted) /\ found /\ fits
               /\ adopted' = adoption
               /\ op' = [op EXCEPT ![c].pc = "open", ![c].cold = TRUE,
                                   ![c].rooted = Rooted]
               /\ UNCHANGED revival
            \/ /\ ~Gone(Rooted) /\ found /\ ~fits
               /\ adopted' = adoption
               /\ op' = Settled(c, "idle", NoSession)
               /\ revival' = revival \ {c}
            \/ /\ Gone(Rooted) \/ ~found
               /\ op' = Settled(c, "idle", NoSession)
               /\ revival' = revival \ {c}
               /\ UNCHANGED adopted
       /\ UNCHANGED <<registryVars, sessionVars, park, reopening, rel, spawn,
                      teardownVars, tombstone>>

-----------------------------------------------------------------------------
(* The reviver.                                                             *)

\* createAgentSession claims the exact parked ref before it builds anything.
Claim(c) ==
    /\ Quiet /\ op[c].pc = "open"
    /\ Claimable(op[c].ref)
    /\ op' = [op EXCEPT ![c].pc = "construct"]
    /\ UNCHANGED <<registryVars, sessionVars, adopted, park, revival, reopening, rel,
                   spawn, teardownVars, tombstone>>

\* The transcript cannot be opened, the claim is refused, construction throws.
ReviverFails(c) ==
    /\ Quiet /\ op[c].pc \in {"open", "construct"}
    /\ RevivalFails(c)
    /\ UNCHANGED <<registryVars, sessionVars, park, reopening, rel, spawn,
                   teardownVars, tombstone>>

\* The session is built and attached to the claimed ref, which starts running.
Attach(c) ==
    LET r == op[c].ref
    IN /\ Quiet /\ op[c].pc = "construct" /\ Attachable(r)
       /\ \E s \in Sessions :
            /\ Unborn(s)
            /\ session' = [session EXCEPT ![s] = "live"]
            /\ claim' = [claim EXCEPT ![s] = r]
            /\ AttachSession(r, s)
            /\ op' = [op EXCEPT ![c].pc = "init", ![c].ses = s]
       /\ SetStatus(r, "running")
       /\ adopted' = OnRunning(r, adopted)
       /\ UNCHANGED <<cur, ready, executing, park, revival, reopening, rel, spawn,
                      teardownVars, tombstone>>

\* The ref was replaced or killed meanwhile: the new session is thrown away.
AttachRefused(c) ==
    /\ Quiet /\ op[c].pc = "construct" /\ ~Attachable(op[c].ref)
    /\ \E s \in Sessions :
         /\ Unborn(s)
         /\ session' = [session EXCEPT ![s] = "disposing"]
         /\ op' = [op EXCEPT ![c].pc = "reject", ![c].ses = s]
    /\ UNCHANGED <<registryVars, claim, ready, executing, adopted, park, revival,
                   reopening, rel, spawn, teardownVars, tombstone>>

\* Initialization of the attached session fails.  The reviver of a restored
\* agent detaches and disposes it; the executor's reviver only throws.
InitFails(c) ==
    LET r == op[c].ref  s == op[c].ses
        owns == cur = r /\ attached[r] = s
    IN /\ Quiet /\ op[c].pc = "init"
       /\ \/ /\ op[c].cold \/ TidyReviver
             /\ IF owns THEN /\ DetachSession(r)
                             /\ IF Settable(r) THEN SetStatus(r, "parked")
                                               ELSE UNCHANGED <<status, runGen>>
                        ELSE UNCHANGED <<status, attached, runGen>>
             /\ Dispose(s)
             /\ op' = [op EXCEPT ![c].pc = "reject"]
             /\ UNCHANGED <<adopted, revival>>
          \/ /\ ~op[c].cold /\ ~TidyReviver
             /\ RevivalFails(c)
             /\ UNCHANGED <<status, attached, runGen, session>>
       /\ UNCHANGED <<cur, claim, ready, executing, park, reopening, rel, spawn,
                      teardownVars, tombstone>>

\* A rejected session has finished disposing; only now does the revival reject.
Reject(c) ==
    /\ Quiet /\ op[c].pc = "reject" /\ session[op[c].ses] = "disposed"
    /\ RevivalFails(c)
    /\ UNCHANGED <<registryVars, sessionVars, park, reopening, rel, spawn,
                   teardownVars, tombstone>>

(* #revive after its await: the reviver has returned session s.             *)
\* Mutant: the reviver's session is taken whatever happened meanwhile.
AdoptableAnyway(r, s) == TRUE
\* The exact ref was claimed by the reviver and still runs its session.
Adoptable(r, s) == cur = r /\ status[r] = "running" /\ attached[r] = s

Revive(c, s) ==
    LET r == op[c].ref
        gone == Gone(op[c].rooted)
    IN \/ /\ ~gone /\ (Claimable(r) \/ Adoptable(r, s))
          /\ AttachSession(r, s)
          /\ SetStatus(r, "idle")
          /\ adopted' = OnIdle(r, adopted)
          /\ op' = Settled(c, "got", s)
          /\ revival' = revival \ {c}
          /\ session' = [session EXCEPT ![s] = IF @ = "unborn" THEN "live" ELSE @]
       \/ /\ gone \/ ~(Claimable(r) \/ Adoptable(r, s))
          /\ session' = [session EXCEPT ![s] = IF @ = "disposed" THEN @ ELSE "disposing"]
          /\ op' = [op EXCEPT ![c].pc = "reject", ![c].ses = s]
          /\ UNCHANGED <<attached, status, runGen, adopted, revival>>

ReviverReturns(c) ==
    /\ Quiet /\ op[c].pc = "init"
    /\ ready' = ready \cup {op[c].ses}
    /\ Revive(c, op[c].ses)
    /\ UNCHANGED <<cur, claim, executing, park, reopening, rel, spawn, teardownVars,
                   tombstone>>

\* A simple reviver returns a session without claiming the ref.
SimpleReviverReturns(c) ==
    /\ Quiet /\ op[c].pc = "open"
    /\ \E s \in Sessions : /\ Unborn(s)
                           /\ ready' = ready \cup {s}
                           /\ Revive(c, s)
    /\ UNCHANGED <<cur, claim, executing, park, reopening, rel, spawn, teardownVars,
                   tombstone>>

-----------------------------------------------------------------------------
(* Turns of the attached session, mirrored by syncSessionStatus, and the    *)
(* executor handing a finished run over (finalizeSubagentLifecycle, adopt). *)

\* RunStarts is bounded by MaxRuns.
RunStarts ==
    LET s == LiveSession
    IN /\ Quiet /\ s \in ready /\ session[s] = "live" /\ status[cur] = "idle"
       /\ runGen[cur] < MaxRuns
       /\ SetStatus(cur, "running")
       /\ adopted' = OnRunning(cur, adopted)
       /\ UNCHANGED <<cur, attached, sessionVars, park, revival, reopening, op, rel,
                      spawn, teardownVars, tombstone>>

RunEnds ==
    LET s == LiveSession
    IN /\ Quiet /\ s \in ready /\ session[s] = "live" /\ status[cur] = "running"
       /\ SetStatus(cur, "idle")
       /\ adopted' = OnIdle(cur, adopted)
       /\ UNCHANGED <<cur, attached, sessionVars, park, revival, reopening, op, rel,
                      spawn, teardownVars, tombstone>>

\* The executor hands over the root it captured, or adopt looks for it.  Once
\* the manager is disposed, what has no known root may go to the next manager,
\* which is not followed.
Adopt ==
    LET s == executing
        owns == cur # NoRef /\ attached[cur] = s /\ status[cur] # "aborted"
        rooted == owner \/ Rooted
    IN /\ Quiet /\ s # NoSession
       /\ executing' = NoSession
       /\ IF owns THEN SetStatus(cur, "idle") ELSE UNCHANGED <<status, runGen>>
       /\ \/ /\ owns /\ ~Gone(rooted)
             /\ adopted' = [ref |-> cur, revive |-> TRUE, cold |-> FALSE,
                            owned |-> Isolated, timer |-> TRUE, rooted |-> rooted]
             /\ UNCHANGED session
          \/ /\ owns /\ disposed /\ ~rooted
             /\ UNCHANGED <<session, adopted>>
          \/ /\ ~owns \/ Gone(rooted)
             /\ Dispose(s) /\ UNCHANGED adopted
       /\ UNCHANGED <<cur, attached, claim, ready, park, revival, reopening, op, rel,
                      spawn, teardownVars, tombstone>>

\* A disposing session settles.  The wrapper of createAgentSession then forgets
\* its ref unless it is parked, a detached tombstone, or being parked.
SessionDisposed(s) ==
    LET r == claim[s]
        parking == ParkListed /\ ~park.cancelled /\ park.ref = r
        retained == \/ status[r] = "parked"
                    \/ status[r] = "aborted" /\ attached[r] = NoSession
                    \/ parking
    IN /\ Quiet /\ session[s] = "disposing"
       /\ session' = [session EXCEPT ![s] = "disposed"]
       /\ claim' = [claim EXCEPT ![s] = NoRef]
       /\ IF r # NoRef /\ cur = r /\ ~retained
          THEN cur' = NoRef /\ adopted' = OnRemoved(r, adopted)
          ELSE UNCHANGED <<cur, adopted>>
       /\ UNCHANGED <<status, attached, runGen, ready, executing, park, revival,
                      reopening, op, rel, spawn, teardownVars, tombstone>>

-----------------------------------------------------------------------------
(* park, started by the idle timer.                                         *)

TimerFires ==
    LET r == adopted.ref
        parks == ~ParkListed /\ cur = r /\ attached[r] # NoSession
    IN /\ Quiet /\ r # NoRef /\ adopted.timer
       /\ adopted' = [adopted EXCEPT !.timer = FALSE]
       /\ park' = IF parks THEN [ref |-> r, ses |-> attached[r], cancelled |-> FALSE,
                                 detached |-> FALSE, listed |-> TRUE]
                  ELSE park
       /\ UNCHANGED <<registryVars, sessionVars, revival, reopening, op, rel, spawn,
                      teardownVars, tombstone>>

\* After the yield: cancelled, overtaken, or committed to detach.
ParkCommits ==
    LET r == park.ref
        holds == ~park.cancelled /\ cur = r /\ attached[r] = park.ses /\ adopted.ref = r
    IN /\ r # NoRef /\ ~park.detached
       /\ \/ /\ holds
             /\ park' = [park EXCEPT !.detached = TRUE]
             /\ DetachSession(r)
             /\ IF Settable(r) THEN SetStatus(r, "parked") ELSE UNCHANGED <<status, runGen>>
             /\ Dispose(park.ses)
             /\ UNCHANGED <<op, rel>>
          \/ /\ ~holds
             /\ ParkEnds
             /\ UNCHANGED <<attached, status, runGen, session>>
       /\ UNCHANGED <<cur, claim, ready, executing, adopted, revival, reopening, spawn,
                      teardownVars, tombstone>>

ParkFinishes ==
    /\ Quiet /\ park.ref # NoRef /\ park.detached
    /\ session[park.ses] = "disposed"
    /\ ParkEnds
    /\ UNCHANGED <<registryVars, sessionVars, adopted, revival, reopening, spawn,
                   teardownVars, tombstone>>

-----------------------------------------------------------------------------
(* release, called by a kill (tombstone), by a cancellation guarded by the  *)
(* run generation (releaseRootAgents), and by the teardown of the root.     *)

\* From the last guard of release to its next await; a is the adoption and g
\* the run generation the release was asked for.
TakeDown(k, r, g, a) ==
    LET live == IF cur = r THEN attached[r] ELSE NoSession
    IN /\ adopted' = IF a.ref = r THEN NoAdoption ELSE a
       /\ rel' = [rel EXCEPT ![k] = [pc |-> IF k = "kill" THEN "persist" ELSE "dispose",
                                     ref |-> r, ses |-> live,
                                     owned |-> a.ref = r /\ a.owned, gen |-> g]]
       /\ IF k = "kill" /\ cur = r
          THEN DetachSession(r) /\ SetStatus(r, "aborted")
          ELSE UNCHANGED <<attached, status, runGen>>
       /\ IF k = "kill" THEN UNCHANGED session ELSE Dispose(live)

\* The start of a release of ref r: its timer is cleared, a park of it is
\* cancelled if it still can be, and awaited in any case.
StartRelease(k, r) ==
    LET a == IF adopted.ref = r THEN [adopted EXCEPT !.timer = FALSE] ELSE adopted
        parking == ParkListed /\ park.ref = r
    IN \/ /\ parking
          /\ park' = [park EXCEPT !.cancelled = @ \/ ~park.detached]
          /\ adopted' = a
          /\ rel' = [rel EXCEPT ![k] = [NoRelease EXCEPT !.pc = "awaitPark", !.ref = r,
                                                         !.gen = runGen[r]]]
          /\ UNCHANGED <<attached, status, runGen, session>>
       \/ ~parking /\ TakeDown(k, r, runGen[r], a) /\ UNCHANGED park

Kill ==
    /\ "kill" \in Releases /\ ~disposed /\ rel["kill"].pc = "idle" /\ cur # NoRef /\ status[cur] # "aborted"
    /\ StartRelease("kill", cur)
    /\ UNCHANGED <<cur, claim, ready, executing, revival, reopening, op, spawn,
                   teardownVars, tombstone>>

Cancel ==
    /\ "cancel" \in Releases /\ ~disposed /\ rel["cancel"].pc = "idle"
    /\ adopted.ref # NoRef /\ (adopted.rooted \/ Rooted)
    /\ StartRelease("cancel", adopted.ref)
    /\ UNCHANGED <<cur, claim, ready, executing, revival, reopening, op, spawn,
                   teardownVars, tombstone>>

\* After the awaited park; only the cancellation carries a generation to check.
ReleaseGoes(k) ==
    LET r == rel[k].ref
        stale == k = "cancel" /\ (cur # r \/ runGen[r] # rel[k].gen)
    IN /\ rel[k].pc = "go"
       /\ \/ /\ stale
             /\ rel' = [rel EXCEPT ![k] = ReleaseDone]
             /\ UNCHANGED <<attached, status, runGen, session, adopted>>
          \/ ~stale /\ TakeDown(k, r, rel[k].gen, adopted)
       /\ UNCHANGED <<cur, claim, ready, executing, park, revival, reopening, op, spawn,
                      teardownVars, tombstone>>

\* Mutant: a failed write of the marker skips the disposal.
PersistedOrStuck(k) ==
    /\ Quiet /\ rel[k].pc = "persist"
    /\ tombstone' \in {tombstone, TRUE}
    /\ IF tombstone' THEN Dispose(rel[k].ses) ELSE UNCHANGED session
    /\ rel' = [rel EXCEPT ![k].pc = "dispose"]
    /\ UNCHANGED <<registryVars, claim, ready, executing, adopted, park, revival,
                   reopening, op, spawn, teardownVars>>
\* persistAgentTombstone settles, with the marker written or not; only then is
\* the killed session disposed.
Persisted(k) ==
    /\ Quiet /\ rel[k].pc = "persist"
    /\ tombstone' \in {tombstone, TRUE}
    /\ Dispose(rel[k].ses)
    /\ rel' = [rel EXCEPT ![k].pc = "dispose"]
    /\ UNCHANGED <<registryVars, claim, ready, executing, adopted, park, revival,
                   reopening, op, spawn, teardownVars>>

Released(k) ==
    LET r == rel[k].ref
    IN /\ rel[k].pc = "dispose"
       /\ Finishing(k) \/ Quiet
       /\ rel[k].ses # NoSession => session[rel[k].ses] = "disposed"
       /\ rel' = [rel EXCEPT ![k] = ReleaseDone]
       /\ IF k # "kill" /\ cur = r
          THEN cur' = NoRef /\ adopted' = OnRemoved(r, adopted)
          ELSE UNCHANGED <<cur, adopted>>
       /\ UNCHANGED <<status, attached, runGen, sessionVars, park, revival, reopening,
                      op, spawn, teardownVars, tombstone>>

\* disposeRoot.  With another live root only this root's adoptions are released,
\* by their ref; without one the manager is disposed and releases by id.
DisposeRoot(otherRootLive) ==
    LET byId == IF cur # NoRef THEN cur ELSE adopted.ref
        target == IF otherRootLive
                  THEN IF adopted.rooted \/ Rooted THEN adopted.ref ELSE NoRef
                  ELSE IF adopted.ref # NoRef \/ ParkListed THEN byId ELSE NoRef
    IN /\ "teardown" \in Releases /\ ~rootGone
       /\ rootGone' = TRUE
       /\ disposed' = ~otherRootLive
       /\ IF otherRootLive THEN factory' \in {factory, FALSE} ELSE UNCHANGED factory
       /\ IF target = NoRef
          THEN /\ rel' = [rel EXCEPT !["teardown"] = ReleaseDone]
               /\ UNCHANGED <<attached, status, runGen, session, adopted, park>>
          ELSE StartRelease("teardown", target)
       /\ UNCHANGED <<cur, claim, ready, executing, revival, reopening, op, spawn,
                      lineage, owner, tombstone>>

\* The end of dispose, once the releases are done or the deadline has passed.
DisposeEnds ==
    /\ Quiet /\ disposed
    /\ revival' = {} /\ factory' = FALSE
    /\ park' = [park EXCEPT !.listed = FALSE]
    /\ UNCHANGED <<registryVars, sessionVars, adopted, reopening, op, rel, spawn,
                   rootGone, disposed, lineage, owner, tombstone>>

\* The parent links: an agent between this one and its root is unregistered, or
\* registered again, and the root forgets its own ref once disposeRoot is over.
Lineage(from, to) ==
    /\ Quiet /\ lineage \in from
    /\ lineage' = to
    /\ UNCHANGED <<registryVars, sessionVars, adopted, park, revival, reopening, op, rel,
                   spawn, factory, rootGone, disposed, owner, tombstone>>

AncestorLeaves == Nested /\ Lineage({"root"}, "broken")
AncestorReturns == Nested /\ Lineage({"broken"}, "root")
RootLeaves == rootGone /\ Lineage({"root", "broken"}, "gone")

-----------------------------------------------------------------------------
(* A fresh createAgentSession for the id, reclaiming a dead corpse if one   *)
(* holds it (reclaimDeadCorpse).  Bound: one spawn at a time.               *)

DeadCorpse(r) == /\ r # NoRef /\ cur = r /\ status[r] = "parked" /\ attached[r] = NoSession
                 /\ adopted.ref = NoRef /\ ~ParkListed /\ revival = {}

SpawnRegisters ==
    /\ \E r \in Refs : Register(r, "running") /\ spawn' = [pc |-> "construct", ref |-> r]
    /\ UNCHANGED <<attached, runGen>>

Spawn ==
    /\ ~disposed /\ spawn.pc = "idle" /\ executing = NoSession
    /\ owner' = (lineage = "root")
    /\ \/ /\ cur = NoRef \/ (DeadCorpse(cur) /\ ~factory)
          /\ SpawnRegisters
       \/ /\ cur # NoRef /\ DeadCorpse(cur) /\ factory
          /\ spawn' = [pc |-> "probe", ref |-> cur]
          /\ UNCHANGED registryVars
    /\ UNCHANGED <<sessionVars, adopted, park, revival, reopening, op, rel, factory,
                   rootGone, disposed, lineage, tombstone>>

\* The factory finds no reviver and the corpse is still one: its id is reused;
\* otherwise the spawn fails with a conflict.
SpawnProbed ==
    /\ Quiet /\ spawn.pc = "probe"
    /\ \/ DeadCorpse(spawn.ref) /\ SpawnRegisters
       \/ spawn' = NoSpawn /\ UNCHANGED registryVars
    /\ UNCHANGED <<sessionVars, adopted, park, revival, reopening, op, rel, teardownVars,
                   tombstone>>

SpawnAttaches ==
    LET r == spawn.ref
    IN /\ Quiet /\ spawn.pc = "construct" /\ Attachable(r)
       /\ \E s \in Sessions :
            /\ Unborn(s)
            /\ session' = [session EXCEPT ![s] = "live"]
            /\ claim' = [claim EXCEPT ![s] = r]
            /\ ready' = ready \cup {s}
            /\ executing' = s
            /\ AttachSession(r, s)
       /\ SetStatus(r, "running")
       /\ spawn' = NoSpawn
       /\ UNCHANGED <<cur, adopted, park, revival, reopening, op, rel, teardownVars,
                      tombstone>>

\* Construction fails or the ref was taken away: an own, unkilled ref is forgotten.
SpawnFails ==
    LET r == spawn.ref
    IN /\ Quiet /\ spawn.pc = "construct"
       /\ IF cur = r /\ status[r] = "running"
          THEN cur' = NoRef /\ adopted' = OnRemoved(r, adopted)
          ELSE UNCHANGED <<cur, adopted>>
       /\ spawn' = NoSpawn
       /\ UNCHANGED <<status, attached, runGen, sessionVars, park, revival, reopening, op,
                      rel, teardownVars, tombstone>>

-----------------------------------------------------------------------------
ReviverSteps(c) == Claim(c) \/ ReviverFails(c) \/ Attach(c) \/ AttachRefused(c)
                   \/ InitFails(c) \/ ReviverReturns(c) \/ SimpleReviverReturns(c)

\* What the runtime and the injected functions do for caller c.
CallerSteps(c) == Kept(c) \/ Unparked(c) \/ ProbeFails(c) \/ ProbeSucceeds(c)
                  \/ Unmark(c) \/ Reopened(c) \/ Cold(c) \/ ReviverSteps(c) \/ Reject(c)

Next ==
    \/ \E c \in Callers : EnsureLive(c) \/ CallerSteps(c) \/ CallerDone(c)
    \/ RunStarts \/ RunEnds \/ Adopt
    \/ \E s \in Sessions : SessionDisposed(s)
    \/ TimerFires \/ ParkCommits \/ ParkFinishes
    \/ Kill \/ Cancel
    \/ \E k \in Releases : ReleaseGoes(k) \/ Persisted(k) \/ Released(k)
    \/ \E other \in BOOLEAN : DisposeRoot(other)
    \/ DisposeEnds
    \/ AncestorLeaves \/ AncestorReturns \/ RootLeaves
    \/ Spawn \/ SpawnProbed \/ SpawnAttaches \/ SpawnFails

Spec == Init /\ [][Next]_vars

\* Promises settle: I/O completes, disposal of a session ends, microtasks run.
Fairness ==
    /\ \A c \in Callers : WF_vars(CallerSteps(c))
    /\ \A s \in Sessions : WF_vars(SessionDisposed(s))
    /\ WF_vars(ParkCommits) /\ WF_vars(ParkFinishes)
    /\ \A k \in Releases : WF_vars(ReleaseGoes(k) \/ Persisted(k) \/ Released(k))

FairSpec == Spec /\ Fairness

-----------------------------------------------------------------------------
(* Properties.                                                              *)

\* ensureLive gives caller c its answer in this step.
Handed(c) == op[c].pc # "got" /\ op'[c].pc = "got"

\* Whatever ensureLive awaited (a cancelled park, a finished one, a revival it
\* ran or joined), the session it returns is the one attached to the ref the id
\* resolves to at that moment: never the session of a replaced ref, nor one that
\* a park or a kill has detached meanwhile.
HandOutAttached ==
    [][\A c \in Callers : Handed(c) /\ op[c].pc # "reopened" =>
         cur' # NoRef /\ attached'[cur'] = op'[c].ses]_vars

\* agent-lifecycle.ts:447: "Return the live session", or throw "if the id is
\* unknown".  After awaiting a reopen, ensureLive goes on with the reopened ref,
\* although the id may have been released meanwhile.
ReopenHandsOutAttached ==
    [][\A c \in Callers : Handed(c) /\ op[c].pc = "reopened" =>
         cur' # NoRef /\ attached'[cur'] = op'[c].ses]_vars

\* agent-lifecycle.ts:15: "A disposing session is never handed out."  A release
\* that unregisters leaves the session attached while it disposes.
NeverHandsOutDisposing ==
    [][\A c \in Callers : Handed(c) => session'[op'[c].ses] = "live"]_vars

\* Somebody still answers for session s: the registered ref, the executor of
\* the spawn, the revival initializing it, or the kill about to dispose it.
Held(s) == \/ LiveSession = s
           \/ executing = s
           \/ \E c \in Callers : op[c].pc = "init" /\ op[c].ses = s
           \/ \E k \in Releases : rel[k].pc = "persist" /\ rel[k].ses = s

\* No interleaving of revivals, parks and releases leaves a live session that
\* nothing can reach: it would keep its tools, file lease and turns for ever.
\* It is claimed of agents that own no worktree, until a killed one is reopened,
\* and of those whose only release is a kill, with one reopen.
NoOrphans == \A s \in Sessions : session[s] = "live" => Held(s)

Rebuilding(c, r) ==
    op[c].pc \in {"cold", "open", "construct", "init"} /\ op[c].ref = r

\* Two calls never rebuild the same ref side by side (#revivals): the transcript
\* would get two writers in this process, which its lease does not exclude.  It
\* is claimed until a killed agent is reopened: a call that comes back from a
\* reopen with a ref that lost the id replaces the entry of #revivals.
RevivalsCoalesce ==
    \A r \in Refs : \A c, d \in Callers : Rebuilding(c, r) /\ Rebuilding(d, r) => c = d

\* `aborted` is terminal for its generation: no late revival, park, turn or
\* finalizer moves a killed ref back or attaches a session to it, whatever it
\* was doing when the kill came.
AbortedIsTerminal ==
    [][\A r \in Refs : status[r] = "aborted" =>
         status'[r] = "aborted" /\ attached'[r] = NoSession]_vars

InFlight == \/ \E c \in Callers : op[c].pc \notin {"idle", "got"}
            \/ \E k \in Releases : rel[k].pc \notin {"idle", "done"}
            \/ spawn # NoSpawn \/ executing # NoSession \/ park # NoPark
            \/ \E s \in Sessions : session[s] = "disposing"

\* Once a root is torn down and everything in flight has settled, the sessions
\* that late revivals and late finalizers brought are disposed, as are those the
\* teardown released.  What it leaves live is the session of an agent whose root
\* could not be told: attached, and in the hands of a manager that parks it.  It
\* is claimed of an id that is used once, or that nothing revives cold: a stale
\* adoption hides the session of a newer ref from the teardown.
OnlyRootlessSurvive ==
    rootGone /\ ~InFlight =>
        \A s \in Sessions : session[s] = "live" =>
            /\ LiveSession = s
            /\ IF disposed THEN ~owner ELSE adopted.ref = cur /\ ~adopted.rooted

\* agent-lifecycle.ts:733-738: disposeRoot is to "release every adopted agent in
\* its spawn tree and reject that root's late revivals".  Once the root has
\* forgotten its own ref, rootOf no longer finds it.
LateRevivalsRejected ==
    [][rootGone => \A c \in Callers :
         Handed(c) => op[c].pc \notin {"open", "init"}]_vars

\* agent-lifecycle.ts:20-22: every adoption is bound to the exact ref it started
\* from, "so stale async work (...) can never clobber a newer same-id ref".  A
\* cold revive adopts its ref after the factory's await, without checking that
\* the id still resolves to it.
StaleNeverClobbers ==
    [][cur # NoRef /\ adopted.ref = cur /\ cur' = cur =>
         adopted'.ref \in {cur, NoRef}]_vars

\* agent-lifecycle.ts:544: a killed agent that "is still shutting down after its
\* kill" is not reopened.  The kill detaches the session before it disposes it,
\* so the guard on killed.session does not see it.
ReopenWaitsForShutdown ==
    [][\A r \in Refs : status[r] = "none" /\ status'[r] = "parked" =>
         \A s \in Sessions : session[s] \notin {"live", "disposing"}]_vars

\* Every ensureLive settles: joining a revival, awaiting a park that was
\* cancelled, or a park, release or teardown in between never strands a caller.
Settles == \A c \in Callers :
    op[c].pc \notin {"idle", "got"} ~> op[c].pc \in {"idle", "got"}
=============================================================================
