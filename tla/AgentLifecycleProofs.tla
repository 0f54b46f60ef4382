------------------------ MODULE AgentLifecycleProofs ------------------------
(***************************************************************************)
(* Theorems about one agent id, for every number of callers, refs and      *)
(* sessions.                                                               *)
(*                                                                         *)
(* `aborted` is terminal for its generation, for every kind of release.    *)
(* The property is about the ref that was killed; it needs one fact about  *)
(* all of them: a killed ref is detached from the step that kills it on    *)
(* (KilledDetached).                                                       *)
(*                                                                         *)
(* The others have one history of the id in three parts. Until a kill      *)
(* strikes the registered ref, each rests on the invariant of the one      *)
(* before. Revivals coalesce: RInv says where a call that builds a session *)
(* may find the ref, the adoption, the park, the spawn and the disposal of *)
(* the manager. Nobody is orphaned: OInv says who may still forget the ref *)
(* while one of its sessions disposes. A teardown leaves only what has no  *)
(* root: SInv says who answers for what is live when the root goes, and    *)
(* what may still be adopted after that. From the kill on the id stays     *)
(* with the killed ref, or with nobody (Ended, Doomed). Once a fresh ref   *)
(* succeeds the killed one (Succeeded) nothing is claimed: there the code  *)
(* orphans sessions. One lemma per action keeps each of the invariants.    *)
(***************************************************************************)
EXTENDS AgentLifecycleTypeProofs

Shape == /\ status = [r \in Refs |-> status[r]]
         /\ attached = [r \in Refs |-> attached[r]]

KilledDetached == \A r \in Refs : status[r] = "aborted" => attached[r] = NoSession

Inv == Shape /\ KilledDetached

\* The parent links move.
LinksMove == AncestorLeaves \/ AncestorReturns \/ RootLeaves

LEMMA OnlyLinksMove ==
    ASSUME LinksMove
    PROVE  /\ UNCHANGED <<registryVars, sessionVars, adopted, park, revival, reopening, op,
                           rel, spawn, factory, rootGone, disposed, owner, tombstone>>
           /\ UNCHANGED <<cur, status, attached, runGen>>
           /\ UNCHANGED <<session, claim, ready, executing>>
  BY DEF LinksMove, AncestorLeaves, AncestorReturns, RootLeaves, Lineage, registryVars,
         sessionVars

\* One step leaves every killed ref killed and detached.
StaysKilled == \A r \in Refs : status[r] = "aborted" =>
                 status'[r] = "aborted" /\ attached'[r] = NoSession

LEMMA InitInv == Init => Inv
  BY DEF Init, Inv, Shape, KilledDetached, NoSession, Refs

\* A step that leaves status and attached alone.
LEMMA Untouched == ASSUME Inv, UNCHANGED <<status, attached>>
                   PROVE  Inv' /\ StaysKilled
  BY DEF Inv, Shape, KilledDetached, StaysKilled

\* A step that gives a ref which is not killed a new status and session.
LEMMA Rewritten ==
    ASSUME Inv, NEW r, status[r] # "aborted", NEW st, NEW s,
           status' = [status EXCEPT ![r] = st],
           attached' = [attached EXCEPT ![r] = s],
           st = "aborted" => s = NoSession
    PROVE  Inv' /\ StaysKilled
  BY DEF Inv, Shape, KilledDetached, StaysKilled

\* The same with the session left alone.
LEMMA StatusOnly ==
    ASSUME Inv, NEW r, status[r] # "aborted", NEW st, st # "aborted",
           status' = [status EXCEPT ![r] = st], UNCHANGED attached
    PROVE  Inv' /\ StaysKilled
  BY DEF Inv, Shape, KilledDetached, StaysKilled

\* The same with the status left alone.
LEMMA SessionOnly ==
    ASSUME Inv, NEW r, NEW s, status[r] # "aborted" \/ s = NoSession,
           attached' = [attached EXCEPT ![r] = s], UNCHANGED status
    PROVE  Inv' /\ StaysKilled
  BY DEF Inv, Shape, KilledDetached, StaysKilled

\* TakeDown is the part of every release that kills or forgets a ref.
LEMMA TakeDownStep ==
    ASSUME Inv, NEW k, NEW r, NEW g, NEW a, TakeDown(k, r, g, a)
    PROVE  Inv' /\ StaysKilled
  BY DEF TakeDown, DetachSession, SetStatus, Inv, Shape, KilledDetached, StaysKilled

LEMMA CallerStep ==
    ASSUME Inv, NEW c \in Callers, EnsureLive(c) \/ CallerSteps(c) \/ CallerDone(c)
    PROVE  Inv' /\ StaysKilled
<1>1. CASE EnsureLive(c) \/ CallerDone(c) \/ Kept(c) \/ Unparked(c) \/ ProbeFails(c)
           \/ Unmark(c) \/ Reopened(c) \/ Cold(c) \/ Reject(c) \/ Claim(c)
           \/ ReviverFails(c) \/ AttachRefused(c)
  <2>1. UNCHANGED <<status, attached>>
    BY <1>1 DEF EnsureLive, CallerDone, Kept, Unparked, ProbeFails, Unmark, Reopened,
                Cold, Reject, Claim, ReviverFails, AttachRefused, registryVars
  <2> QED BY <2>1, Untouched
<1>2. CASE ProbeSucceeds(c)
  <2>1. PICK r \in Refs : Register(r, "parked")
    BY <1>2 DEF ProbeSucceeds
  <2> QED BY <1>2, <2>1, StatusOnly DEF ProbeSucceeds, Register, Fresh
<1>3. CASE Attach(c)
  <2>1. PICK s \in Sessions : AttachSession(op[c].ref, s)
    BY <1>3 DEF Attach
  <2> QED BY <1>3, <2>1, Rewritten DEF Attach, Attachable, AttachSession, SetStatus
<1>4. CASE InitFails(c)
  <2>1. CASE attached' = attached /\ status' = status
    BY <2>1, Untouched
  <2>2. CASE DetachSession(op[c].ref) /\ UNCHANGED status
    BY <2>2, SessionOnly DEF DetachSession
  <2>3. CASE /\ DetachSession(op[c].ref) /\ SetStatus(op[c].ref, "parked")
             /\ Settable(op[c].ref)
    BY <2>3, Rewritten DEF DetachSession, SetStatus, Settable
  <2> QED BY <1>4, <2>1, <2>2, <2>3 DEF InitFails
<1>5. ASSUME NEW s, Revive(c, s) PROVE Inv' /\ StaysKilled
  <2>1. CASE UNCHANGED <<status, attached>>
    BY <2>1, Untouched
  <2>2. CASE /\ Claimable(op[c].ref) \/ Adoptable(op[c].ref, s)
             /\ AttachSession(op[c].ref, s) /\ SetStatus(op[c].ref, "idle")
    BY <2>2, Rewritten DEF Claimable, Adoptable, AttachSession, SetStatus
  <2> QED BY <1>5, <2>1, <2>2 DEF Revive
<1>6. CASE ReviverReturns(c)
  BY <1>5, <1>6 DEF ReviverReturns
<1>7. CASE SimpleReviverReturns(c)
  BY <1>5, <1>7 DEF SimpleReviverReturns
<1> QED
  BY <1>1, <1>2, <1>3, <1>4, <1>6, <1>7 DEF CallerSteps, ReviverSteps

LEMMA OtherStep ==
    ASSUME Inv, Next, \A c \in Callers : ~(EnsureLive(c) \/ CallerSteps(c) \/ CallerDone(c))
    PROVE  Inv' /\ StaysKilled
<1>1. CASE \/ \E s \in Sessions : SessionDisposed(s)
           \/ TimerFires \/ ParkFinishes \/ DisposeEnds \/ SpawnFails
           \/ \E k \in Releases : Persisted(k) \/ Released(k)
  <2>1. UNCHANGED <<status, attached>>
    BY <1>1 DEF SessionDisposed, TimerFires, ParkFinishes, DisposeEnds, SpawnFails,
                Persisted, Released, registryVars
  <2> QED BY <2>1, Untouched
<1>2. CASE RunStarts \/ RunEnds
  BY <1>2, StatusOnly DEF RunStarts, RunEnds, SetStatus
<1>3. CASE Adopt
  <2>1. CASE UNCHANGED <<status, attached>>
    BY <2>1, Untouched
  <2>2. CASE status[cur] # "aborted" /\ SetStatus(cur, "idle") /\ UNCHANGED attached
    BY <2>2, StatusOnly DEF SetStatus
  <2> QED BY <1>3, <2>1, <2>2 DEF Adopt
<1>4. CASE ParkCommits
  <2>1. CASE UNCHANGED <<status, attached>>
    BY <2>1, Untouched
  <2>2. CASE DetachSession(park.ref) /\ UNCHANGED status
    BY <2>2, SessionOnly DEF DetachSession
  <2>3. CASE DetachSession(park.ref) /\ SetStatus(park.ref, "parked") /\ Settable(park.ref)
    BY <2>3, Rewritten DEF DetachSession, SetStatus, Settable
  <2> QED BY <1>4, <2>1, <2>2, <2>3 DEF ParkCommits
<1>5. ASSUME NEW k, NEW r, StartRelease(k, r) PROVE Inv' /\ StaysKilled
  BY <1>5, Untouched, TakeDownStep DEF StartRelease
<1>6. CASE Kill \/ Cancel
  BY <1>5, <1>6 DEF Kill, Cancel
<1>7. ASSUME NEW k \in Releases, ReleaseGoes(k) PROVE Inv' /\ StaysKilled
  BY <1>7, Untouched, TakeDownStep DEF ReleaseGoes
<1>8. ASSUME NEW other \in BOOLEAN, DisposeRoot(other) PROVE Inv' /\ StaysKilled
  BY <1>5, <1>8, Untouched DEF DisposeRoot
<1>9. CASE Spawn \/ SpawnProbed
  <2>1. CASE UNCHANGED registryVars
    BY <2>1, Untouched DEF registryVars
  <2>2. CASE SpawnRegisters
    <3>1. PICK r \in Refs : Register(r, "running")
      BY <2>2 DEF SpawnRegisters
    <3> QED BY <2>2, <3>1, StatusOnly DEF SpawnRegisters, Register, Fresh
  <2> QED BY <1>9, <2>1, <2>2 DEF Spawn, SpawnProbed
<1>10. CASE SpawnAttaches
  <2>1. PICK s \in Sessions : AttachSession(spawn.ref, s)
    BY <1>10 DEF SpawnAttaches
  <2> QED BY <1>10, <2>1, Rewritten
          DEF SpawnAttaches, Attachable, AttachSession, SetStatus
<1>11. CASE LinksMove
  BY <1>11, OnlyLinksMove, Untouched
<1> QED
  BY <1>1, <1>2, <1>3, <1>4, <1>6, <1>7, <1>8, <1>9, <1>10, <1>11 DEF Next, LinksMove

LEMMA StepInv == Inv /\ [Next]_vars => Inv' /\ (StaysKilled \/ UNCHANGED vars)
<1> SUFFICES ASSUME Inv, [Next]_vars PROVE Inv' /\ (StaysKilled \/ UNCHANGED vars)
  OBVIOUS
<1>1. CASE UNCHANGED vars
  BY <1>1, Untouched DEF vars, registryVars
<1>2. CASE \E c \in Callers : EnsureLive(c) \/ CallerSteps(c) \/ CallerDone(c)
  BY <1>2, CallerStep
<1>3. CASE Next /\ ~ \E c \in Callers : EnsureLive(c) \/ CallerSteps(c) \/ CallerDone(c)
  BY <1>3, OtherStep
<1> QED BY <1>1, <1>2, <1>3

\* No late revival, park, turn, finalizer or release brings a killed ref back:
\* setStatus's terminal guard, attachSession's refusal of killed refs and the
\* kill detaching before it publishes `aborted` are together enough.
THEOREM TerminalWhenAborted == Spec => AbortedIsTerminal
<1>1. Init => Inv
  BY InitInv
<1>2. Inv /\ [Next]_vars => Inv'
  BY StepInv
<1>3. Inv /\ [Next]_vars => [StaysKilled]_vars
  BY StepInv
<1>4. [StaysKilled]_vars <=> [\A r \in Refs : status[r] = "aborted" =>
         status'[r] = "aborted" /\ attached'[r] = NoSession]_vars
  BY DEF StaysKilled
<1> QED
  BY <1>1, <1>2, <1>3, <1>4, PTL DEF Spec, AbortedIsTerminal

-----------------------------------------------------------------------------
(* One revival at a time.  A call builds from the moment it has its entry   *)
(* in #revivals until its revival settles.                                  *)

Building == {"cold", "open", "construct", "init", "reject"}
Early == {"cold", "open", "construct"}
Reopening == {"joinReopen", "probe", "unmark", "reopened"}
Builds(c) == op[c].pc \in Building
ForCur(c) == Builds(c) /\ op[c].ref = cur

\* Nobody has been killed.
Spared == \A r \in Refs : status[r] # "aborted"
\* Nor has anybody been reopened, then.
Unkilled == /\ \A r \in Refs : status[r] # "aborted"
            /\ \A c \in Callers : op[c].pc \notin Reopening

\* What is named has been registered: a fresh ref is known to nobody.
Known(r) == r # NoRef => status[r] # "none"
Born == /\ Known(cur) /\ Known(adopted.ref)
        /\ \A c \in Callers : Builds(c) => op[c].ref \in Refs /\ Known(op[c].ref)
        /\ \A r \in Refs : status[r] = "none" => attached[r] = NoSession

\* A session under construction is its builder's alone.
Own == /\ \A s \in Sessions : s \in ready \/ s = executing => session[s] # "unborn"
       /\ \A c \in Callers : op[c].pc \in {"init", "reject"} =>
            op[c].ses \in Sessions /\ session[op[c].ses] # "unborn" /\ op[c].ses # executing
       /\ \A c \in Callers : op[c].pc = "init" => op[c].ses \notin ready
       /\ \A c, d \in Callers : op[c].pc = "init" /\ op[d].pc = "init"
                                  /\ op[d].ses = op[c].ses => c = d
       /\ \A c \in Callers : op[c].pc = "reject" => session[op[c].ses] # "live"

\* While c builds the registered ref, that ref has no other session, its idle
\* timer is off, and neither a park nor a spawn works on it.
Bare(c) == /\ attached[cur] # NoSession =>
                /\ op[c].pc \in {"init", "reject"} /\ attached[cur] = op[c].ses
                /\ status[cur] = "running" /\ ~(adopted.ref = cur /\ adopted.timer)
           /\ op[c].pc = "init" => attached[cur] # NoSession
           /\ park.ref # cur
           /\ ~(spawn.pc = "construct" /\ spawn.ref = cur)
BareAll == \A c \in Callers : ForCur(c) => Bare(c)

\* Whoever asks for the registered ref finds the revival, or nothing revives.
Closed == disposed /\ ~factory /\ adopted.ref # cur
Noted == \A c \in Callers : ForCur(c) => c \in revival \/ Closed
Alone == \A c, d \in Callers :
           Builds(c) /\ Builds(d) /\ op[c].ref = op[d].ref => c = d

\* The ref of a spawn has no session before the spawn attaches one.
Spawning == spawn.pc = "construct" =>
              /\ spawn.ref # NoRef
              /\ spawn.ref = cur => attached[cur] = NoSession /\ status[cur] = "running"
Parking == park.ref # NoRef =>
             /\ park.ses # NoSession /\ (park.listed \/ disposed)
             /\ \A c \in Callers : op[c].pc \notin {"kept", "unparked"}

\* The disposal of the manager has released the adoption, or awaits its park.
TornDown == disposed =>
    /\ rootGone
    /\ cur # NoRef /\ adopted.ref = cur =>
         /\ "teardown" \in Releases /\ rel["teardown"].ref = cur
         /\ \/ rel["teardown"].pc = "awaitPark" /\ park.ref = cur
            \/ rel["teardown"].pc = "go"

RInv == /\ Unkilled /\ Born /\ Own /\ BareAll /\ Noted /\ Alone
        /\ Spawning /\ Parking /\ TornDown

LEMMA RInvCoalesces == RInv => RevivalsCoalesce
  BY DEF RInv, Alone, RevivalsCoalesce, Rebuilding, Builds, Building

LEMMA InitRInv == Init => RInv
<1> SUFFICES ASSUME Init PROVE RInv
  OBVIOUS
<1>1. \A c \in Callers : op[c] = NoCall
  BY DEF Init
<1>2. \A c \in Callers : op[c].pc = "idle"
  BY <1>1 DEF NoCall
<1>3. Unkilled /\ BareAll /\ Noted /\ Alone
  BY <1>2 DEF Init, Unkilled, BareAll, Noted, Alone, ForCur, Builds, Building, Reopening
<1>4. Born
  <2>1. 1 \in Refs
    BY BoundsAssumption DEF Refs
  <2>2. status[1] # "none" /\ \A r \in Refs : status[r] = "none" => attached[r] = NoSession
    BY <2>1 DEF Init, NoSession, Refs
  <2>3. cur = 1 /\ adopted.ref = NoRef
    BY DEF Init, NoAdoption
  <2> QED BY <1>2, <2>2, <2>3 DEF Born, Known, Builds, Building
<1>5. Own
  BY <1>2, BoundsAssumption DEF Init, Own, NoSession, Sessions
<1>6. Spawning /\ Parking /\ TornDown
  BY <1>2 DEF Init, Spawning, Parking, TornDown, NoSpawn, NoPark
<1> QED BY <1>3, <1>4, <1>5, <1>6 DEF RInv

\* One call changes.
LEMMA Elsewhere ==
    ASSUME TInv, NEW c \in Callers, NEW o, op' = [op EXCEPT ![c] = o]
    PROVE  op'[c] = o /\ \A d \in Callers \ {c} : op'[d] = op[d]
  BY DEF TInv, CallsOK

\* No call starts building, and none that builds changes its ref.
NoneStarts == \A d \in Callers :
    /\ op'[d].pc \notin Reopening
    /\ op'[d].pc \in Building => op[d].pc \in Building /\ op'[d].ref = op[d].ref
\* Nor does any that builds get a session or give it up.
NoneMoves == \A d \in Callers :
    /\ op'[d].pc \notin Reopening
    /\ op'[d].pc \in Building =>
         /\ op[d].pc \in Building /\ op'[d].ref = op[d].ref /\ op'[d].ses = op[d].ses
         /\ op'[d].pc = op[d].pc \/ {op[d].pc, op'[d].pc} \subseteq Early

LEMMA Still == ASSUME NoneMoves PROVE NoneStarts
  BY DEF NoneMoves, NoneStarts

LEMMA StillSame == ASSUME RInv, UNCHANGED op PROVE NoneMoves
  BY DEF RInv, Unkilled, NoneMoves

LEMMA StillOne ==
    ASSUME TInv, RInv, NEW c \in Callers, NEW o, o.pc \notin Building \cup Reopening,
           op' = [op EXCEPT ![c] = o]
    PROVE  NoneMoves
  BY Elsewhere DEF RInv, Unkilled, NoneMoves

LEMMA StillSettled ==
    ASSUME TInv, RInv, NEW c \in Callers, NEW pc \in {"idle", "got"}, NEW s,
           op' = Settled(c, pc, s)
    PROVE  NoneMoves /\ op'[c].pc = pc
  BY DEF RInv, Unkilled, NoneMoves, Settled, NoCall, Building, Reopening

LEMMA StillParked ==
    ASSUME TInv, RInv, ParkEnds
    PROVE  NoneMoves
<1>1. \A d \in Callers : \/ op'[d] = op[d]
                         \/ op'[d] = [op[d] EXCEPT !.pc = "unparked"]
                         \/ op'[d] = [op[d] EXCEPT !.pc = "kept"]
  BY DEF ParkEnds, ParkAwaited
<1>2. \A d \in Callers : op[d] \in CallRecord
  BY DEF TInv, CallsOK, GoodCall
<1>3. \A d \in Callers : op'[d] = op[d] \/ op'[d].pc \in {"unparked", "kept"}
  BY <1>1, <1>2 DEF CallRecord
<1> QED BY <1>3 DEF RInv, Unkilled, NoneMoves, Building, Reopening

(* What keeps each part. *)

LEMMA AloneKept == ASSUME RInv, NoneStarts PROVE Alone'
  BY DEF RInv, Alone, NoneStarts, Builds

LEMMA UnkilledKept ==
    ASSUME RInv, NoneStarts, \A r \in Refs : status'[r] = "aborted" => status[r] = "aborted"
    PROVE  Unkilled'
  BY DEF RInv, Unkilled, NoneStarts

LEMMA BornKept ==
    ASSUME TInv, RInv, NoneStarts, Known(cur)',
           adopted'.ref \in {NoRef, adopted.ref} \/ adopted'.ref = cur
             \/ \E c \in Callers : Builds(c) /\ adopted'.ref = op[c].ref,
           \A r \in Refs : status'[r] = "none" =>
             status[r] = "none" /\ (attached'[r] = NoSession \/ UNCHANGED attached)
    PROVE  Born'
<1>1. \A r \in Refs : Known(r) => Known(r)'
  BY DEF Known
<1>2. adopted.ref \in Refs \cup {NoRef} /\ cur \in Refs \cup {NoRef}
  BY DEF TInv, MapsOK, Adoption, RegistryTypeOK
<1>3. Known(adopted.ref) /\ Known(cur)
  BY DEF RInv, Born
<1>4. \A c \in Callers : Builds(c) => op[c].ref \in Refs /\ Known(op[c].ref)
  BY DEF RInv, Born
<1>5. (adopted'.ref \in Refs /\ Known(adopted'.ref)) \/ adopted'.ref = NoRef
  BY <1>2, <1>3, <1>4
<1>6. Known(adopted.ref)'
  BY <1>5 DEF Known
<1>7. \A c \in Callers : Builds(c)' => op'[c].ref \in Refs /\ Known(op[c].ref)'
  BY <1>1, <1>4 DEF NoneStarts, Builds, Known
<1>8. \A r \in Refs : status'[r] = "none" => attached'[r] = NoSession
  BY DEF RInv, Born
<1> QED BY <1>6, <1>7, <1>8 DEF Born

LEMMA OwnKept ==
    ASSUME RInv, NoneMoves, UNCHANGED ready, executing' \in {executing, NoSession},
           NoSession \notin Sessions,
           \A s \in Sessions : /\ session'[s] = "unborn" => session[s] = "unborn"
                               /\ session'[s] = "live" => session[s] = "live"
    PROVE  Own'
  BY DEF RInv, Own, NoneMoves, Building, Early

LEMMA NotedKept ==
    ASSUME RInv, NoneStarts, UNCHANGED cur,
           (\E c \in Callers : ForCur(c)) /\ Closed => Closed',
           \A c \in Callers : c \in revival /\ ForCur(c)' => c \in revival'
    PROVE  Noted'
  BY DEF RInv, Noted, ForCur, NoneStarts, Builds

\* A call that builds the registered ref keeps it bare.
LEMMA BareKept ==
    ASSUME RInv, NoneMoves, UNCHANGED cur,
           \A c \in Callers : ForCur(c) =>
             /\ attached'[cur] = attached[cur] /\ status'[cur] = status[cur]
             /\ adopted'.ref = cur /\ adopted'.timer => adopted.ref = cur /\ adopted.timer
             /\ park'.ref # cur
             /\ spawn' = spawn \/ spawn'.pc # "construct"
    PROVE  BareAll'
<1> SUFFICES ASSUME NEW c \in Callers, ForCur(c)' PROVE Bare(c)'
  BY DEF BareAll
<1>1. /\ ForCur(c) /\ op'[c].ses = op[c].ses
      /\ op'[c].pc = op[c].pc \/ {op[c].pc, op'[c].pc} \subseteq Early
  BY DEF ForCur, Builds, NoneMoves
<1>2. Bare(c)
  BY <1>1 DEF RInv, BareAll
<1> QED BY <1>1, <1>2 DEF Bare, Early

\* Nobody builds a ref that has just been registered, or none.
LEMMA NobodyBuilds ==
    ASSUME RInv, NoneStarts, cur' = NoRef \/ status[cur'] = "none", NoRef \notin Refs
    PROVE  \A c \in Callers : ~ForCur(c)'
  BY DEF RInv, Born, Known, NoneStarts, ForCur, Builds

LEMMA NobodyIsBare ==
    ASSUME \A c \in Callers : ~ForCur(c)'
    PROVE  BareAll' /\ Noted'
  BY DEF BareAll, Noted

LEMMA ParkingKept ==
    ASSUME RInv, NoneMoves, UNCHANGED disposed,
           park'.ref # NoRef => 
             /\ park.ref # NoRef /\ park'.ses = park.ses /\ (park'.listed <=> park.listed)
             /\ \A c \in Callers : op'[c].pc \in {"kept", "unparked"} =>
                                     op[c].pc \in {"kept", "unparked"}
    PROVE  Parking'
  BY DEF RInv, Parking

LEMMA TornDownKept ==
    ASSUME RInv, UNCHANGED <<cur, disposed, rootGone>>,
           disposed /\ cur # NoRef /\ adopted'.ref = cur =>
             adopted.ref = cur /\ park'.ref = park.ref /\ UNCHANGED rel
    PROVE  TornDown'
  BY DEF RInv, TornDown

LEMMA Nothings == NoRef \notin Refs /\ NoSession \notin Sessions
  BY BoundsAssumption DEF Refs, Sessions, NoRef, NoSession

\* The variables a call in progress leaves alone.
LEMMA CallKeeps ==
    ASSUME TInv, RInv, NoneMoves,
           UNCHANGED <<registryVars, sessionVars, rel, spawn, teardownVars>>,
           park'.ref = park.ref /\ park'.ses = park.ses /\ park'.listed = park.listed,
           \/ adopted'.ref \in {NoRef, adopted.ref}
           \/ /\ ~disposed /\ ~adopted'.timer
              /\ \E c \in Callers : Builds(c) /\ adopted'.ref = op[c].ref,
           adopted'.timer => \/ adopted.timer
                             \/ /\ status[cur] = "idle" /\ adopted.ref = cur
                                /\ attached[cur] # NoSession,
           \A c \in Callers : c \in revival /\ ForCur(c)' => c \in revival',
           \A c \in Callers : op'[c].pc \in {"kept", "unparked"} =>
                                op[c].pc \in {"kept", "unparked"}
    PROVE  RInv'
<1>1. NoneStarts /\ NoRef \notin Refs /\ NoSession \notin Sessions
  BY Still, Nothings
<1>2. /\ UNCHANGED <<cur, status, attached>> /\ UNCHANGED <<session, ready, executing>>
      /\ UNCHANGED <<factory, disposed, rootGone>>
  BY DEF registryVars, sessionVars, teardownVars
<1>3. Unkilled' /\ Alone'
  BY <1>1, <1>2, AloneKept, UnkilledKept
<1>4. Born'
  <2>1. Known(cur)'
    BY <1>2 DEF RInv, Born, Known
  <2> QED BY <1>1, <1>2, <2>1, BornKept DEF RInv, Born
<1>5. Own'
  BY <1>1, <1>2, OwnKept
<1>6. BareAll'
  <2>1. ASSUME NEW c \in Callers, ForCur(c), adopted'.ref = cur, adopted'.timer
        PROVE  adopted.ref = cur /\ adopted.timer
    <3>1. cur \in Refs
      BY <2>1 DEF RInv, Born, ForCur
    <3>2. adopted.ref = cur
      BY <1>1, <2>1, <3>1
    <3>3. CASE status[cur] = "idle" /\ attached[cur] # NoSession
      <4>1. Bare(c)
        BY <2>1 DEF RInv, BareAll
      <4> QED BY <3>3, <4>1 DEF Bare
    <3> QED BY <2>1, <3>2, <3>3
  <2>2. \A c \in Callers : ForCur(c) => park.ref # cur
    BY DEF RInv, BareAll, Bare
  <2> QED BY <1>2, <2>1, <2>2, BareKept
<1>7. Noted'
  <2>1. (\E c \in Callers : ForCur(c)) => cur # NoRef
    BY <1>1 DEF RInv, Born, ForCur
  <2>2. (\E c \in Callers : ForCur(c)) /\ Closed => Closed'
    BY <1>2, <2>1 DEF Closed
  <2> QED BY <1>1, <1>2, <2>2, NotedKept
<1>8. Spawning' /\ Parking'
  BY <1>2, ParkingKept DEF RInv, Spawning
<1>9. TornDown'
  BY <1>2, TornDownKept DEF RInv
<1> QED BY <1>3, <1>4, <1>5, <1>6, <1>7, <1>8, <1>9 DEF RInv

(* ensureLive.                                                              *)

\* Whoever starts a revival of the registered ref is the only one to build it.
LEMMA StartsAlone ==
    ASSUME TInv, RInv, NEW c \in Callers, ~Builds(c), cur \in Refs,
           RevivalOf(cur) = {}, attached[cur] = NoSession, status[cur] = "parked",
           factory \/ adopted.ref = cur, park.ref # cur,
           op'[c].pc \in {"cold", "open"}, op'[c].ref = cur,
           \A d \in Callers \ {c} : op'[d] = op[d],
           revival' = {c},
           UNCHANGED <<registryVars, sessionVars, adopted, park, rel, spawn, teardownVars>>
    PROVE  RInv'
<1>1. /\ UNCHANGED <<cur, status, attached>> /\ UNCHANGED <<session, ready, executing>>
      /\ UNCHANGED <<factory, disposed, rootGone>>
  BY DEF registryVars, sessionVars, teardownVars
<1>2. /\ op'[c].pc \in {"cold", "open"} /\ op'[c].ref = cur
      /\ \A d \in Callers : d # c => op'[d] = op[d]
  OBVIOUS
<1>3. \A d \in Callers : ~ForCur(d)
  <2>1. ASSUME NEW d \in Callers, ForCur(d) PROVE FALSE
    <3>1. d \in revival \/ Closed
      BY <2>1 DEF RInv, Noted
    <3> QED BY <2>1, <3>1 DEF RevivalOf, Closed, ForCur
  <2> QED BY <2>1
<1>4. \A d \in Callers : d # c => (Builds(d)' <=> Builds(d))
  BY <1>2 DEF Builds
<1>5. Unkilled'
  BY <1>1, <1>2 DEF RInv, Unkilled, Reopening
<1>6. Alone'
  BY <1>1, <1>2, <1>3, <1>4 DEF RInv, Alone, ForCur
<1>7. Born'
  BY <1>1, <1>2, <1>4 DEF RInv, Born, Known
<1>8. Own'
  BY <1>1, <1>2 DEF RInv, Own
<1>9. \A d \in Callers : ForCur(d)' => d = c
  BY <1>1, <1>2, <1>3, <1>4 DEF ForCur
<1>10. BareAll'
  BY <1>1, <1>2, <1>9 DEF BareAll, Bare, RInv, Spawning
<1>11. Noted'
  BY <1>9 DEF Noted
<1>12. Spawning' /\ TornDown'
  BY <1>1 DEF RInv, Spawning, TornDown
<1>13. Parking'
  BY <1>1, <1>2 DEF RInv, Parking
<1> QED
  BY <1>5, <1>6, <1>7, <1>8, <1>10, <1>11, <1>12, <1>13 DEF RInv

LEMMA JoinKeeps ==
    ASSUME TInv, RInv, NEW c \in Callers, ~Builds(c), cur \in Refs, park.ref # cur,
           JoinOrRevive(c, cur),
           UNCHANGED <<registryVars, sessionVars, adopted, park, rel, spawn, teardownVars>>
    PROVE  RInv'
<1>1. ASSUME NEW pc \in {"joinRevival", "got", "idle"}, NEW o, o.pc = pc,
             op' = [op EXCEPT ![c] = o],
             UNCHANGED revival \/ RevivalOf(cur) = {}
      PROVE  RInv'
  <2>1. NoneMoves
    BY <1>1, StillOne DEF Building, Reopening
  <2>2. op'[c].pc = pc /\ \A d \in Callers : d # c => op'[d] = op[d]
    BY <1>1, Elsewhere
  <2>3. \A d \in Callers : ForCur(d)' => ForCur(d) /\ op[d].ref = cur
    BY <2>1 DEF NoneMoves, ForCur, Builds, registryVars
  <2>4. \A d \in Callers : d \in revival /\ ForCur(d)' => d \in revival'
    BY <1>1, <2>3 DEF RevivalOf
  <2> QED BY <2>1, <2>2, <2>4, CallKeeps
<1>2. CASE RevivalOf(cur) # {}
  BY <1>1, <1>2 DEF JoinOrRevive, NoCall
<1>3. CASE RevivalOf(cur) = {} /\ attached[cur] # NoSession
  BY <1>1, <1>3 DEF JoinOrRevive, NoCall
<1>4. CASE RevivalOf(cur) = {} /\ attached[cur] = NoSession
  <2>1. ResolveAndRevive(c, cur)
    BY <1>4 DEF JoinOrRevive
  <2>2. CASE Throws(c)
    BY <1>1, <1>4, <2>2 DEF Throws, NoCall
  <2>3. CASE ~Throws(c)
    <3> DEFINE o(pc, rooted) == [NoCall EXCEPT !.pc = pc, !.ref = cur, !.rooted = rooted]
    <3>1. o("cold", FALSE).pc = "cold" /\ o("cold", FALSE).ref = cur
      BY DEF NoCall
    <3>2. o("open", adopted.rooted).pc = "open" /\ o("open", adopted.rooted).ref = cur
      BY DEF NoCall
    <3>3. /\ \/ op' = [op EXCEPT ![c] = o("cold", FALSE)]
             \/ op' = [op EXCEPT ![c] = o("open", adopted.rooted)]
          /\ status[cur] = "parked" /\ (factory \/ adopted.ref = cur) /\ revival' = {c}
      BY <2>1, <2>3 DEF ResolveAndRevive
    <3> HIDE DEF o
    <3>4. PICK q : q.pc \in {"cold", "open"} /\ q.ref = cur /\ op' = [op EXCEPT ![c] = q]
      BY <3>1, <3>2, <3>3
    <3>5. op'[c] = q /\ \A d \in Callers \ {c} : op'[d] = op[d]
      BY <3>4, Elsewhere
    <3> QED BY <1>4, <3>3, <3>4, <3>5, StartsAlone
  <2> QED BY <2>2, <2>3
<1> QED BY <1>2, <1>3, <1>4

LEMMA PrepareKeeps ==
    ASSUME TInv, RInv, NEW c \in Callers, NEW o, ~Builds(c),
           cur # NoRef => park.ref # cur, Prepare(c, o),
           UNCHANGED <<registryVars, sessionVars, adopted, park, rel, spawn, teardownVars>>
    PROVE  RInv'
<1>1. CASE Throws(c) /\ UNCHANGED revival
  <2>1. NoneMoves
    BY <1>1, StillOne DEF Throws, NoCall, Building, Reopening
  <2>2. op'[c].pc = "idle" /\ \A d \in Callers : d # c => op'[d] = op[d]
    <3>1. op'[c] = NoCall /\ \A d \in Callers \ {c} : op'[d] = op[d]
      BY <1>1, Elsewhere DEF Throws
    <3> QED BY <3>1 DEF NoCall
  <2> QED BY <1>1, <2>1, <2>2, CallKeeps
<1>2. CASE cur # NoRef /\ JoinOrRevive(c, cur)
  <2>1. cur \in Refs
    BY <1>2 DEF TInv, RegistryTypeOK
  <2> QED BY <1>2, <2>1, JoinKeeps
<1>3. ~(cur # NoRef /\ status[cur] = "aborted")
  BY DEF TInv, RegistryTypeOK, RInv, Unkilled
<1> QED BY <1>1, <1>2, <1>3 DEF Prepare

LEMMA EnsureLiveKeeps == ASSUME TInv, RInv, NEW c \in Callers, EnsureLive(c) PROVE RInv'
<1>1. ~Builds(c)
  BY DEF EnsureLive, Builds, Building
<1>2. CASE ParkListed
  <2> DEFINE o == [NoCall EXCEPT !.init = cur,
                                 !.fromKilled = cur # NoRef /\ status[cur] = "aborted"]
  <2>1. PICK pc \in {"awaitKept", "awaitPark"} : op' = [op EXCEPT ![c] = [o EXCEPT !.pc = pc]]
    BY <1>2 DEF EnsureLive
  <2>2. [o EXCEPT !.pc = pc].pc = pc
    BY DEF NoCall
  <2>3. NoneMoves
    BY <2>1, <2>2, StillOne DEF Building, Reopening
  <2>4. op'[c].pc = pc /\ \A d \in Callers : d # c => op'[d] = op[d]
    BY <2>1, <2>2, Elsewhere
  <2>5. park' = park \/ park' = [park EXCEPT !.cancelled = TRUE]
    BY <1>2 DEF EnsureLive
  <2>6. park \in Park
    BY DEF TInv, MapsOK
  <2>7. park'.ref = park.ref /\ park'.ses = park.ses /\ park'.listed = park.listed
    BY <2>5, <2>6 DEF Park
  <2> QED BY <1>2, <2>3, <2>4, <2>7, CallKeeps DEF EnsureLive
<1>3. CASE ~ParkListed
  <2>1. cur # NoRef => park.ref # cur
    BY <1>3 DEF EnsureLive, ParkListed, RInv, Parking
  <2> QED BY <1>1, <1>3, <2>1, PrepareKeeps DEF EnsureLive
<1> QED BY <1>2, <1>3

LEMMA KeptKeeps ==
    ASSUME TInv, RInv, NEW c \in Callers, Kept(c) \/ Unparked(c)
    PROVE  RInv'
<1>1. op[c].pc \in {"kept", "unparked"} /\ ~Builds(c)
  BY DEF Kept, Unparked, Builds, Building
<1>2. park.ref = NoRef
  BY <1>1 DEF RInv, Parking
<1>3. CASE Prepare(c, op[c]) /\ UNCHANGED adopted
  BY <1>1, <1>2, <1>3, PrepareKeeps DEF Kept, Unparked
<1>4. CASE /\ Kept(c) /\ attached[cur] # NoSession
           /\ op' = [op EXCEPT ![c] = [NoCall EXCEPT !.pc = "got", !.ses = attached[cur]]]
           /\ adopted' = IF adopted.ref = cur /\ status[cur] = "idle"
                         THEN [adopted EXCEPT !.timer = TRUE] ELSE adopted
           /\ UNCHANGED revival
  <2> DEFINE o == [NoCall EXCEPT !.pc = "got", !.ses = attached[cur]]
  <2>1. o.pc = "got"
    BY DEF NoCall
  <2>2. NoneMoves
    BY <1>4, <2>1, StillOne DEF Building, Reopening
  <2>3. op'[c].pc = "got" /\ \A d \in Callers : d # c => op'[d] = op[d]
    BY <1>4, <2>1, Elsewhere
  <2>4. adopted \in Adoption
    BY DEF TInv, MapsOK
  <2>5. adopted'.ref = adopted.ref
        /\ (adopted'.timer => adopted.timer \/ (adopted.ref = cur /\ status[cur] = "idle"))
    BY <1>4, <2>4 DEF Adoption
  <2> QED BY <1>4, <2>2, <2>3, <2>5, CallKeeps DEF Kept
<1> QED BY <1>3, <1>4 DEF Kept, Unparked

LEMMA CallerDoneKeeps == ASSUME TInv, RInv, NEW c \in Callers, CallerDone(c) PROVE RInv'
<1>1. op' = [op EXCEPT ![c] = NoCall] /\ NoCall.pc = "idle"
  BY DEF CallerDone, NoCall
<1>2. NoneMoves
  BY <1>1, StillOne DEF Building, Reopening
<1>3. op'[c].pc = "idle" /\ \A d \in Callers : d # c => op'[d] = op[d]
  BY <1>1, Elsewhere
<1> QED BY <1>2, <1>3, CallKeeps DEF CallerDone

LEMMA NeverReopens ==
    ASSUME RInv, NEW c \in Callers
    PROVE  ~(ProbeFails(c) \/ ProbeSucceeds(c) \/ Unmark(c) \/ Reopened(c))
  BY DEF RInv, Unkilled, Reopening, ProbeFails, ProbeSucceeds, Unmark, Reopened

-----------------------------------------------------------------------------
(* The steps of a revival.                                                  *)

\* A revival settles: its caller and those that joined it are answered.
LEMMA SettledKeeps ==
    ASSUME TInv, RInv, NEW c \in Callers, op' = Settled(c, "idle", NoSession),
           revival' = revival \ {c},
           \/ adopted' \in {adopted, NoAdoption}
           \/ /\ ~disposed /\ Builds(c) /\ adopted'.ref = op[c].ref /\ ~adopted'.timer,
           UNCHANGED <<registryVars, sessionVars, park, rel, spawn, teardownVars>>
    PROVE  RInv'
<1>1. NoneMoves /\ op'[c].pc = "idle"
  BY StillSettled
<1>2. \A d \in Callers : op'[d].pc \in {"kept", "unparked"} => op'[d] = op[d]
  BY DEF Settled, NoCall
<1>3. \A d \in Callers : d \in revival /\ ForCur(d)' => d \in revival'
  BY <1>1 DEF ForCur, Builds, Building
<1>4. NoAdoption.ref = NoRef /\ NoAdoption.timer = FALSE
  BY DEF NoAdoption
<1> QED BY <1>1, <1>2, <1>3, <1>4, CallKeeps

LEMMA RevivalFailsKeeps ==
    ASSUME TInv, RInv, NEW c \in Callers, RevivalFails(c),
           UNCHANGED <<registryVars, sessionVars, park, rel, spawn, teardownVars>>
    PROVE  RInv'
  BY SettledKeeps DEF RevivalFails

\* The revival goes on before there is a session.
LEMMA EarlyKeeps ==
    ASSUME TInv, RInv, NEW c \in Callers, op[c].pc \in Early, NEW o \in CallRecord,
           o.pc \in Early, o.ref = op[c].ref, o.ses = op[c].ses,
           op' = [op EXCEPT ![c] = o], UNCHANGED revival,
           \/ UNCHANGED adopted
           \/ ~disposed /\ adopted'.ref = op[c].ref /\ ~adopted'.timer,
           UNCHANGED <<registryVars, sessionVars, park, rel, spawn, teardownVars>>
    PROVE  RInv'
<1>1. op'[c] = o /\ \A d \in Callers : d # c => op'[d] = op[d]
  BY Elsewhere
<1>2. NoneMoves
  BY <1>1 DEF RInv, Unkilled, NoneMoves, Early, Building, Reopening
<1>3. Builds(c) /\ op'[c].pc \notin {"kept", "unparked"}
  BY <1>1 DEF Builds, Early, Building
<1> QED BY <1>1, <1>2, <1>3, CallKeeps

LEMMA ColdKeeps == ASSUME TInv, RInv, NEW c \in Callers, Cold(c) PROVE RInv'
<1> DEFINE adoption == [ref |-> op[c].ref, revive |-> TRUE, cold |-> TRUE,
                        owned |-> FALSE, timer |-> FALSE, rooted |-> Rooted]
<1>1. Builds(c) /\ op[c].pc \in Early
  BY DEF Cold, Builds, Building, Early
<1>2. adoption.ref = op[c].ref /\ ~adoption.timer
  OBVIOUS
<1>3. CASE /\ op' = Settled(c, "idle", NoSession) /\ revival' = revival \ {c}
           /\ UNCHANGED adopted \/ (~disposed /\ adopted' = adoption)
  BY <1>1, <1>2, <1>3, SettledKeeps DEF Cold
<1>4. CASE /\ op' = [op EXCEPT ![c].pc = "open", ![c].cold = TRUE, ![c].rooted = Rooted]
           /\ ~disposed /\ adopted' = adoption /\ UNCHANGED revival
  <2> DEFINE o == [op[c] EXCEPT !.pc = "open", !.cold = TRUE, !.rooted = Rooted]
  <2>1. op[c] \in CallRecord
    BY DEF TInv, CallsOK, GoodCall
  <2>2. op' = [op EXCEPT ![c] = o]
    BY <1>4 DEF TInv, CallsOK
  <2>3. o \in CallRecord /\ o.pc = "open" /\ o.ref = op[c].ref /\ o.ses = op[c].ses
    BY <2>1 DEF CallRecord, CallerPcs, Rooted
  <2> HIDE DEF o
  <2> QED BY <1>1, <1>2, <1>4, <2>2, <2>3, EarlyKeeps DEF Cold, Early
<1> QED BY <1>3, <1>4 DEF Cold, Gone

LEMMA ClaimKeeps == ASSUME TInv, RInv, NEW c \in Callers, Claim(c) PROVE RInv'
<1> DEFINE o == [op[c] EXCEPT !.pc = "construct"]
<1>1. op[c] \in CallRecord
  BY DEF TInv, CallsOK, GoodCall
<1>2. o \in CallRecord /\ o.pc = "construct" /\ o.ref = op[c].ref /\ o.ses = op[c].ses
  BY <1>1 DEF CallRecord, CallerPcs
<1>3. op' = [op EXCEPT ![c] = o]
  BY DEF Claim
<1> HIDE DEF o
<1> QED BY <1>2, <1>3, EarlyKeeps DEF Claim, Early

LEMMA ReviverFailsKeeps ==
    ASSUME TInv, RInv, NEW c \in Callers, ReviverFails(c) \/ Reject(c)
    PROVE  RInv'
  BY RevivalFailsKeeps DEF ReviverFails, Reject

LEMMA CallMoves ==
    ASSUME TInv, NEW c \in Callers, NEW pc, NEW s,
           \/ op' = [op EXCEPT ![c].pc = pc, ![c].ses = s]
           \/ op' = [op EXCEPT ![c].pc = pc] /\ s = op[c].ses
    PROVE  /\ op'[c].pc = pc /\ op'[c].ref = op[c].ref /\ op'[c].ses = s
           /\ \A d \in Callers : d # c => op'[d] = op[d]
<1>1. op[c] \in CallRecord /\ op = [d \in Callers |-> op[d]]
  BY DEF TInv, CallsOK, GoodCall
<1>2. \/ op'[c] = [op[c] EXCEPT !.pc = pc, !.ses = s]
      \/ op'[c] = [op[c] EXCEPT !.pc = pc] /\ s = op[c].ses
  BY <1>1
<1>3. op'[c].pc = pc /\ op'[c].ref = op[c].ref /\ op'[c].ses = s
  BY <1>1, <1>2 DEF CallRecord
<1>4. \A d \in Callers : d # c => op'[d] = op[d]
  BY <1>1
<1> QED BY <1>3, <1>4

\* The builder of the registered ref gets a session, or its session fails: the
\* others build refs that have lost the id.
LEMMA BuilderKeeps ==
    ASSUME TInv, RInv, NEW c \in Callers, NEW pc \in {"init", "reject"}, NEW s,
           Builds(c), op'[c].pc = pc, op'[c].ref = op[c].ref, op'[c].ses = s,
           \A d \in Callers : d # c => op'[d] = op[d],
           UNCHANGED <<cur, executing, park, revival, rel, spawn, disposed, factory, rootGone>>,
           adopted'.ref = adopted.ref,
           op[c].ref = cur => Bare(c)',
           op[c].ref = cur \/ (UNCHANGED <<attached, adopted>> /\ UNCHANGED status),
           \A r \in Refs : r # op[c].ref => attached'[r] = attached[r],
           \A r \in Refs : status'[r] # "aborted" /\ (status'[r] = "none" => status[r] = "none"),
           Own'
    PROVE  RInv'
<1>1. NoneStarts
  BY DEF RInv, Unkilled, NoneStarts, Builds, Building, Reopening
<1>2. Unkilled' /\ Alone'
  BY <1>1, AloneKept, UnkilledKept
<1>3. op[c].ref \in Refs /\ status[op[c].ref] # "none" /\ NoRef \notin Refs
  BY Nothings DEF RInv, Born, Known
<1>4. Born'
  <2>1. Known(cur)'
    BY DEF RInv, Born, Known, TInv, RegistryTypeOK
  <2>2. \A r \in Refs : status'[r] = "none" => attached'[r] = attached[r]
    BY <1>3
  <2>3. Known(adopted.ref)'
    BY DEF RInv, Born, Known, TInv, MapsOK, Adoption
  <2>4. \A d \in Callers : Builds(d)' => op'[d].ref \in Refs /\ Known(op[d].ref)'
    BY <1>1 DEF RInv, Born, Known, NoneStarts, Builds
  <2> QED BY <2>1, <2>2, <2>3, <2>4 DEF RInv, Born
<1>5. \A d \in Callers : ForCur(d)' => ForCur(d)
  BY <1>1 DEF ForCur, Builds, NoneStarts
<1>6. BareAll'
  <2>1. ASSUME NEW d \in Callers, ForCur(d)', d # c PROVE Bare(d)'
    <3>1. ForCur(d) /\ op[c].ref # cur
      BY <1>5, <2>1 DEF RInv, Alone, ForCur
    <3> QED BY <2>1, <3>1 DEF RInv, BareAll, Bare
  <2>2. ForCur(c)' => Bare(c)'
    BY <1>5 DEF ForCur
  <2> QED BY <2>1, <2>2 DEF BareAll
<1>7. Noted'
  BY <1>1, NotedKept DEF Closed
<1>8. Spawning'
  <2>1. op[c].ref = cur => ~(spawn.pc = "construct" /\ spawn.ref = cur)
    BY DEF RInv, BareAll, Bare, ForCur
  <2> QED BY <2>1 DEF RInv, Spawning
<1>9. Parking' /\ TornDown'
  BY TornDownKept DEF RInv, Parking
<1> QED BY <1>2, <1>4, <1>6, <1>7, <1>8, <1>9 DEF RInv

\* The reviver of c has built session s.
LEMMA OwnBuilt ==
    ASSUME TInv, RInv, NEW c \in Callers, NEW s \in Sessions, session[s] = "unborn",
           NEW pc \in {"init", "reject"}, NEW st \in {"live", "disposing"},
           pc = "reject" => st # "live",
           session' = [session EXCEPT ![s] = st],
           op'[c].pc = pc, op'[c].ses = s,
           \A d \in Callers : d # c => op'[d] = op[d],
           UNCHANGED executing,
           UNCHANGED ready \/ (ready' = ready \cup {s} /\ pc # "init")
    PROVE  Own'
<1>1. session'[s] = st /\ \A t \in Sessions : t # s => session'[t] = session[t]
  BY DEF TInv, SessionsOK
<1>2. s \notin ready /\ s # executing
  BY DEF RInv, Own
<1>3. \A d \in Callers : d # c /\ op[d].pc \in {"init", "reject"} => op[d].ses # s
  BY DEF RInv, Own
<1>4. \A t \in Sessions : t \in ready' \/ t = executing' => session'[t] # "unborn"
  BY <1>1, <1>2 DEF RInv, Own
<1>5. \A d \in Callers : op'[d].pc \in {"init", "reject"} =>
        op'[d].ses \in Sessions /\ session'[op'[d].ses] # "unborn" /\ op'[d].ses # executing'
  BY <1>1, <1>2, <1>3 DEF RInv, Own
<1>6. \A d \in Callers : op'[d].pc = "init" => op'[d].ses \notin ready'
  BY <1>2, <1>3 DEF RInv, Own
<1>7. \A d, e \in Callers : op'[d].pc = "init" /\ op'[e].pc = "init"
                               /\ op'[e].ses = op'[d].ses => d = e
  BY <1>3 DEF RInv, Own
<1>8. \A d \in Callers : op'[d].pc = "reject" => session'[op'[d].ses] # "live"
  BY <1>1, <1>3 DEF RInv, Own
<1> QED BY <1>4, <1>5, <1>6, <1>7, <1>8 DEF Own

LEMMA AttachKeeps == ASSUME TInv, RInv, NEW c \in Callers, Attach(c) PROVE RInv'
<1>1. PICK s \in Sessions : /\ session[s] = "unborn"
                            /\ session' = [session EXCEPT ![s] = "live"]
                            /\ attached' = [attached EXCEPT ![op[c].ref] = s]
                            /\ op' = [op EXCEPT ![c].pc = "init", ![c].ses = s]
  BY DEF Attach, Unborn, AttachSession
<1>2. /\ op'[c].pc = "init" /\ op'[c].ref = op[c].ref /\ op'[c].ses = s
      /\ \A d \in Callers : d # c => op'[d] = op[d]
  BY <1>1, CallMoves
<1>3. Builds(c) /\ ForCur(c) /\ op[c].ref = cur /\ cur \in Refs /\ op[c].pc = "construct"
  BY DEF Attach, Attachable, ForCur, Builds, Building, RInv, Born
<1>4. Bare(c)
  BY <1>3 DEF RInv, BareAll
<1>5. adopted'.ref = adopted.ref /\ (~disposed /\ adopted.ref = cur => ~adopted'.timer)
      /\ (adopted'.timer => adopted.timer)
  BY <1>3 DEF Attach, OnRunning, TInv, MapsOK, Adoption
<1>6. ~(disposed /\ adopted.ref = cur)
  BY <1>3, <1>4, Nothings DEF Attach, Quiet, Bare, RInv, TornDown
<1>7. /\ attached'[cur] = s /\ status'[cur] = "running"
      /\ \A r \in Refs : r # cur => attached'[r] = attached[r] /\ status'[r] = status[r]
  BY <1>1, <1>3 DEF Attach, SetStatus, TInv, RegistryTypeOK
<1>8. Bare(c)'
  BY <1>2, <1>4, <1>5, <1>6, <1>7, Nothings DEF Attach, Bare
<1>9. Own'
  BY <1>1, <1>2, OwnBuilt DEF Attach
<1>10. \A r \in Refs : status'[r] # "aborted" /\ (status'[r] = "none" => status[r] = "none")
  BY <1>7 DEF RInv, Unkilled
<1>11. UNCHANGED <<cur, executing, park, revival, rel, spawn, disposed, factory, rootGone>>
  BY DEF Attach, teardownVars
<1>12. /\ Builds(c) /\ adopted'.ref = adopted.ref
       /\ op[c].ref = cur => Bare(c)'
       /\ op[c].ref = cur \/ (UNCHANGED <<attached, adopted>> /\ UNCHANGED status)
       /\ \A r \in Refs : r # op[c].ref => attached'[r] = attached[r]
  BY <1>3, <1>5, <1>7, <1>8
<1> QED
  BY <1>2, <1>9, <1>10, <1>11, <1>12, BuilderKeeps

LEMMA AttachRefusedKeeps ==
    ASSUME TInv, RInv, NEW c \in Callers, AttachRefused(c)
    PROVE  RInv'
<1>1. PICK s \in Sessions : /\ session[s] = "unborn"
                            /\ session' = [session EXCEPT ![s] = "disposing"]
                            /\ op' = [op EXCEPT ![c].pc = "reject", ![c].ses = s]
  BY DEF AttachRefused, Unborn
<1>2. /\ op'[c].pc = "reject" /\ op'[c].ref = op[c].ref /\ op'[c].ses = s
      /\ \A d \in Callers : d # c => op'[d] = op[d]
  BY <1>1, CallMoves
<1>3. Builds(c) /\ op[c].ref # cur
  BY DEF AttachRefused, Attachable, Builds, Building, RInv, Born, Unkilled
<1>4. Own'
  BY <1>1, <1>2, OwnBuilt DEF AttachRefused
<1>5. /\ UNCHANGED <<cur, executing, park, revival, rel, spawn, disposed, factory, rootGone>>
      /\ UNCHANGED <<attached, adopted>> /\ UNCHANGED status
  BY DEF AttachRefused, registryVars, teardownVars
<1>6. \A r \in Refs : status'[r] # "aborted" /\ (status'[r] = "none" => status[r] = "none")
  BY <1>5 DEF RInv, Unkilled
<1> QED
  BY <1>2, <1>3, <1>4, <1>5, <1>6, BuilderKeeps

LEMMA InitFailsKeeps == ASSUME TInv, RInv, NEW c \in Callers, InitFails(c) PROVE RInv'
<1> DEFINE r == op[c].ref
           s == op[c].ses
<1>1. CASE RevivalFails(c) /\ UNCHANGED <<status, attached, runGen, session>>
  BY <1>1, RevivalFailsKeeps DEF InitFails, registryVars, sessionVars
<1>2. CASE /\ Dispose(s) /\ op' = [op EXCEPT ![c].pc = "reject"]
           /\ UNCHANGED <<adopted, revival>>
           /\ IF cur = r /\ attached[r] = s
              THEN /\ DetachSession(r)
                   /\ IF Settable(r) THEN SetStatus(r, "parked")
                                     ELSE UNCHANGED <<status, runGen>>
              ELSE UNCHANGED <<status, attached, runGen>>
  <2>1. /\ op'[c].pc = "reject" /\ op'[c].ref = r /\ op'[c].ses = s
        /\ \A d \in Callers : d # c => op'[d] = op[d]
    BY <1>2, CallMoves
  <2>2. Builds(c) /\ op[c].pc = "init" /\ r \in Refs /\ s \in Sessions
    BY DEF InitFails, Builds, Building, RInv, Born, Own
  <2>3. r = cur => Bare(c) /\ attached[cur] = s
    BY <2>2 DEF RInv, BareAll, ForCur, Bare
  <2>4. /\ \A q \in Refs : q # r => attached'[q] = attached[q]
        /\ r = cur => attached'[cur] = NoSession
        /\ r # cur => UNCHANGED attached
    BY <1>2, <2>2, <2>3 DEF DetachSession, TInv, RegistryTypeOK
  <2>5. \A q \in Refs : status'[q] # "aborted" /\ (status'[q] = "none" => status[q] = "none")
    BY <1>2 DEF SetStatus, RInv, Unkilled, TInv, RegistryTypeOK
  <2>6. r # cur => UNCHANGED status
    BY <1>2
  <2>7. UNCHANGED <<cur, executing, park, revival, rel, spawn, disposed, factory, rootGone>>
        /\ UNCHANGED <<adopted, ready>>
    BY <1>2 DEF InitFails, teardownVars
  <2>8. r = cur => Bare(c)'
    BY <2>1, <2>3, <2>4, <2>7 DEF Bare
  <2>9. Own'
    <3>1. /\ \A t \in Sessions : session'[t] = "unborn" => session[t] = "unborn"
          /\ \A t \in Sessions : session'[t] = "live" => session[t] = "live"
          /\ session'[s] # "live"
      BY <1>2, <2>2, Nothings DEF Dispose, TInv, SessionsOK
    <3> QED BY <2>1, <2>2, <2>7, <3>1 DEF RInv, Own
  <2>10. /\ r = cur \/ (UNCHANGED <<attached, adopted>> /\ UNCHANGED status)
         /\ adopted'.ref = adopted.ref
    BY <2>4, <2>6, <2>7
  <2> QED
    BY <2>1, <2>2, <2>4, <2>5, <2>7, <2>8, <2>9, <2>10, BuilderKeeps
<1> QED BY <1>1, <1>2 DEF InitFails

\* The reviver of c has returned session s: its own, or one nobody has seen.
LEMMA ReviveKeeps ==
    ASSUME TInv, RInv, NEW c \in Callers, NEW s \in Sessions, Revive(c, s),
           \/ op[c].pc = "init" /\ s = op[c].ses
           \/ op[c].pc = "open" /\ session[s] = "unborn",
           ready' = ready \cup {s},
           UNCHANGED <<cur, executing, park, rel, spawn, disposed, factory, rootGone>>
    PROVE  RInv'
<1> DEFINE r == op[c].ref
<1>1. Builds(c) /\ r \in Refs /\ NoRef \notin Refs
  BY Nothings DEF Builds, Building, RInv, Born
<1>2. s # executing
  BY DEF RInv, Own
<1>3. \A d \in Callers : /\ op[d].pc = "init" /\ d # c => op[d].ses # s
                         /\ op[d].pc = "reject" /\ session[s] = "unborn" => op[d].ses # s
  BY DEF RInv, Own
<1>4. CASE /\ Claimable(r) \/ Adoptable(r, s)
           /\ AttachSession(r, s) /\ SetStatus(r, "idle")
           /\ adopted' = OnIdle(r, adopted)
           /\ op' = Settled(c, "got", s)
           /\ revival' = revival \ {c}
           /\ session' = [session EXCEPT ![s] = IF @ = "unborn" THEN "live" ELSE @]
  <2>1. NoneMoves /\ NoneStarts /\ op'[c].pc = "got"
    BY <1>4, StillSettled, Still
  <2>2. cur = r /\ ForCur(c)
    BY <1>1, <1>4 DEF Claimable, Adoptable, ForCur
  <2>3. \A d \in Callers : ~ForCur(d)'
    BY <2>1, <2>2 DEF ForCur, Builds, NoneStarts, RInv, Alone, Building
  <2>4. Alone'
    BY <2>1, AloneKept
  <2>5. status'[cur] = "idle" /\ \A q \in Refs : q # cur => status'[q] = status[q]
    BY <1>1, <1>4, <2>2 DEF SetStatus, TInv, RegistryTypeOK
  <2>6. Unkilled'
    BY <2>1, <2>5, UnkilledKept DEF RInv, Unkilled
  <2>7. adopted'.ref = adopted.ref
    BY <1>4 DEF OnIdle, TInv, MapsOK, Adoption
  <2>8. Born'
    <3>1. Known(cur)'
      BY <2>2, <2>5 DEF Known
    <3>2. \A q \in Refs : q # cur => attached'[q] = attached[q]
      BY <1>4, <2>2 DEF AttachSession, TInv, RegistryTypeOK
    <3>3. Known(adopted.ref)'
      BY <2>5, <2>7 DEF RInv, Born, Known, TInv, MapsOK, Adoption
    <3>4. \A q \in Refs : status'[q] = "none" => attached'[q] = NoSession
      BY <2>5, <3>2 DEF RInv, Born
    <3>5. \A d \in Callers : Builds(d)' => op'[d].ref \in Refs /\ Known(op[d].ref)'
      BY <2>1, <2>5 DEF RInv, Born, Known, NoneStarts, Builds
    <3> QED BY <3>1, <3>3, <3>4, <3>5 DEF Born
  <2>9. Own'
    <3>1. session'[s] # "unborn" /\ \A t \in Sessions : t # s => session'[t] = session[t]
      BY <1>4 DEF TInv, SessionsOK
    <3>2. session[s] # "unborn" => session'[s] = session[s]
      BY <1>4 DEF TInv, SessionsOK
    <3>3. \A d \in Callers : op'[d].pc \in {"init", "reject"} =>
            d # c /\ op[d].pc = op'[d].pc /\ op[d].ses = op'[d].ses
      BY <2>1 DEF NoneMoves, Building, Early
    <3>4. /\ \A t \in Sessions : t \in ready' \/ t = executing' => session'[t] # "unborn"
          /\ \A d \in Callers : op'[d].pc = "init" => op'[d].ses \notin ready'
      BY <1>3, <3>1, <3>3 DEF RInv, Own
    <3>5. \A d \in Callers : op'[d].pc \in {"init", "reject"} =>
            op'[d].ses \in Sessions /\ session'[op'[d].ses] # "unborn"
            /\ op'[d].ses # executing'
      BY <3>1, <3>3 DEF RInv, Own
    <3>6. \A d \in Callers : op'[d].pc = "reject" => session'[op'[d].ses] # "live"
      BY <1>3, <3>1, <3>2, <3>3 DEF RInv, Own
    <3>7. \A d, e \in Callers : op'[d].pc = "init" /\ op'[e].pc = "init"
                                /\ op'[e].ses = op'[d].ses => d = e
      BY <3>3 DEF RInv, Own
    <3> QED BY <3>4, <3>5, <3>6, <3>7 DEF Own
  <2>10. BareAll' /\ Noted'
    BY <2>3, NobodyIsBare
  <2>11. Spawning'
    BY <2>2 DEF RInv, BareAll, Bare, Spawning
  <2>12. Parking'
    <3>1. \A d \in Callers : op'[d].pc \in {"kept", "unparked"} => op'[d] = op[d]
      BY <1>4 DEF Settled, NoCall
    <3> QED BY <3>1, <2>1, ParkingKept
  <2>13. TornDown'
    BY <2>7, TornDownKept
  <2> QED
    BY <2>4, <2>6, <2>8, <2>9, <2>10, <2>11, <2>12, <2>13 DEF RInv
<1>5. CASE /\ session' = [session EXCEPT ![s] = IF @ = "disposed" THEN @ ELSE "disposing"]
           /\ op' = [op EXCEPT ![c].pc = "reject", ![c].ses = s]
           /\ UNCHANGED <<attached, status, runGen, adopted, revival>>
  <2>1. /\ op'[c].pc = "reject" /\ op'[c].ref = r /\ op'[c].ses = s
        /\ \A d \in Callers : d # c => op'[d] = op[d]
    BY <1>5, CallMoves
  <2>2. r = cur => Bare(c)
    BY <1>1 DEF RInv, BareAll, ForCur
  <2>3. r = cur => Bare(c)'
    BY <1>5, <2>1, <2>2 DEF Bare
  <2>4. Own'
    <3>1. /\ session'[s] \in {"disposing", "disposed"}
          /\ \A t \in Sessions : t # s => session'[t] = session[t]
      BY <1>5 DEF TInv, SessionsOK
    <3>2. /\ \A t \in Sessions : t \in ready' \/ t = executing' => session'[t] # "unborn"
          /\ \A d \in Callers : op'[d].pc = "init" => op'[d].ses \notin ready'
      BY <1>3, <2>1, <3>1 DEF RInv, Own
    <3>3. \A d \in Callers : op'[d].pc \in {"init", "reject"} =>
            op'[d].ses \in Sessions /\ session'[op'[d].ses] # "unborn"
            /\ op'[d].ses # executing'
      BY <1>2, <2>1, <3>1 DEF RInv, Own
    <3>4. \A d \in Callers : op'[d].pc = "reject" => session'[op'[d].ses] # "live"
      BY <2>1, <3>1 DEF RInv, Own
    <3>5. \A d, e \in Callers : op'[d].pc = "init" /\ op'[e].pc = "init"
                                /\ op'[e].ses = op'[d].ses => d = e
      BY <2>1 DEF RInv, Own
    <3> QED BY <3>2, <3>3, <3>4, <3>5 DEF Own
  <2>5. \A q \in Refs : status'[q] # "aborted" /\ (status'[q] = "none" => status[q] = "none")
    BY <1>5 DEF RInv, Unkilled
  <2> QED BY <1>1, <1>5, <2>1, <2>3, <2>4, <2>5, BuilderKeeps
<1> QED BY <1>4, <1>5 DEF Revive

LEMMA ReviverReturnsKeeps ==
    ASSUME TInv, RInv, NEW c \in Callers, ReviverReturns(c) \/ SimpleReviverReturns(c)
    PROVE  RInv'
<1>1. CASE ReviverReturns(c)
  <2>1. op[c].ses \in Sessions
    BY <1>1 DEF ReviverReturns, RInv, Own
  <2> QED BY <1>1, <2>1, ReviveKeeps DEF ReviverReturns, teardownVars
<1>2. CASE SimpleReviverReturns(c)
  BY <1>2, ReviveKeeps DEF SimpleReviverReturns, Unborn, teardownVars
<1> QED BY <1>1, <1>2

LEMMA CallersKeep ==
    ASSUME TInv, RInv, NEW c \in Callers, EnsureLive(c) \/ CallerSteps(c) \/ CallerDone(c)
    PROVE  RInv'
  BY EnsureLiveKeeps, KeptKeeps, CallerDoneKeeps, NeverReopens, ColdKeeps, ClaimKeeps,
     ReviverFailsKeeps, AttachKeeps, AttachRefusedKeeps, InitFailsKeeps,
     ReviverReturnsKeeps DEF CallerSteps, ReviverSteps

-----------------------------------------------------------------------------
(* Turns, parks, releases and spawns.                                       *)

LEMMA TurnsKeep == ASSUME TInv, RInv, RunStarts \/ RunEnds PROVE RInv'
<1>1. LiveSession \in ready /\ session[LiveSession] = "live" /\ LiveSession # NoSession
  BY Nothings DEF RunStarts, RunEnds, TInv, SessionsOK
<1>2. cur \in Refs /\ attached[cur] = LiveSession /\ cur # NoRef
  BY <1>1 DEF LiveSession, TInv, RegistryTypeOK
<1>3. \A c \in Callers : ~ForCur(c)
  BY <1>1, <1>2 DEF RInv, BareAll, Bare, Own
<1>4. NoneMoves /\ NoneStarts
  BY StillSame, Still DEF RunStarts, RunEnds
<1>5. /\ UNCHANGED <<cur, attached, park, revival, op, rel, spawn>>
      /\ UNCHANGED <<session, ready, executing, disposed, factory, rootGone>>
  BY DEF RunStarts, RunEnds, sessionVars, teardownVars
<1>6. adopted'.ref = adopted.ref
  BY DEF RunStarts, RunEnds, OnRunning, OnIdle, TInv, MapsOK, Adoption
<1>7. status'[cur] \in {"running", "idle"} /\ \A r \in Refs : r # cur => status'[r] = status[r]
  BY <1>2 DEF RunStarts, RunEnds, SetStatus, TInv, RegistryTypeOK
<1>8. Unkilled' /\ Alone'
  BY <1>4, <1>7, AloneKept, UnkilledKept DEF RInv, Unkilled
<1>9. Born'
  <2>1. Known(cur)'
    BY <1>5, <1>7 DEF Known
  <2>2. \A r \in Refs : status'[r] = "none" => status[r] = "none"
    BY <1>7
  <2> QED BY <1>4, <1>5, <1>6, <2>1, <2>2, BornKept
<1>10. Own'
  BY <1>4, <1>5, Nothings, OwnKept
<1>11. BareAll' /\ Noted'
  BY <1>3, <1>5, NobodyIsBare DEF ForCur, Builds
<1>12. Spawning' /\ Parking' /\ TornDown'
  BY <1>1, <1>2, <1>5, <1>6 DEF RInv, Spawning, Parking, TornDown
<1> QED BY <1>8, <1>9, <1>10, <1>11, <1>12 DEF RInv

LEMMA AdoptKeeps == ASSUME TInv, RInv, Adopt PROVE RInv'
<1> DEFINE s == executing
           owns == cur # NoRef /\ attached[cur] = s /\ status[cur] # "aborted"
<1>1. s # NoSession /\ s \in Sessions
  BY DEF Adopt, TInv, SessionsOK
<1>2. NoneMoves /\ NoneStarts
  BY StillSame, Still DEF Adopt
<1>3. UNCHANGED <<cur, attached, park, revival, op, rel, spawn, ready>>
      /\ UNCHANGED <<disposed, factory, rootGone>> /\ executing' = NoSession
  BY DEF Adopt, teardownVars
<1>4. owns => \A c \in Callers : ~ForCur(c)
  BY <1>1 DEF RInv, BareAll, Bare, Own
<1>5. /\ \A r \in Refs : r # cur => status'[r] = status[r]
      /\ status' = status \/ (owns /\ status'[cur] = "idle")
  BY DEF Adopt, SetStatus, TInv, RegistryTypeOK
<1>6. \/ adopted' = adopted
      \/ owns /\ ~disposed /\ adopted'.ref = cur
  BY DEF Adopt, Gone
<1>7. Unkilled' /\ Alone'
  <2>1. \A r \in Refs : status'[r] = "aborted" => status[r] = "aborted"
    BY <1>5
  <2> QED BY <1>2, <2>1, AloneKept, UnkilledKept
<1>8. Born'
  <2>1. Known(cur)'
    BY <1>3, <1>5 DEF Known, RInv, Born
  <2>2. \A r \in Refs : status'[r] = "none" => status[r] = "none"
    BY <1>5
  <2> QED BY <1>2, <1>3, <1>6, <2>1, <2>2, BornKept
<1>9. Own'
  <2>1. \A t \in Sessions : /\ session'[t] = "unborn" => session[t] = "unborn"
                            /\ session'[t] = "live" => session[t] = "live"
    BY DEF Adopt, Dispose, TInv, SessionsOK
  <2> QED BY <1>2, <1>3, <2>1, Nothings, OwnKept
<1>10. BareAll' /\ Noted'
  <2>1. CASE owns
    BY <1>3, <1>4, <2>1, NobodyIsBare DEF ForCur, Builds
  <2>2. CASE ~owns
    <3>1. UNCHANGED <<cur, attached, park, revival, op, rel, spawn, adopted>>
          /\ UNCHANGED status
      BY <1>3, <1>5, <1>6, <2>2
    <3>2. Noted'
      BY <1>2, <1>3, <3>1, NotedKept DEF Closed
    <3>3. BareAll'
      BY <3>1 DEF RInv, BareAll, Bare, ForCur, Builds
    <3> QED BY <3>2, <3>3
  <2> QED BY <2>1, <2>2
<1>11. Spawning' /\ Parking' /\ TornDown'
  BY <1>1, <1>3, <1>5, <1>6, Nothings DEF RInv, Spawning, Parking, TornDown
<1> QED BY <1>7, <1>8, <1>9, <1>10, <1>11 DEF RInv

\* The id is free again.
LEMMA CurLost ==
    ASSUME TInv, RInv, cur' = NoRef, adopted' \in {adopted, NoAdoption},
           spawn' \in {spawn, NoSpawn}, Own',
           UNCHANGED <<status, attached, park, op, disposed, rootGone>>
    PROVE  RInv'
<1>1. NoneMoves /\ NoneStarts
  BY StillSame, Still
<1>2. Unkilled' /\ Alone'
  BY <1>1, AloneKept, UnkilledKept
<1>3. Born'
  <2>1. Known(cur)' /\ NoAdoption.ref = NoRef
    BY DEF Known, NoAdoption
  <2> QED BY <1>1, <2>1, BornKept
<1>4. BareAll' /\ Noted'
  BY <1>1, Nothings, NobodyBuilds, NobodyIsBare
<1>5. Spawning' /\ Parking' /\ TornDown'
  BY DEF RInv, Spawning, Parking, TornDown, NoSpawn
<1> QED BY <1>2, <1>3, <1>4, <1>5 DEF RInv

LEMMA SessionDisposedKeeps ==
    ASSUME TInv, RInv, NEW s \in Sessions, SessionDisposed(s)
    PROVE  RInv'
<1>1. UNCHANGED <<status, attached, park, op, disposed, rootGone>>
      /\ UNCHANGED <<revival, rel, spawn, factory, ready, executing>>
  BY DEF SessionDisposed, teardownVars
<1>2. NoneMoves /\ NoneStarts
  BY <1>1, StillSame, Still
<1>3. Own'
  <2>1. \A t \in Sessions : /\ session'[t] = "unborn" => session[t] = "unborn"
                            /\ session'[t] = "live" => session[t] = "live"
    BY DEF SessionDisposed, TInv, SessionsOK
  <2> QED BY <1>1, <1>2, <2>1, Nothings, OwnKept
<1>4. CASE cur' = NoRef /\ adopted' \in {adopted, NoAdoption}
  BY <1>1, <1>3, <1>4, CurLost
<1>5. CASE UNCHANGED <<cur, adopted>>
  BY <1>1, <1>2, <1>3, <1>5, AloneKept
     DEF RInv, Unkilled, Born, Known, BareAll, Bare, ForCur, Builds, Noted, Closed, Spawning,
         Parking, TornDown
<1> QED BY <1>4, <1>5 DEF SessionDisposed, OnRemoved

LEMMA TimerFiresKeeps == ASSUME TInv, RInv, TimerFires PROVE RInv'
<1>1. UNCHANGED <<cur, status, attached, op, revival, rel, spawn>>
      /\ UNCHANGED <<session, ready, executing, disposed, factory, rootGone>>
  BY DEF TimerFires, registryVars, sessionVars, teardownVars
<1>2. NoneMoves /\ NoneStarts
  BY <1>1, StillSame, Still
<1>3. adopted'.ref = adopted.ref /\ ~adopted'.timer /\ adopted.timer
  BY DEF TimerFires, TInv, MapsOK, Adoption
<1>4. \/ UNCHANGED park
      \/ /\ park'.ref = cur /\ park'.ses = attached[cur] /\ park'.listed
         /\ adopted.ref = cur /\ attached[cur] # NoSession
  BY DEF TimerFires
<1>5. Unkilled' /\ Alone' /\ Own'
  BY <1>1, <1>2, Nothings, AloneKept, UnkilledKept, OwnKept
<1>6. Born'
  <2>1. Known(cur)'
    BY <1>1 DEF RInv, Born, Known
  <2> QED BY <1>1, <1>2, <1>3, <2>1, BornKept
<1>7. ASSUME NEW c \in Callers, ForCur(c) PROVE UNCHANGED park
  <2>1. Bare(c)
    BY <1>7 DEF RInv, BareAll
  <2> QED BY <1>3, <1>4, <2>1 DEF Bare
<1>8. BareAll'
  BY <1>1, <1>3, <1>7 DEF RInv, BareAll, Bare, ForCur, Builds
<1>9. Noted'
  BY <1>1, <1>2, <1>3, NotedKept DEF Closed
<1>10. Spawning'
  BY <1>1, <1>4 DEF RInv, Spawning
<1>11. Parking'
  <2>1. Quiet => \A c \in Callers : op'[c].pc \notin {"kept", "unparked"}
    BY <1>1 DEF Quiet
  <2> QED BY <1>1, <1>4, <2>1 DEF RInv, Parking, TimerFires
<1>12. TornDown'
  BY <1>1, <1>3, <1>4 DEF RInv, TornDown
<1> QED BY <1>5, <1>6, <1>8, <1>9, <1>10, <1>11, <1>12 DEF RInv

LEMMA ParkEndsKeeps ==
    ASSUME TInv, RInv, ParkEnds,
           UNCHANGED <<registryVars, sessionVars, adopted, revival, spawn, teardownVars>>
    PROVE  RInv'
<1>1. NoneMoves /\ NoneStarts
  BY StillParked, Still
<1>2. /\ UNCHANGED <<cur, status, attached>> /\ UNCHANGED <<session, ready, executing>>
      /\ UNCHANGED <<disposed, factory, rootGone>> /\ park'.ref = NoRef
  BY DEF registryVars, sessionVars, teardownVars, ParkEnds, NoPark
<1>3. \A k \in Releases : /\ rel'[k].ref = rel[k].ref
                          /\ rel[k].pc \in {"awaitPark", "go"} => rel'[k].pc = "go"
  BY DEF ParkEnds, TInv, ReleasesOK, GoodRelease, ReleaseRecord
<1>4. Unkilled' /\ Alone' /\ Own'
  BY <1>1, <1>2, Nothings, AloneKept, UnkilledKept, OwnKept
<1>5. Born'
  <2>1. Known(cur)'
    BY <1>2 DEF RInv, Born, Known
  <2> QED BY <1>1, <1>2, <2>1, BornKept
<1>6. BareAll'
  <2>1. \A c \in Callers : ForCur(c) => cur # NoRef
    BY Nothings DEF RInv, Born, ForCur
  <2> QED BY <1>1, <1>2, <2>1, BareKept
<1>7. Noted'
  BY <1>1, <1>2, NotedKept DEF Closed
<1>8. Spawning' /\ Parking' /\ TornDown'
  BY <1>2, <1>3 DEF RInv, Spawning, Parking, TornDown
<1> QED BY <1>4, <1>5, <1>6, <1>7, <1>8 DEF RInv

LEMMA ParkCommitsKeeps == ASSUME TInv, RInv, ParkCommits PROVE RInv'
<1> DEFINE r == park.ref
           holds == ~park.cancelled /\ cur = r /\ attached[r] = park.ses /\ adopted.ref = r
<1>1. CASE ~holds
  BY <1>1, ParkEndsKeeps DEF ParkCommits, registryVars, sessionVars
<1>2. CASE holds
  <2>1. /\ r # NoRef /\ cur = r /\ r \in Refs /\ park.ses # NoSession
        /\ attached[cur] # NoSession
    BY <1>2 DEF ParkCommits, RInv, Parking, TInv, MapsOK, Park
  <2>2. \A c \in Callers : ~ForCur(c)
    BY <2>1 DEF RInv, BareAll, Bare
  <2>3. /\ UNCHANGED <<cur, adopted, revival, op, rel, spawn, ready, executing>>
        /\ UNCHANGED <<disposed, factory, rootGone>>
        /\ park' = [park EXCEPT !.detached = TRUE]
    BY <1>2 DEF ParkCommits, teardownVars
  <2>4. NoneMoves /\ NoneStarts
    BY <2>3, StillSame, Still
  <2>5. park'.ref = r /\ park'.ses = park.ses /\ park'.listed = park.listed
    BY <2>3 DEF TInv, MapsOK, Park
  <2>6. /\ \A q \in Refs : status'[q] = status[q] \/ status'[q] = "parked"
        /\ \A q \in Refs : q # r => status'[q] = status[q] /\ attached'[q] = attached[q]
        /\ attached'[r] = NoSession
    BY <1>2, <2>1 DEF ParkCommits, DetachSession, SetStatus, TInv, RegistryTypeOK
  <2>7. Unkilled' /\ Alone'
    <3>1. \A q \in Refs : status'[q] = "aborted" => status[q] = "aborted"
      BY <2>6
    <3> QED BY <2>4, <3>1, AloneKept, UnkilledKept
  <2>8. Born'
    <3>1. Known(cur)'
      BY <2>1, <2>3, <2>6 DEF RInv, Born, Known
    <3>2. Known(adopted.ref)'
      BY <2>3, <2>6 DEF RInv, Born, Known, TInv, MapsOK, Adoption
    <3>3. \A d \in Callers : Builds(d)' => op'[d].ref \in Refs /\ Known(op[d].ref)'
      BY <2>3, <2>6 DEF RInv, Born, Known, Builds
    <3>4. \A q \in Refs : status'[q] = "none" => attached'[q] = NoSession
      BY <2>6 DEF RInv, Born
    <3> QED BY <3>1, <3>2, <3>3, <3>4 DEF Born
  <2>9. Own'
    <3>1. \A t \in Sessions : /\ session'[t] = "unborn" => session[t] = "unborn"
                              /\ session'[t] = "live" => session[t] = "live"
      BY <1>2 DEF ParkCommits, Dispose, TInv, SessionsOK
    <3> QED BY <2>3, <2>4, <3>1, Nothings, OwnKept
  <2>10. BareAll' /\ Noted'
    BY <2>2, <2>3, NobodyIsBare DEF ForCur, Builds
  <2>11. Spawning'
    BY <2>1, <2>3 DEF RInv, Spawning
  <2>12. Parking'
    BY <2>3, <2>5 DEF RInv, Parking
  <2>13. TornDown'
    BY <2>3, <2>5 DEF RInv, TornDown
  <2> QED
    BY <2>7, <2>8, <2>9, <2>10, <2>11, <2>12, <2>13 DEF RInv
<1> QED BY <1>1, <1>2

LEMMA ParkFinishesKeeps == ASSUME TInv, RInv, ParkFinishes PROVE RInv'
  BY ParkEndsKeeps DEF ParkFinishes

\* What a release that does not strike the registered ref changes before its next await.
Releasing(k) ==
    /\ UNCHANGED <<attached, status>>
    /\ adopted'.ref \in {adopted.ref, NoRef} /\ (adopted'.timer => adopted.timer)
    /\ adopted'.ref # NoRef => adopted'.rooted = adopted.rooted
    /\ park'.ref = park.ref /\ park'.ses = park.ses /\ park'.listed = park.listed
    /\ \A t \in Sessions : /\ session'[t] = "unborn" => session[t] = "unborn"
                           /\ session'[t] = "live" => session[t] = "live"
    /\ \A j \in Releases : j # k => rel'[j] = rel[j]

\* A kill that leaves everybody unharmed comes when its ref has lost the id.
LEMMA TakeDownMisses ==
    ASSUME TInv, NEW k \in Releases, k # "kill" \/ Spared', NEW r \in Refs, NEW g, NEW a,
           TakeDown(k, r, g, a)
    PROVE  ~(k = "kill" /\ cur = r)
<1> SUFFICES ASSUME k = "kill", cur = r PROVE status'[r] = "aborted"
  BY DEF Spared
<1>1. status' = [status EXCEPT ![r] = "aborted"]
  BY DEF TakeDown, SetStatus
<1> QED BY <1>1 DEF TInv, RegistryTypeOK

LEMMA TakeDownParts ==
    ASSUME TInv, NEW k \in Releases, k # "kill" \/ Spared', NEW r \in Refs, NEW g,
           NEW a \in Adoption, a.ref = adopted.ref, a.timer => adopted.timer,
           a.rooted = adopted.rooted,
           TakeDown(k, r, g, a), UNCHANGED park
    PROVE  Releasing(k) /\ adopted'.ref # r
<1>1. UNCHANGED <<attached, status>>
  BY TakeDownMisses DEF TakeDown
<1>2. adopted' = IF a.ref = r THEN NoAdoption ELSE a
  BY DEF TakeDown
<1>3. adopted'.ref \in {adopted.ref, NoRef} /\ (adopted'.timer => adopted.timer)
      /\ adopted'.ref # r /\ (adopted'.ref # NoRef => adopted'.rooted = adopted.rooted)
  BY <1>2, Nothings DEF NoAdoption
<1>4. \A t \in Sessions : /\ session'[t] = "unborn" => session[t] = "unborn"
                          /\ session'[t] = "live" => session[t] = "live"
  BY DEF TakeDown, Dispose, TInv, SessionsOK
<1>5. \A j \in Releases : j # k => rel'[j] = rel[j]
  BY DEF TakeDown, TInv, ReleasesOK
<1> QED BY <1>1, <1>3, <1>4, <1>5 DEF Releasing

LEMMA StartReleaseParts ==
    ASSUME TInv, NEW k \in Releases, k # "kill" \/ Spared', NEW r \in Refs,
           StartRelease(k, r)
    PROVE  /\ Releasing(k)
           /\ adopted'.ref = r =>
                park.ref = r /\ rel'[k].pc = "awaitPark" /\ rel'[k].ref = r
<1> DEFINE a == IF adopted.ref = r THEN [adopted EXCEPT !.timer = FALSE] ELSE adopted
<1>1. a \in Adoption /\ a.ref = adopted.ref /\ (a.timer => adopted.timer)
      /\ a.rooted = adopted.rooted
  BY DEF TInv, MapsOK, Adoption
<1>2. CASE /\ ParkListed /\ park.ref = r
           /\ park' = [park EXCEPT !.cancelled = @ \/ ~park.detached]
           /\ adopted' = a
           /\ rel' = [rel EXCEPT ![k] = [NoRelease EXCEPT !.pc = "awaitPark", !.ref = r,
                                                          !.gen = runGen[r]]]
           /\ UNCHANGED <<attached, status, runGen, session>>
  <2>1. park'.ref = park.ref /\ park'.ses = park.ses /\ park'.listed = park.listed
    BY <1>2 DEF TInv, MapsOK, Park
  <2>2. /\ \A j \in Releases : j # k => rel'[j] = rel[j]
        /\ rel'[k].pc = "awaitPark" /\ rel'[k].ref = r
    BY <1>2 DEF TInv, ReleasesOK, NoRelease
  <2> QED BY <1>1, <1>2, <2>1, <2>2 DEF Releasing
<1>3. CASE TakeDown(k, r, runGen[r], a) /\ UNCHANGED park
  <2> HIDE DEF a
  <2> QED BY <1>1, <1>3, TakeDownParts
<1> QED BY <1>2, <1>3 DEF StartRelease

LEMMA ReleasesKeep ==
    ASSUME TInv, RInv, NEW k \in Releases, Releasing(k), TornDown',
           UNCHANGED <<cur, ready, executing, revival, op, spawn>>,
           Closed /\ cur # NoRef => Closed',
           disposed => disposed'
    PROVE  RInv'
<1>1. NoneMoves /\ NoneStarts
  BY StillSame, Still
<1>2. Unkilled' /\ Alone' /\ Own'
  BY <1>1, Nothings, AloneKept, UnkilledKept, OwnKept DEF Releasing
<1>3. Born'
  <2>1. Known(cur)'
    BY DEF RInv, Born, Known, Releasing
  <2> QED BY <1>1, <2>1, BornKept DEF Releasing
<1>4. \A c \in Callers : ForCur(c) => cur # NoRef /\ park.ref # cur
  BY Nothings DEF RInv, Born, ForCur, BareAll, Bare
<1>5. BareAll'
  BY <1>1, <1>4, BareKept DEF Releasing
<1>6. Noted'
  BY <1>1, <1>4, NotedKept DEF Closed
<1>7. Spawning' /\ Parking'
  BY DEF RInv, Spawning, Parking, Releasing
<1> QED BY <1>2, <1>3, <1>5, <1>6, <1>7 DEF RInv

LEMMA CancelKeeps == ASSUME TInv, RInv, Cancel PROVE RInv'
<1>1. adopted.ref \in Refs /\ "cancel" \in Releases
  BY DEF Cancel, TInv, MapsOK, Adoption
<1>2. Releasing("cancel")
  BY <1>1, StartReleaseParts DEF Cancel
<1>3. UNCHANGED <<cur, ready, executing, revival, op, spawn, disposed, factory, rootGone>>
      /\ ~disposed
  BY DEF Cancel, teardownVars
<1>4. TornDown' /\ (Closed => Closed')
  BY <1>3 DEF TornDown, Closed
<1> QED BY <1>1, <1>2, <1>3, <1>4, ReleasesKeep

LEMMA KillKeeps == ASSUME TInv, RInv, Kill, Spared' PROVE RInv'
<1>1. cur \in Refs /\ "kill" \in Releases
  BY DEF Kill, TInv, RegistryTypeOK
<1>2. Releasing("kill")
  BY <1>1, StartReleaseParts DEF Kill
<1>3. UNCHANGED <<cur, ready, executing, revival, op, spawn, disposed, factory, rootGone>>
      /\ ~disposed
  BY DEF Kill, teardownVars
<1>4. TornDown' /\ (Closed => Closed')
  BY <1>3 DEF TornDown, Closed
<1> QED BY <1>1, <1>2, <1>3, <1>4, ReleasesKeep

LEMMA ReleaseGoesKeeps ==
    ASSUME TInv, RInv, Spared', NEW k \in Releases, ReleaseGoes(k)
    PROVE  RInv'
<1>1. /\ rel[k].ref \in Refs /\ rel[k].gen \in Nat /\ adopted \in Adoption
      /\ rel[k].pc = "go"
  BY DEF ReleaseGoes, TInv, ReleasesOK, GoodRelease, ReleaseRecord, MapsOK
<1>2. UNCHANGED <<cur, ready, executing, revival, op, spawn, disposed, factory, rootGone>>
      /\ UNCHANGED park
  BY DEF ReleaseGoes, teardownVars
<1>3. \/ TakeDown(k, rel[k].ref, rel[k].gen, adopted)
      \/ /\ k = "cancel" /\ rel' = [rel EXCEPT ![k] = ReleaseDone]
         /\ UNCHANGED <<attached, status, runGen, session, adopted>>
  BY DEF ReleaseGoes
<1>4. Releasing(k) /\ (k = "cancel" \/ adopted'.ref # rel[k].ref)
  <2>1. CASE TakeDown(k, rel[k].ref, rel[k].gen, adopted)
    BY <1>1, <1>2, <2>1, TakeDownParts
  <2>2. CASE /\ k = "cancel" /\ rel' = [rel EXCEPT ![k] = ReleaseDone]
             /\ UNCHANGED <<attached, status, runGen, session, adopted>>
    BY <1>2, <2>2 DEF Releasing, TInv, ReleasesOK
  <2> QED BY <1>3, <2>1, <2>2
<1>5. TornDown'
  <2>1. CASE k = "teardown"
    BY <1>2, <1>4, <2>1 DEF RInv, TornDown, Releasing
  <2>2. CASE k # "teardown"
    BY <1>2, <1>4, <2>2 DEF RInv, TornDown, Releasing
  <2> QED BY <2>1, <2>2
<1>6. Closed /\ cur # NoRef => Closed'
  BY <1>2, <1>4 DEF Closed, Releasing
<1> QED BY <1>2, <1>4, <1>5, <1>6, ReleasesKeep

LEMMA PersistedKeeps == ASSUME TInv, RInv, NEW k \in Releases, Persisted(k) PROVE RInv'
<1>1. UNCHANGED <<cur, ready, executing, revival, op, spawn, disposed, factory, rootGone>>
      /\ UNCHANGED <<attached, status, adopted, park>> /\ rel[k].pc = "persist"
  BY DEF Persisted, registryVars, teardownVars
<1>2. \A j \in Releases : j # k => rel'[j] = rel[j]
  BY DEF Persisted, TInv, ReleasesOK
<1>3. Releasing(k)
  <2>1. \A t \in Sessions : /\ session'[t] = "unborn" => session[t] = "unborn"
                            /\ session'[t] = "live" => session[t] = "live"
    BY DEF Persisted, Dispose, TInv, SessionsOK
  <2> QED BY <1>1, <1>2, <2>1 DEF Releasing
<1>4. TornDown'
  BY <1>1, <1>2 DEF RInv, TornDown
<1> QED BY <1>1, <1>3, <1>4, ReleasesKeep DEF Closed

LEMMA ReleasedKeeps == ASSUME TInv, RInv, NEW k \in Releases, Released(k) PROVE RInv'
<1>1. UNCHANGED <<ready, executing, revival, op, spawn, disposed, factory, rootGone>>
      /\ UNCHANGED <<attached, status, session, park>> /\ rel[k].pc = "dispose"
  BY DEF Released, sessionVars, teardownVars
<1>2. \A j \in Releases : j # k => rel'[j] = rel[j]
  BY DEF Released, TInv, ReleasesOK
<1>3. CASE UNCHANGED <<cur, adopted>>
  <2>1. Releasing(k)
    BY <1>1, <1>2, <1>3 DEF Releasing
  <2>2. TornDown'
    BY <1>1, <1>2, <1>3 DEF RInv, TornDown
  <2> QED BY <1>1, <1>3, <2>1, <2>2, ReleasesKeep DEF Closed
<1>4. CASE cur' = NoRef /\ adopted' \in {adopted, NoAdoption}
  <2>1. NoneMoves
    BY <1>1, StillSame
  <2>2. Own'
    BY <1>1, <2>1, Nothings, OwnKept
  <2> QED BY <1>1, <1>4, <2>2, CurLost
<1> QED BY <1>3, <1>4 DEF Released, OnRemoved

LEMMA DisposeRootKeeps ==
    ASSUME TInv, RInv, NEW other \in BOOLEAN, DisposeRoot(other)
    PROVE  RInv'
<1> DEFINE byId == IF cur # NoRef THEN cur ELSE adopted.ref
           target == IF other THEN IF adopted.rooted \/ Rooted THEN adopted.ref ELSE NoRef
                     ELSE IF adopted.ref # NoRef \/ ParkListed THEN byId ELSE NoRef
<1>1. UNCHANGED <<cur, ready, executing, revival, op, spawn>> /\ "teardown" \in Releases
  BY DEF DisposeRoot
<1>2. rootGone' /\ (disposed' <=> ~other) /\ ~disposed
  BY DEF DisposeRoot, RInv, TornDown
<1>3. CASE /\ target = NoRef
           /\ rel' = [rel EXCEPT !["teardown"] = ReleaseDone]
           /\ UNCHANGED <<attached, status, runGen, session, adopted, park>>
  <2>1. Releasing("teardown")
    BY <1>3 DEF Releasing, TInv, ReleasesOK
  <2>2. TornDown'
    BY <1>1, <1>2, <1>3 DEF TornDown
  <2> QED BY <1>1, <1>2, <2>1, <2>2, ReleasesKeep DEF Closed
<1>4. CASE target # NoRef /\ StartRelease("teardown", target)
  <2>1. target \in Refs
    BY <1>4 DEF TInv, RegistryTypeOK, MapsOK, Adoption
  <2>2. /\ Releasing("teardown")
        /\ adopted'.ref = target => /\ park.ref = target
                                    /\ rel'["teardown"].pc = "awaitPark"
                                    /\ rel'["teardown"].ref = target
    <3> HIDE DEF target
    <3> QED BY <1>1, <1>4, <2>1, StartReleaseParts
  <2>3. TornDown'
    <3>1. ASSUME disposed', cur # NoRef, adopted'.ref = cur
          PROVE  target = cur
      BY <1>2, <2>2, <3>1 DEF Releasing
    <3>2. park'.ref = park.ref
      BY <2>2 DEF Releasing
    <3> QED BY <1>1, <1>2, <2>2, <3>1, <3>2 DEF TornDown
  <2> QED BY <1>1, <1>2, <2>2, <2>3, ReleasesKeep DEF Closed
<1> QED BY <1>3, <1>4 DEF DisposeRoot

LEMMA DisposeEndsKeeps == ASSUME TInv, RInv, DisposeEnds PROVE RInv'
<1>1. UNCHANGED <<cur, status, attached, session, ready, executing, adopted, op>>
      /\ UNCHANGED <<rel, spawn, disposed, rootGone>> /\ disposed /\ ~factory' /\ Quiet
  BY DEF DisposeEnds, registryVars, sessionVars
<1>2. park'.ref = park.ref /\ park'.ses = park.ses
  BY DEF DisposeEnds, TInv, MapsOK, Park
<1>3. NoneMoves /\ NoneStarts
  BY <1>1, StillSame, Still
<1>4. Unkilled' /\ Alone' /\ Own'
  BY <1>1, <1>3, Nothings, AloneKept, UnkilledKept, OwnKept
<1>5. Born'
  BY <1>1 DEF RInv, Born, Known, Builds
<1>6. BareAll'
  BY <1>1, <1>2 DEF RInv, BareAll, Bare, ForCur, Builds
<1>7. Noted'
  <2>1. ASSUME NEW c \in Callers, ForCur(c) PROVE adopted.ref # cur
    <3>1. cur # NoRef /\ park.ref # cur
      BY <2>1, Nothings DEF RInv, Born, ForCur, BareAll, Bare
    <3> QED BY <1>1, <3>1 DEF RInv, TornDown, Quiet
  <2> QED BY <1>1, <2>1 DEF Noted, Closed, ForCur, Builds
<1>8. Spawning' /\ Parking' /\ TornDown'
  BY <1>1, <1>2 DEF RInv, Spawning, Parking, TornDown
<1> QED BY <1>4, <1>5, <1>6, <1>7, <1>8 DEF RInv

LEMMA SpawnsKeep ==
    ASSUME TInv, RInv, Spawn \/ SpawnProbed
    PROVE  RInv'
<1>1. UNCHANGED <<session, ready, executing, adopted, park, revival, op, rel>>
      /\ UNCHANGED <<attached, disposed, factory, rootGone>>
  BY DEF Spawn, SpawnProbed, SpawnRegisters, registryVars, sessionVars, teardownVars
<1>2. NoneMoves /\ NoneStarts
  BY <1>1, StillSame, Still
<1>3. Alone' /\ Own'
  BY <1>1, <1>2, Nothings, AloneKept, OwnKept
<1>4. CASE SpawnRegisters
  <2>1. PICK r \in Refs : /\ cur' = r /\ status[r] = "none"
                          /\ status' = [status EXCEPT ![r] = "running"]
                          /\ spawn' = [pc |-> "construct", ref |-> r]
    BY <1>4 DEF SpawnRegisters, Register, Fresh
  <2>2. /\ status'[r] = "running" /\ \A q \in Refs : q # r => status'[q] = status[q]
        /\ r # NoRef /\ adopted.ref # r
    BY <2>1, Nothings DEF TInv, RegistryTypeOK, RInv, Born, Known
  <2>3. Unkilled'
    BY <1>2, <2>2, UnkilledKept
  <2>4. Born'
    <3>1. Known(cur)'
      BY <2>1, <2>2 DEF Known
    <3>2. \A q \in Refs : status'[q] = "none" => status[q] = "none"
      BY <2>2
    <3> QED BY <1>1, <1>2, <3>1, <3>2, BornKept
  <2>5. BareAll' /\ Noted'
    BY <1>2, <2>1, Nothings, NobodyBuilds, NobodyIsBare
  <2>6. Spawning'
    BY <1>1, <2>1, <2>2 DEF RInv, Born, Spawning
  <2>7. Parking' /\ TornDown'
    BY <1>1, <2>1, <2>2 DEF RInv, Parking, TornDown
  <2> QED BY <1>3, <2>3, <2>4, <2>5, <2>6, <2>7 DEF RInv
<1>5. CASE spawn'.pc # "construct" /\ UNCHANGED registryVars
  BY <1>1, <1>2, <1>3, <1>5
     DEF registryVars, RInv, Unkilled, Born, Known, BareAll, Bare, ForCur, Builds, Noted,
         Closed, Spawning, Parking, TornDown
<1> QED BY <1>4, <1>5 DEF Spawn, SpawnProbed, NoSpawn

LEMMA SpawnAttachesKeeps == ASSUME TInv, RInv, SpawnAttaches PROVE RInv'
<1>1. PICK s \in Sessions : /\ session[s] = "unborn"
                            /\ session' = [session EXCEPT ![s] = "live"]
                            /\ ready' = ready \cup {s} /\ executing' = s
                            /\ attached' = [attached EXCEPT ![cur] = s]
  BY DEF SpawnAttaches, Unborn, AttachSession, Attachable
<1>2. UNCHANGED <<cur, adopted, park, revival, op, rel>> /\ spawn' = NoSpawn
      /\ UNCHANGED <<disposed, factory, rootGone>>
  BY DEF SpawnAttaches, teardownVars
<1>3. spawn.pc = "construct" /\ spawn.ref = cur /\ cur # NoRef /\ cur \in Refs
  BY DEF SpawnAttaches, Attachable, RInv, Spawning, TInv, RegistryTypeOK
<1>4. \A c \in Callers : ~ForCur(c)
  BY <1>3 DEF RInv, BareAll, Bare
<1>5. NoneMoves /\ NoneStarts
  BY <1>2, StillSame, Still
<1>6. status'[cur] = "running" /\ \A r \in Refs : r # cur => status'[r] = status[r]
  BY <1>3 DEF SpawnAttaches, SetStatus, TInv, RegistryTypeOK
<1>7. \A r \in Refs : r # cur => attached'[r] = attached[r]
  BY <1>1 DEF TInv, RegistryTypeOK
<1>8. Unkilled' /\ Alone'
  BY <1>5, <1>6, AloneKept, UnkilledKept
<1>9. Born'
  <2>1. Known(cur)' /\ Known(adopted.ref)'
    BY <1>2, <1>6 DEF RInv, Born, Known, TInv, MapsOK, Adoption
  <2>2. \A c \in Callers : Builds(c)' => op'[c].ref \in Refs /\ Known(op[c].ref)'
    BY <1>2, <1>6 DEF RInv, Born, Known, Builds
  <2>3. \A r \in Refs : status'[r] = "none" => attached'[r] = NoSession
    BY <1>6, <1>7 DEF RInv, Born
  <2> QED BY <2>1, <2>2, <2>3 DEF Born
<1>10. Own'
  <2>1. session'[s] = "live" /\ \A t \in Sessions : t # s => session'[t] = session[t]
    BY <1>1 DEF TInv, SessionsOK
  <2>2. \A d \in Callers : op[d].pc \in {"init", "reject"} => op[d].ses # s
    BY <1>1 DEF RInv, Own
  <2>3. \A t \in Sessions : t \in ready' \/ t = executing' => session'[t] # "unborn"
    BY <1>1, <2>1 DEF RInv, Own
  <2>4. \A d \in Callers : op'[d].pc \in {"init", "reject"} =>
          op'[d].ses \in Sessions /\ session'[op'[d].ses] # "unborn" /\ op'[d].ses # executing'
    BY <1>1, <1>2, <2>1, <2>2 DEF RInv, Own
  <2>5. \A d \in Callers : op'[d].pc = "init" => op'[d].ses \notin ready'
    BY <1>1, <1>2, <2>2 DEF RInv, Own
  <2>6. \A d \in Callers : op'[d].pc = "reject" => session'[op'[d].ses] # "live"
    BY <1>2, <2>1, <2>2 DEF RInv, Own
  <2>7. \A d, e \in Callers : op'[d].pc = "init" /\ op'[e].pc = "init"
                              /\ op'[e].ses = op'[d].ses => d = e
    BY <1>2 DEF RInv, Own
  <2> QED BY <2>3, <2>4, <2>5, <2>6, <2>7 DEF Own
<1>11. BareAll' /\ Noted'
  BY <1>2, <1>4, NobodyIsBare DEF ForCur, Builds
<1>12. Spawning' /\ Parking' /\ TornDown'
  BY <1>2 DEF RInv, Spawning, Parking, TornDown, NoSpawn
<1> QED BY <1>8, <1>9, <1>10, <1>11, <1>12 DEF RInv

LEMMA SpawnFailsKeeps == ASSUME TInv, RInv, SpawnFails PROVE RInv'
<1>1. UNCHANGED <<status, attached, session, ready, executing, park, revival, op, rel>>
      /\ UNCHANGED <<disposed, factory, rootGone>> /\ spawn' = NoSpawn
  BY DEF SpawnFails, sessionVars, teardownVars
<1>2. NoneMoves
  BY <1>1, StillSame
<1>3. Own'
  BY <1>1, <1>2, Nothings, OwnKept
<1>4. CASE cur' = NoRef /\ adopted' \in {adopted, NoAdoption}
  BY <1>1, <1>3, <1>4, CurLost
<1>5. CASE UNCHANGED <<cur, adopted>>
  BY <1>1, <1>3, <1>5
     DEF RInv, Unkilled, Born, Known, BareAll, Bare, ForCur, Builds, Noted, Closed, Alone,
         Spawning, Parking, TornDown, NoSpawn
<1> QED BY <1>4, <1>5 DEF SpawnFails, OnRemoved

LEMMA LinksKeep == ASSUME RInv, LinksMove PROVE RInv'
  BY OnlyLinksMove DEF RInv, Unkilled, Born, Known, Own, BareAll, Bare, ForCur, Builds,
     Noted, Closed, Alone, Spawning, Parking, TornDown

LEMMA StepRInv ==
    ASSUME Spared', TInv, RInv, [Next]_vars
    PROVE  RInv'
<1>1. CASE UNCHANGED vars
  BY <1>1 DEF vars, registryVars, sessionVars, teardownVars, RInv, Unkilled, Born, Known, Own,
     BareAll, Bare, ForCur, Builds, Noted, Closed, Alone, Spawning, Parking, TornDown
<1>2. CASE Next
  BY <1>2, CallersKeep, TurnsKeep, AdoptKeeps, SessionDisposedKeeps, TimerFiresKeeps,
     ParkCommitsKeeps, ParkFinishesKeeps, KillKeeps, CancelKeeps, ReleaseGoesKeeps,
     PersistedKeeps, ReleasedKeeps, DisposeRootKeeps, DisposeEndsKeeps, SpawnsKeep,
     SpawnAttachesKeeps, SpawnFailsKeeps, LinksKeep DEF Next, LinksMove
<1> QED BY <1>1, <1>2

-----------------------------------------------------------------------------
(* Nobody is orphaned.  A live session is the registered ref's own.         *)

\* Whoever is live is attached to the ref the id resolves to.
OneLive == \A s \in Sessions : session[s] = "live" => cur # NoRef /\ attached[cur] = s

\* What claims, releases and parks name has been registered and built.
Named == /\ \A s \in Sessions : Known(claim[s]) /\ (session[s] = "unborn" => claim[s] = NoRef)
         /\ \A k \in Releases : Known(rel[k].ref)
         /\ Known(park.ref)
         /\ \A r \in Refs : attached[r] # NoSession => session[attached[r]] # "unborn"

\* A release that forgets the ref has no onRelease to await: no agent owns a worktree,
\* or kills, which keep the ref, are the only releases.
Lone == Isolated => Releases \subseteq {"kill"}
Lean(a) == Isolated \/ ~a.owned
Unowned == /\ Lone /\ Lean(adopted)
           /\ \A k \in Releases : k # "kill" => Lean(rel[k]) /\ rel[k].pc # "persist"

\* A release of the registered ref that will forget it.
Waits(k) == k # "kill" /\ rel[k].pc = "dispose" /\ rel[k].ref = cur

\* When the disposal of s ends, the registered ref may be forgotten: by the
\* dispose wrapper of s, or by a release that waits for s.
Ends(s) == \/ claim[s] = cur
           \/ \E k \in Releases : Waits(k) /\ rel[k].ses = s
\* Until then nobody attaches another session to it: the park that detached s is
\* awaited, or the call that detached s is the revival.
Guarded(s) == \/ park.ref = cur /\ park.detached /\ park.ses = s
              \/ \E c \in Callers : op[c].pc = "reject" /\ op[c].ref = cur /\ op[c].ses = s
Dying == cur # NoRef => \A s \in Sessions : session[s] = "disposing" /\ Ends(s) =>
           attached[cur] = s \/ (attached[cur] = NoSession /\ Guarded(s))

\* Such a release disposes the session that the ref has.
Taken == cur # NoRef => \A k \in Releases : Waits(k) =>
           /\ attached[cur] \in {rel[k].ses, NoSession}
           /\ rel[k].ses # NoSession => session[rel[k].ses] \in {"disposing", "disposed"}

\* The session of a spawn stays attached until its executor hands it over.
Executed == executing # NoSession /\ cur # NoRef /\ claim[executing] = cur =>
              attached[cur] = executing /\ adopted.ref # cur
SpawnsCur == spawn.pc = "construct" /\ spawn.ref = cur
SpawnsAlone == SpawnsCur => park.ref # cur /\ adopted.ref # cur

OInv == OneLive /\ Named /\ Unowned /\ Dying /\ Taken /\ Executed /\ SpawnsAlone

LEMMA OInvNoOrphans == OInv => NoOrphans
  BY DEF OInv, OneLive, NoOrphans, Held, LiveSession

LEMMA InitOInv == ASSUME Lone PROVE Init => OInv
<1> SUFFICES ASSUME Init PROVE OInv
  OBVIOUS
<1>1. PICK spawned \in BOOLEAN :
        /\ status = [r \in Refs |-> IF r > 1 THEN "none"
                                    ELSE IF spawned THEN "running" ELSE "parked"]
        /\ attached = [r \in Refs |-> IF r = 1 /\ spawned THEN 1 ELSE NoSession]
        /\ session = [s \in Sessions |-> IF s = 1 /\ spawned THEN "live" ELSE "unborn"]
        /\ claim = [s \in Sessions |-> IF s = 1 /\ spawned THEN 1 ELSE NoRef]
        /\ executing = IF spawned THEN 1 ELSE NoSession
  BY DEF Init
<1>2. cur = 1 /\ status[1] # "none"
  BY <1>1, BoundsAssumption DEF Init, Refs
<1>3. 1 \in Refs /\ 1 \in Sessions /\ NoRef # 1 /\ NoSession # 1
  BY BoundsAssumption DEF Refs, Sessions, NoRef, NoSession
<1>4. /\ adopted.ref = NoRef /\ ~adopted.owned /\ park.ref = NoRef /\ spawn.pc # "construct"
      /\ \A k \in Releases : rel[k].ref = NoRef /\ ~rel[k].owned /\ rel[k].pc = "idle"
  BY DEF Init, NoAdoption, NoPark, NoSpawn, NoRelease
<1>5. \A s \in Sessions : session[s] # "disposing" /\ (session[s] = "live" => attached[cur] = s)
  BY <1>1, <1>2, <1>3
<1>6. Named
  BY <1>1, <1>2, <1>3, <1>4 DEF Named, Known
<1>7. Executed
  BY <1>1, <1>2, <1>3, <1>4 DEF Executed
<1> QED BY <1>1, <1>2, <1>3, <1>4, <1>5, <1>6, <1>7
     DEF OInv, OneLive, Unowned, Lean, Dying, Taken, Waits, SpawnsAlone, SpawnsCur

-----------------------------------------------------------------------------
(* Steps that leave the registered ref its session.                         *)

\* What may happen to the session objects.
CalmSessions == \A s \in Sessions :
    /\ claim'[s] \in {claim[s], NoRef}
    /\ \/ session'[s] = session[s]
       \/ session[s] \in {"live", "unborn"} /\ session'[s] = "disposing"
       \/ session[s] = "disposing" /\ session'[s] = "disposed"

\* A new adoption is of a ref without a session, or ends the spawn's.
CalmAdoption ==
    /\ executing' \in {executing, NoSession}
    /\ spawn' = spawn \/ spawn'.pc # "construct"
    /\ Lean(adopted')
    /\ cur # NoRef /\ adopted'.ref = cur =>
         adopted.ref = cur \/ (~SpawnsCur /\ NoSession \in {executing', attached[cur]})

\* A release that begins to dispose took the session of the ref.
CalmRelease(k) ==
    \/ rel'[k] = rel[k]
    \/ /\ k # "kill" => Lean(rel'[k]) /\ rel'[k].pc # "persist"
       /\ rel'[k].ref \in Refs \cup {NoRef} /\ Known(rel'[k].ref)
       /\ k # "kill" /\ rel'[k].pc = "dispose" /\ rel'[k].ref = cur =>
            /\ rel'[k].ses = attached[cur]
            /\ rel'[k].ses # NoSession => session'[rel'[k].ses] # "live"

\* Nobody who guards a disposal leaves before it has ended.
CalmGuards ==
    /\ \A c \in Callers : op[c].pc = "reject" =>
         op'[c] = op[c] \/ session[op[c].ses] = "disposed"
    /\ park.detached => \/ park'.ref = park.ref /\ park'.ses = park.ses /\ park'.detached
                        \/ session[park.ses] = "disposed" \/ attached[cur] # NoSession
    /\ \/ park'.ref \in {park.ref, NoRef}
       \/ park'.ref = cur /\ attached[cur] # NoSession

Calm == /\ UNCHANGED <<cur, attached>>
        /\ \A r \in Refs : status[r] # "none" => status'[r] # "none"
        /\ CalmSessions /\ CalmAdoption /\ CalmGuards
        /\ \A k \in Releases : CalmRelease(k)

LEMMA CalmKeeps == ASSUME TInv, RInv, OInv, Calm PROVE OInv'
<1>1. /\ UNCHANGED <<cur, attached>> /\ NoRef \notin Refs /\ NoSession \notin Sessions
      /\ \A r \in Refs : Known(r) => Known(r)'
  BY Nothings DEF Calm, Known
<1>2. /\ cur \in Refs \cup {NoRef} /\ park.ref \in Refs \cup {NoRef}
      /\ cur # NoRef => attached[cur] \in Sessions \cup {NoSession}
      /\ \A s \in Sessions : claim[s] \in Refs \cup {NoRef}
      /\ \A k \in Releases : rel[k].ref \in Refs \cup {NoRef}
                             /\ rel[k].ses \in Sessions \cup {NoSession}
  BY DEF TInv, RegistryTypeOK, MapsOK, Park, SessionsOK, ReleasesOK, GoodRelease, ReleaseRecord
<1>3. OneLive'
  BY <1>1 DEF Calm, CalmSessions, OInv, OneLive
<1>4. Named'
  <2>1. \A s \in Sessions : Known(claim[s])' /\ (session'[s] = "unborn" => claim'[s] = NoRef)
    BY <1>1, <1>2 DEF Calm, CalmSessions, OInv, Named, Known
  <2>2. \A k \in Releases : Known(rel[k].ref)'
    <3> SUFFICES ASSUME NEW k \in Releases PROVE Known(rel[k].ref)'
      OBVIOUS
    <3>1. CASE rel'[k] = rel[k]
      BY <1>1, <1>2, <3>1 DEF OInv, Named, Known
    <3>2. CASE rel'[k].ref \in Refs \cup {NoRef} /\ Known(rel'[k].ref)
      BY <1>1, <3>2 DEF Known
    <3> QED BY <3>1, <3>2 DEF Calm, CalmRelease
  <2>3. Known(park.ref)'
    BY <1>1, <1>2 DEF Calm, CalmGuards, OInv, Named, RInv, Born, Known
  <2>4. \A r \in Refs : attached'[r] # NoSession => session'[attached'[r]] # "unborn"
    <3>1. \A r \in Refs : attached[r] \in Sessions \cup {NoSession}
      BY DEF TInv, RegistryTypeOK
    <3> QED BY <1>1, <3>1 DEF Calm, CalmSessions, OInv, Named
  <2> QED BY <2>1, <2>2, <2>3, <2>4 DEF Named
<1>5. Unowned'
  BY DEF Calm, CalmAdoption, CalmRelease, OInv, Unowned
<1>6. Dying'
  <2> SUFFICES ASSUME cur # NoRef, NEW s \in Sessions, session'[s] = "disposing", Ends(s)',
                      attached[cur] # s
               PROVE  attached[cur] = NoSession /\ Guarded(s)'
    BY <1>1 DEF Dying
  <2>1. Ends(s)
    BY <1>1 DEF Ends, Waits, Calm, CalmSessions, CalmRelease
  <2>2. session[s] = "disposing"
    <3>1. session[s] # "live"
      BY DEF OInv, OneLive
    <3>2. session[s] # "unborn"
      BY <2>1, <1>1 DEF Ends, OInv, Named, Taken, Waits
    <3> QED BY <3>1, <3>2 DEF Calm, CalmSessions
  <2>3. attached[cur] = NoSession /\ Guarded(s)
    BY <2>1, <2>2 DEF OInv, Dying
  <2>4. Guarded(s)'
    BY <1>1, <2>2, <2>3 DEF Guarded, Calm, CalmGuards
  <2> QED BY <2>3, <2>4
<1>7. Taken'
  <2> SUFFICES ASSUME cur # NoRef, NEW k \in Releases, Waits(k)'
               PROVE  /\ attached[cur] \in {rel'[k].ses, NoSession}
                      /\ rel'[k].ses # NoSession =>
                           session'[rel'[k].ses] \in {"disposing", "disposed"}
    BY <1>1 DEF Taken
  <2>1. CASE rel'[k] = rel[k]
    BY <1>1, <1>2, <2>1 DEF Waits, OInv, Taken, Calm, CalmSessions
  <2>2. CASE /\ rel'[k].ses = attached[cur]
             /\ rel'[k].ses # NoSession => session'[rel'[k].ses] # "live"
    <3>1. attached[cur] # NoSession => session[attached[cur]] # "unborn"
      BY <1>2 DEF OInv, Named
    <3>2. \A t \in Sessions : session[t] \in {"unborn", "live", "disposing", "disposed"}
      BY DEF TInv, SessionsOK
    <3> QED BY <1>2, <2>2, <3>1, <3>2 DEF Calm, CalmSessions
  <2> QED BY <1>1, <2>1, <2>2 DEF Waits, Calm, CalmRelease
<1>8. Executed'
  <2>1. executing \in Sessions \cup {NoSession}
    BY DEF TInv, SessionsOK
  <2> QED BY <1>1, <2>1 DEF Calm, CalmSessions, CalmAdoption, OInv, Executed
<1>9. SpawnsAlone'
  BY <1>1 DEF Calm, CalmAdoption, CalmGuards, SpawnsCur, OInv, SpawnsAlone, RInv, Spawning
<1> QED BY <1>3, <1>4, <1>5, <1>6, <1>7, <1>8, <1>9 DEF OInv
\* While the registered ref has no session and no one guards it, no disposal and
\* no release will forget it.
LEMMA NobodyWaits ==
    ASSUME TInv, OInv, Quiet, cur \in Refs, attached[cur] = NoSession, park.ref # cur,
           \A c \in Callers : ~(op[c].pc = "reject" /\ op[c].ref = cur)
    PROVE  /\ \A s \in Sessions : session[s] = "disposing" => ~Ends(s)
           /\ \A k \in Releases : ~Waits(k)
<1>1. NoRef \notin Refs /\ NoSession \notin Sessions
  BY Nothings
<1>2. \A s \in Sessions : session[s] = "disposing" => ~Ends(s)
  BY <1>1 DEF OInv, Dying, Guarded
<1>3. ASSUME NEW k \in Releases, Waits(k) PROVE FALSE
  <2>1. rel[k].ses # NoSession /\ session[rel[k].ses] # "disposed"
    BY <1>3 DEF Quiet, Finishing, OInv, Unowned, Lone, Lean, Waits
  <2>2. rel[k].ses \in Sessions /\ session[rel[k].ses] = "disposing"
    BY <1>1, <1>3, <2>1 DEF OInv, Taken, TInv, ReleasesOK, GoodRelease, ReleaseRecord
  <2> QED BY <1>2, <1>3, <2>2 DEF Ends, Waits
<1> QED BY <1>2, <1>3

\* The registered ref gets a new session: whatever disposes for it has ended.
LEMMA AttachedHolds ==
    ASSUME TInv, RInv, OInv, Quiet, NEW s \in Sessions, session[s] = "unborn",
           cur \in Refs, attached[cur] = NoSession, park.ref # cur,
           \A c \in Callers : ~(op[c].pc = "reject" /\ op[c].ref = cur),
           attached' = [attached EXCEPT ![cur] = s],
           session' = [session EXCEPT ![s] = "live"],
           claim' \in {claim, [claim EXCEPT ![s] = cur]},
           \A r \in Refs : status[r] # "none" => status'[r] # "none",
           adopted'.ref = adopted.ref, Lean(adopted'),
           UNCHANGED <<cur, park, rel>>,
           \/ UNCHANGED executing /\ spawn' = spawn /\ ~SpawnsCur
           \/ executing' = s /\ adopted.ref # cur /\ spawn' = NoSpawn
    PROVE  OInv'
<1>1. NoRef \notin Refs /\ NoSession \notin Sessions /\ \A r \in Refs : Known(r) => Known(r)'
  BY Nothings DEF Known
<1>2. /\ attached'[cur] = s /\ \A r \in Refs : r # cur => attached'[r] = attached[r]
      /\ session'[s] = "live" /\ \A t \in Sessions : t # s => session'[t] = session[t]
      /\ claim'[s] \in {NoRef, cur} /\ \A t \in Sessions : t # s => claim'[t] = claim[t]
  BY DEF TInv, RegistryTypeOK, SessionsOK, OInv, Named
<1>3. \A t \in Sessions : session[t] # "live"
  BY <1>1 DEF OInv, OneLive
<1>4. /\ \A t \in Sessions : session[t] = "disposing" => ~Ends(t)
      /\ \A k \in Releases : ~Waits(k)
  BY NobodyWaits
<1>5. OneLive'
  BY <1>1, <1>2, <1>3 DEF OneLive
<1>6. Named'
  <2>1. \A t \in Sessions : Known(claim[t])' /\ (session'[t] = "unborn" => claim'[t] = NoRef)
    <3>1. Known(cur)' /\ Known(NoRef)'
      BY <1>1 DEF RInv, Born, Known
    <3>2. \A t \in Sessions : claim[t] \in Refs \cup {NoRef}
      BY DEF TInv, SessionsOK
    <3> QED BY <1>1, <1>2, <3>1, <3>2 DEF OInv, Named, Known
  <2>2. \A k \in Releases : Known(rel[k].ref)'
    BY <1>1 DEF OInv, Named, Known, TInv, ReleasesOK, GoodRelease, ReleaseRecord
  <2>3. Known(park.ref)'
    BY <1>1 DEF OInv, Named, Known, TInv, MapsOK, Park
  <2>4. \A r \in Refs : attached'[r] # NoSession => session'[attached'[r]] # "unborn"
    BY <1>1, <1>2 DEF OInv, Named, TInv, RegistryTypeOK
  <2> QED BY <2>1, <2>2, <2>3, <2>4 DEF Named
<1>7. Unowned'
  BY DEF OInv, Unowned
<1>8. Dying'
  <2> SUFFICES ASSUME NEW t \in Sessions, session'[t] = "disposing", Ends(t)' PROVE FALSE
    BY DEF Dying
  <2>1. t # s /\ session[t] = "disposing"
    BY <1>2
  <2>2. Ends(t)
    BY <1>2, <2>1 DEF Ends, Waits
  <2> QED BY <1>4, <2>1, <2>2
<1>9. Taken'
  BY <1>4 DEF Taken, Waits
<1>10. Executed'
  <2>1. CASE executing' = s /\ adopted.ref # cur
    BY <1>2, <2>1 DEF Executed
  <2>2. CASE UNCHANGED executing
    <3>1. executing = NoSession \/ (executing \in Sessions /\ executing # s)
      BY DEF RInv, Own, TInv, SessionsOK
    <3>2. executing = NoSession \/ claim[executing] # cur
      BY <1>1 DEF OInv, Executed
    <3> QED BY <1>2, <2>2, <3>1, <3>2 DEF Executed
  <2> QED BY <2>1, <2>2
<1>11. SpawnsAlone'
  BY DEF SpawnsAlone, SpawnsCur, NoSpawn
<1> QED BY <1>5, <1>6, <1>7, <1>8, <1>9, <1>10, <1>11 DEF OInv

\* The registered ref loses its session, which begins to dispose under guard.
LEMMA DetachedHolds ==
    ASSUME TInv, RInv, OInv, cur \in Refs, NEW s \in Sessions, attached[cur] = s,
           attached' = [attached EXCEPT ![cur] = NoSession], Dispose(s),
           Guarded(s)', executing # s \/ adopted.ref = cur,
           \A r \in Refs : status[r] # "none" => status'[r] # "none",
           UNCHANGED <<cur, claim, executing, adopted, rel, spawn>>, park'.ref = park.ref
    PROVE  OInv'
<1>1. NoRef \notin Refs /\ NoSession \notin Sessions /\ \A r \in Refs : Known(r) => Known(r)'
  BY Nothings DEF Known
<1>2. /\ attached'[cur] = NoSession /\ \A r \in Refs : r # cur => attached'[r] = attached[r]
  BY DEF TInv, RegistryTypeOK
<1>3. /\ \A t \in Sessions : t # s => session'[t] = session[t]
      /\ session'[s] = (IF session[s] = "live" THEN "disposing" ELSE session[s])
  BY <1>1, <1>2 DEF Dispose, TInv, SessionsOK
<1>4. \A t \in Sessions : session'[t] # "live"
  BY <1>3 DEF OInv, OneLive
<1>5. OneLive'
  BY <1>4 DEF OneLive
<1>6. Named'
  <2>1. \A t \in Sessions : Known(claim[t])' /\ (session'[t] = "unborn" => claim'[t] = NoRef)
    <3>1. \A t \in Sessions : claim[t] \in Refs \cup {NoRef}
      BY DEF TInv, SessionsOK
    <3> QED BY <1>1, <1>3, <3>1 DEF OInv, Named, Known
  <2>2. \A k \in Releases : Known(rel[k].ref)'
    BY <1>1 DEF OInv, Named, Known, TInv, ReleasesOK, GoodRelease, ReleaseRecord
  <2>3. Known(park.ref)'
    BY <1>1 DEF OInv, Named, Known, TInv, MapsOK, Park
  <2>4. \A r \in Refs : attached'[r] # NoSession => session'[attached'[r]] # "unborn"
    BY <1>1, <1>2, <1>3 DEF OInv, Named, TInv, RegistryTypeOK
  <2> QED BY <2>1, <2>2, <2>3, <2>4 DEF Named
<1>7. Dying'
  <2> SUFFICES ASSUME NEW t \in Sessions, session'[t] = "disposing", Ends(t)', t # s
               PROVE  FALSE
    BY <1>2 DEF Dying
  <2>1. Ends(t) /\ session[t] = "disposing"
    BY <1>3 DEF Ends, Waits
  <2> QED BY <1>1, <2>1 DEF OInv, Dying
<1>8. Taken'
  <2> SUFFICES ASSUME NEW k \in Releases, Waits(k), rel[k].ses # NoSession
               PROVE  session'[rel[k].ses] \in {"disposing", "disposed"}
    BY <1>2 DEF Taken, Waits
  <2>1. rel[k].ses \in Sessions /\ session[rel[k].ses] \in {"disposing", "disposed"}
    BY <1>1 DEF OInv, Taken, TInv, ReleasesOK, GoodRelease, ReleaseRecord
  <2> QED BY <1>3, <2>1
<1>9. Executed'
  BY <1>1 DEF OInv, Executed
<1>10. Unowned' /\ SpawnsAlone'
  BY DEF OInv, Unowned, SpawnsAlone, SpawnsCur
<1> QED BY <1>5, <1>6, <1>7, <1>8, <1>9, <1>10 DEF OInv

\* The id is free again: the ref that is forgotten had no live session.
LEMMA ForgottenHolds ==
    ASSUME TInv, RInv, OInv, cur' = NoRef, adopted' \in {adopted, NoAdoption},
           \A s \in Sessions : session[s] = "live" => attached[cur] # s,
           CalmSessions, UNCHANGED <<status, attached, park>>,
           \A k \in Releases : rel'[k] \in {rel[k], ReleaseDone},
           spawn' \in {spawn, NoSpawn}
    PROVE  OInv'
<1>1. NoRef \notin Refs /\ NoSession \notin Sessions
  BY Nothings
<1>2. OneLive'
  BY DEF OInv, OneLive, CalmSessions
<1>3. Named'
  <2>1. \A t \in Sessions : Known(claim[t])' /\ (session'[t] = "unborn" => claim'[t] = NoRef)
    BY DEF CalmSessions, OInv, Named, Known
  <2>2. \A k \in Releases : Known(rel[k].ref)'
    BY DEF ReleaseDone, NoRelease, OInv, Named, Known
  <2>3. \A r \in Refs : attached'[r] # NoSession => session'[attached'[r]] # "unborn"
    BY DEF CalmSessions, OInv, Named, TInv, RegistryTypeOK
  <2> QED BY <2>1, <2>2, <2>3 DEF OInv, Named, Known
<1>4. Unowned'
  BY DEF OInv, Unowned, Lean, NoAdoption, ReleaseDone, NoRelease
<1>5. Dying' /\ Taken' /\ Executed'
  BY DEF Dying, Taken, Executed
<1>6. SpawnsAlone'
  <2>1. ~SpawnsCur'
    BY DEF SpawnsCur, RInv, Spawning, NoSpawn
  <2> QED BY <2>1 DEF SpawnsAlone
<1> QED BY <1>2, <1>3, <1>4, <1>5, <1>6 DEF OInv
-----------------------------------------------------------------------------
(* The steps of a call.                                                     *)

\* A step that moves calls, at most touches the adoption, and no one rejecting.
LEMMA CallHolds ==
    ASSUME TInv, RInv, OInv, UNCHANGED <<registryVars, sessionVars, rel, spawn>>,
           park'.ref = park.ref /\ park'.ses = park.ses /\ park'.detached = park.detached,
           Lean(adopted'),
           cur # NoRef /\ adopted'.ref = cur =>
             adopted.ref = cur \/ (~SpawnsCur /\ attached[cur] = NoSession),
           \A c \in Callers : op[c].pc = "reject" =>
             op'[c] = op[c] \/ session[op[c].ses] = "disposed"
    PROVE  OInv'
<1>1. UNCHANGED <<cur, attached, status>> /\ UNCHANGED <<session, claim, executing>>
  BY DEF registryVars, sessionVars
<1>2. CalmSessions /\ CalmAdoption
  BY <1>1 DEF CalmSessions, CalmAdoption
<1>3. CalmGuards /\ \A k \in Releases : CalmRelease(k)
  BY DEF CalmGuards, CalmRelease
<1> QED BY <1>1, <1>2, <1>3, CalmKeeps DEF Calm

LEMMA PrepareMoves ==
    ASSUME TInv, NEW c \in Callers, NEW o, Prepare(c, o)
    PROVE  \A d \in Callers : d # c => op'[d] = op[d]
<1>1. op = [d \in Callers |-> op[d]]
  BY DEF TInv, CallsOK
<1>2. PICK q : op' = [op EXCEPT ![c] = q]
  BY DEF Prepare, Throws, Reopen, JoinOrRevive, ResolveAndRevive
<1> QED BY <1>1, <1>2

LEMMA EnsureLiveHolds ==
    ASSUME TInv, RInv, OInv, NEW c \in Callers, EnsureLive(c)
    PROVE  OInv'
<1>1. /\ op[c].pc = "idle" /\ adopted' = adopted
      /\ UNCHANGED <<registryVars, sessionVars, rel, spawn>>
  BY DEF EnsureLive
<1>2. \A d \in Callers : d # c => op'[d] = op[d]
  <2>1. CASE ParkListed
    <3>1. PICK q : op' = [op EXCEPT ![c] = q]
      BY <2>1 DEF EnsureLive
    <3> QED BY <3>1 DEF TInv, CallsOK
  <2>2. CASE ~ParkListed
    BY <2>2, PrepareMoves DEF EnsureLive
  <2> QED BY <2>1, <2>2
<1>3. park'.ref = park.ref /\ park'.ses = park.ses /\ park'.detached = park.detached
  <2>1. park' = park \/ park' = [park EXCEPT !.cancelled = TRUE]
    BY DEF EnsureLive
  <2> QED BY <2>1 DEF TInv, MapsOK, Park
<1> QED BY <1>1, <1>2, <1>3, CallHolds DEF OInv, Unowned, Lean

LEMMA KeptHolds ==
    ASSUME TInv, RInv, OInv, NEW c \in Callers, Kept(c) \/ Unparked(c) \/ CallerDone(c)
    PROVE  OInv'
<1>1. /\ op[c].pc # "reject"
      /\ UNCHANGED <<registryVars, sessionVars, park, rel, spawn>>
  BY DEF Kept, Unparked, CallerDone
<1>2. \A d \in Callers : d # c => op'[d] = op[d]
  <2>1. CASE Prepare(c, op[c])
    BY <2>1, PrepareMoves
  <2>2. CASE \E q : op' = [op EXCEPT ![c] = q]
    BY <2>2 DEF TInv, CallsOK
  <2> QED BY <2>1, <2>2 DEF Kept, Unparked, CallerDone
<1>3. adopted'.ref = adopted.ref /\ adopted'.owned = adopted.owned
  <2>1. adopted' = adopted \/ adopted' = [adopted EXCEPT !.timer = TRUE]
    BY DEF Kept, Unparked, CallerDone
  <2> QED BY <2>1 DEF TInv, MapsOK, Adoption
<1> QED BY <1>1, <1>2, <1>3, CallHolds DEF OInv, Unowned, Lean

\* The call of c settles or goes on, and nobody else rejects a session.
LEMMA SettledMoves ==
    ASSUME TInv, NEW c \in Callers, NEW pc, NEW s, op' = Settled(c, pc, s)
    PROVE  \A d \in Callers : d # c /\ op[d].pc = "reject" => op'[d] = op[d]
  BY DEF Settled

LEMMA RevivalFailsHolds ==
    ASSUME TInv, RInv, OInv, NEW c \in Callers, RevivalFails(c),
           op[c].pc = "reject" => session[op[c].ses] = "disposed",
           UNCHANGED <<registryVars, sessionVars, park, rel, spawn>>
    PROVE  OInv'
<1>1. \A d \in Callers : d # c /\ op[d].pc = "reject" => op'[d] = op[d]
  BY SettledMoves DEF RevivalFails
<1>2. adopted' \in {adopted, NoAdoption}
  BY DEF RevivalFails
<1>3. Lean(adopted') /\ (cur # NoRef /\ adopted'.ref = cur => adopted.ref = cur)
  BY <1>2 DEF NoAdoption, Lean, OInv, Unowned
<1> QED BY <1>1, <1>3, CallHolds

LEMMA ColdHolds == ASSUME TInv, RInv, OInv, NEW c \in Callers, Cold(c) PROVE OInv'
<1>1. /\ op[c].pc = "cold"
      /\ UNCHANGED <<registryVars, sessionVars, park, rel, spawn>>
  BY DEF Cold
<1>2. op[c].ref = cur => ~SpawnsCur /\ attached[cur] = NoSession
  BY <1>1 DEF RInv, BareAll, Bare, ForCur, Builds, Building, SpawnsCur
<1>3. \A d \in Callers : d # c /\ op[d].pc = "reject" => op'[d] = op[d]
  <2>1. CASE op' = Settled(c, "idle", NoSession)
    BY <2>1, SettledMoves
  <2>2. CASE op' = [op EXCEPT ![c].pc = "open", ![c].cold = TRUE, ![c].rooted = Rooted]
    BY <2>2 DEF TInv, CallsOK
  <2> QED BY <2>1, <2>2 DEF Cold
<1>4. adopted' = adopted \/ (adopted'.ref = op[c].ref /\ Lean(adopted'))
  BY DEF Cold, Lean
<1> QED BY <1>1, <1>2, <1>3, <1>4, CallHolds DEF OInv, Unowned

LEMMA ClaimHolds == ASSUME TInv, RInv, OInv, NEW c \in Callers, Claim(c) PROVE OInv'
<1>1. /\ op[c].pc = "open" /\ UNCHANGED <<registryVars, sessionVars, adopted>>
      /\ UNCHANGED <<park, rel, spawn>>
  BY DEF Claim
<1>2. \A d \in Callers : d # c => op'[d] = op[d]
  BY DEF Claim, TInv, CallsOK
<1> QED BY <1>1, <1>2, CallHolds DEF OInv, Unowned

LEMMA FailsHolds ==
    ASSUME TInv, RInv, OInv, NEW c \in Callers, ReviverFails(c) \/ Reject(c)
    PROVE  OInv'
  BY RevivalFailsHolds DEF ReviverFails, Reject

LEMMA AttachHolds == ASSUME TInv, RInv, OInv, NEW c \in Callers, Attach(c) PROVE OInv'
<1>1. PICK s \in Sessions : /\ session[s] = "unborn"
                            /\ session' = [session EXCEPT ![s] = "live"]
                            /\ attached' = [attached EXCEPT ![op[c].ref] = s]
                            /\ claim' = [claim EXCEPT ![s] = op[c].ref]
  BY DEF Attach, Unborn, AttachSession
<1>2. /\ op[c].ref = cur /\ cur \in Refs /\ op[c].pc = "construct" /\ ForCur(c)
      /\ Quiet /\ UNCHANGED <<cur, park, rel, executing, spawn>>
  BY DEF Attach, Attachable, ForCur, Builds, Building, RInv, Born
<1>3. attached[cur] = NoSession /\ park.ref # cur /\ ~SpawnsCur
  BY <1>2 DEF RInv, BareAll, Bare, SpawnsCur
<1>4. \A d \in Callers : ~(op[d].pc = "reject" /\ op[d].ref = cur)
  BY <1>2 DEF RInv, Alone, Builds, Building
<1>5. adopted'.ref = adopted.ref /\ Lean(adopted')
  BY DEF Attach, OnRunning, TInv, MapsOK, Adoption, Lean, OInv, Unowned
<1>6. \A r \in Refs : status[r] # "none" => status'[r] # "none"
  BY <1>2 DEF Attach, SetStatus, TInv, RegistryTypeOK
<1> QED BY <1>1, <1>2, <1>3, <1>4, <1>5, <1>6, AttachedHolds

LEMMA AttachRefusedHolds ==
    ASSUME TInv, RInv, OInv, NEW c \in Callers, AttachRefused(c)
    PROVE  OInv'
<1>1. PICK s \in Sessions : /\ session[s] = "unborn"
                            /\ session' = [session EXCEPT ![s] = "disposing"]
                            /\ op' = [op EXCEPT ![c].pc = "reject", ![c].ses = s]
  BY DEF AttachRefused, Unborn
<1>2. op[c].pc = "construct" /\ UNCHANGED <<registryVars, claim, executing>>
      /\ UNCHANGED <<adopted, park, rel, spawn>>
  BY DEF AttachRefused
<1>3. \A d \in Callers : d # c => op'[d] = op[d]
  BY <1>1, CallMoves
<1>4. CalmSessions
  BY <1>1, <1>2 DEF CalmSessions, TInv, SessionsOK
<1>5. CalmAdoption /\ CalmGuards /\ \A k \in Releases : CalmRelease(k)
  BY <1>2, <1>3 DEF CalmAdoption, CalmGuards, CalmRelease, OInv, Unowned
<1> QED BY <1>2, <1>4, <1>5, CalmKeeps DEF Calm, registryVars

LEMMA InitFailsHolds == ASSUME TInv, RInv, OInv, NEW c \in Callers, InitFails(c) PROVE OInv'
<1> DEFINE r == op[c].ref
           s == op[c].ses
<1>1. CASE RevivalFails(c) /\ UNCHANGED <<status, attached, runGen, session>>
  BY <1>1, RevivalFailsHolds DEF InitFails, registryVars, sessionVars
<1>2. CASE /\ Dispose(s) /\ op' = [op EXCEPT ![c].pc = "reject"]
           /\ UNCHANGED <<adopted, revival>>
           /\ IF cur = r /\ attached[r] = s
              THEN /\ DetachSession(r)
                   /\ IF Settable(r) THEN SetStatus(r, "parked")
                                     ELSE UNCHANGED <<status, runGen>>
              ELSE UNCHANGED <<status, attached, runGen>>
  <2>1. /\ op'[c].pc = "reject" /\ op'[c].ref = r /\ op'[c].ses = s
        /\ \A d \in Callers : d # c => op'[d] = op[d]
    BY <1>2, CallMoves
  <2>2. Builds(c) /\ op[c].pc = "init" /\ r \in Refs /\ s \in Sessions /\ s # executing
    BY DEF InitFails, Builds, Building, RInv, Born, Own
  <2>3. UNCHANGED <<cur, claim, executing, adopted, park, rel, spawn>>
    BY <1>2 DEF InitFails
  <2>4. \A q \in Refs : status[q] # "none" => status'[q] # "none"
    BY <1>2 DEF SetStatus, TInv, RegistryTypeOK
  <2>5. CASE cur = r /\ attached[r] = s
    <3>1. attached' = [attached EXCEPT ![cur] = NoSession]
      BY <1>2, <2>5 DEF DetachSession
    <3>2. PICK t \in Sessions : t = s
      BY <2>2
    <3>3. Guarded(t)'
      BY <2>1, <2>3, <2>5, <3>2 DEF Guarded
    <3>4. attached[cur] = t /\ Dispose(t) /\ executing # t /\ cur \in Refs /\ park'.ref = park.ref
      BY <1>2, <2>2, <2>3, <2>5, <3>2
    <3> HIDE DEF s
    <3> QED BY <2>3, <2>4, <3>1, <3>3, <3>4, DetachedHolds
  <2>6. CASE ~(cur = r /\ attached[r] = s)
    <3>1. UNCHANGED <<cur, attached>> /\ UNCHANGED status
      BY <1>2, <2>3, <2>6
    <3>2. CalmSessions
      BY <1>2, <2>3 DEF CalmSessions, Dispose, TInv, SessionsOK
    <3>3. CalmAdoption /\ CalmGuards /\ \A k \in Releases : CalmRelease(k)
      BY <2>1, <2>2, <2>3 DEF CalmAdoption, CalmGuards, CalmRelease, OInv, Unowned
    <3> QED BY <2>4, <3>1, <3>2, <3>3, CalmKeeps DEF Calm
  <2> QED BY <2>5, <2>6
<1> QED BY <1>1, <1>2 DEF InitFails

LEMMA ReviveHolds ==
    ASSUME TInv, RInv, OInv, NEW c \in Callers, NEW s \in Sessions, Revive(c, s), Quiet,
           \/ op[c].pc = "init" /\ s = op[c].ses
           \/ op[c].pc = "open" /\ session[s] = "unborn",
           UNCHANGED <<cur, claim, executing, park, rel, spawn>>
    PROVE  OInv'
<1> DEFINE r == op[c].ref
<1>1. Builds(c) /\ r \in Refs /\ NoRef \notin Refs
  BY Nothings DEF Builds, Building, RInv, Born
<1>2. CASE /\ Claimable(r) \/ Adoptable(r, s)
           /\ AttachSession(r, s) /\ SetStatus(r, "idle")
           /\ adopted' = OnIdle(r, adopted)
           /\ op' = Settled(c, "got", s)
           /\ session' = [session EXCEPT ![s] = IF @ = "unborn" THEN "live" ELSE @]
  <2>1. cur = r /\ ForCur(c) /\ Bare(c)
    BY <1>1, <1>2 DEF Claimable, Adoptable, ForCur, RInv, BareAll
  <2>2. adopted'.ref = adopted.ref /\ Lean(adopted')
    BY <1>2 DEF OnIdle, TInv, MapsOK, Adoption, Lean, OInv, Unowned
  <2>3. \A q \in Refs : status[q] # "none" => status'[q] # "none"
    BY <1>2 DEF SetStatus, TInv, RegistryTypeOK
  <2>4. CASE op[c].pc = "init" /\ s = op[c].ses
    <3>1. attached[cur] = s /\ session[s] # "unborn"
      BY <2>1, <2>4 DEF Bare, RInv, Own
    <3>2. UNCHANGED <<attached, session>>
      BY <1>2, <2>1, <3>1 DEF AttachSession, TInv, RegistryTypeOK, SessionsOK
    <3>3. CalmSessions
      BY <3>2 DEF CalmSessions
    <3>4. CalmAdoption /\ \A k \in Releases : CalmRelease(k)
      BY <2>2 DEF CalmAdoption, CalmRelease
    <3>5. CalmGuards
      <4>1. \A d \in Callers : op[d].pc = "reject" => op'[d] = op[d]
        BY <1>2, <2>4, SettledMoves
      <4> QED BY <4>1 DEF CalmGuards
    <3> QED BY <2>3, <3>2, <3>3, <3>4, <3>5, CalmKeeps DEF Calm
  <2>5. CASE op[c].pc = "open" /\ session[s] = "unborn"
    <3>1. attached[cur] = NoSession /\ park.ref # cur /\ ~SpawnsCur
      BY <2>1, <2>5 DEF Bare, SpawnsCur
    <3>2. \A d \in Callers : ~(op[d].pc = "reject" /\ op[d].ref = cur)
      BY <2>1, <2>5 DEF RInv, Alone, Builds, Building, ForCur
    <3>3. /\ session' = [session EXCEPT ![s] = "live"]
          /\ attached' = [attached EXCEPT ![cur] = s]
      BY <1>2, <2>1, <2>5 DEF AttachSession, TInv, SessionsOK
    <3> QED BY <1>1, <2>1, <2>2, <2>3, <2>5, <3>1, <3>2, <3>3, AttachedHolds
  <2> QED BY <2>4, <2>5
<1>3. CASE /\ session' = [session EXCEPT ![s] = IF @ = "disposed" THEN @ ELSE "disposing"]
           /\ op' = [op EXCEPT ![c].pc = "reject", ![c].ses = s]
           /\ UNCHANGED <<attached, status, runGen, adopted, revival>>
  <2>1. \A d \in Callers : d # c => op'[d] = op[d]
    BY <1>3, CallMoves
  <2>2. CalmSessions
    BY <1>3 DEF CalmSessions, TInv, SessionsOK
  <2>3. CalmAdoption /\ CalmGuards /\ \A k \in Releases : CalmRelease(k)
    BY <1>3, <2>1 DEF CalmAdoption, CalmGuards, CalmRelease, OInv, Unowned
  <2> QED BY <1>3, <2>2, <2>3, CalmKeeps DEF Calm
<1> QED BY <1>2, <1>3 DEF Revive

LEMMA ReviverReturnsHolds ==
    ASSUME TInv, RInv, OInv, NEW c \in Callers, ReviverReturns(c) \/ SimpleReviverReturns(c)
    PROVE  OInv'
<1>1. CASE ReviverReturns(c)
  <2>1. op[c].ses \in Sessions
    BY <1>1 DEF ReviverReturns, RInv, Own
  <2> QED BY <1>1, <2>1, ReviveHolds DEF ReviverReturns
<1>2. CASE SimpleReviverReturns(c)
  BY <1>2, ReviveHolds DEF SimpleReviverReturns, Unborn
<1> QED BY <1>1, <1>2

LEMMA CallersHold ==
    ASSUME TInv, RInv, OInv, NEW c \in Callers,
           EnsureLive(c) \/ CallerSteps(c) \/ CallerDone(c)
    PROVE  OInv'
  BY EnsureLiveHolds, KeptHolds, NeverReopens, ColdHolds, ClaimHolds, FailsHolds, AttachHolds,
     AttachRefusedHolds, InitFailsHolds, ReviverReturnsHolds DEF CallerSteps, ReviverSteps
LEMMA TurnsHold == ASSUME TInv, RInv, OInv, RunStarts \/ RunEnds PROVE OInv'
<1>1. /\ UNCHANGED <<cur, attached, sessionVars, park, op, rel, spawn>>
      /\ SetStatus(cur, "running") \/ SetStatus(cur, "idle")
      /\ adopted' \in {OnRunning(cur, adopted), OnIdle(cur, adopted)}
  BY DEF RunStarts, RunEnds
<1>2. \A r \in Refs : status[r] # "none" => status'[r] # "none"
  BY <1>1 DEF SetStatus, TInv, RegistryTypeOK
<1>3. adopted'.ref = adopted.ref /\ Lean(adopted')
  BY <1>1 DEF OnRunning, OnIdle, TInv, MapsOK, Adoption, Lean, OInv, Unowned
<1>4. CalmSessions /\ CalmAdoption
  BY <1>1, <1>3 DEF CalmSessions, CalmAdoption, sessionVars
<1>5. CalmGuards /\ \A k \in Releases : CalmRelease(k)
  BY <1>1 DEF CalmGuards, CalmRelease
<1> QED BY <1>1, <1>2, <1>4, <1>5, CalmKeeps DEF Calm

LEMMA AdoptHolds == ASSUME TInv, RInv, OInv, Adopt PROVE OInv'
<1>1. /\ UNCHANGED <<cur, attached, claim, park, op, rel, spawn>>
      /\ executing' = NoSession /\ executing \in Sessions
  BY DEF Adopt, TInv, SessionsOK
<1>2. \A r \in Refs : status[r] # "none" => status'[r] # "none"
  BY DEF Adopt, SetStatus, TInv, RegistryTypeOK
<1>3. CalmSessions
  BY <1>1 DEF Adopt, Dispose, CalmSessions, TInv, SessionsOK
<1>4. CalmAdoption
  <2>1. CASE UNCHANGED adopted
    BY <1>1, <2>1 DEF CalmAdoption, Lean, OInv, Unowned
  <2>2. CASE /\ cur # NoRef /\ attached[cur] = executing
             /\ adopted' = [ref |-> cur, revive |-> TRUE, cold |-> FALSE,
                            owned |-> Isolated, timer |-> TRUE,
                            rooted |-> owner \/ Rooted]
    <3>1. ~SpawnsCur
      BY <1>1, <2>2, Nothings DEF SpawnsCur, RInv, Spawning
    <3> QED BY <1>1, <2>2, <3>1 DEF CalmAdoption, Lean
  <2> QED BY <2>1, <2>2 DEF Adopt
<1>5. CalmGuards /\ \A k \in Releases : CalmRelease(k)
  BY <1>1 DEF CalmGuards, CalmRelease
<1> QED BY <1>1, <1>2, <1>3, <1>4, <1>5, CalmKeeps DEF Calm

LEMMA SessionDisposedHolds ==
    ASSUME TInv, RInv, OInv, NEW s \in Sessions, SessionDisposed(s)
    PROVE  OInv'
<1>1. /\ UNCHANGED <<status, attached, executing, park, op, rel, spawn>>
      /\ session[s] = "disposing"
      /\ session' = [session EXCEPT ![s] = "disposed"]
      /\ claim' = [claim EXCEPT ![s] = NoRef]
  BY DEF SessionDisposed
<1>2. CalmSessions
  BY <1>1 DEF CalmSessions, TInv, SessionsOK
<1>3. CASE UNCHANGED <<cur, adopted>>
  <2>1. CalmAdoption /\ CalmGuards /\ \A k \in Releases : CalmRelease(k)
    BY <1>1, <1>3 DEF CalmAdoption, CalmGuards, CalmRelease, OInv, Unowned
  <2> QED BY <1>1, <1>2, <1>3, <2>1, CalmKeeps DEF Calm
<1>4. CASE /\ claim[s] # NoRef /\ cur = claim[s] /\ cur' = NoRef
           /\ adopted' \in {adopted, NoAdoption}
  <2>1. attached[cur] = s \/ attached[cur] = NoSession
    BY <1>1, <1>4 DEF OInv, Dying, Ends
  <2>2. \A t \in Sessions : session[t] = "live" => attached[cur] # t
    BY <1>1, <2>1, Nothings
  <2> QED BY <1>1, <1>2, <1>4, <2>2, ForgottenHolds
<1> QED BY <1>3, <1>4 DEF SessionDisposed, OnRemoved

-----------------------------------------------------------------------------
(* Parks.                                                                   *)

LEMMA TimerFiresHolds == ASSUME TInv, RInv, OInv, TimerFires PROVE OInv'
<1>1. UNCHANGED <<cur, attached, status>> /\ UNCHANGED <<session, claim, executing>>
      /\ UNCHANGED <<op, rel, spawn>>
  BY DEF TimerFires, registryVars, sessionVars
<1>2. adopted'.ref = adopted.ref /\ Lean(adopted')
  BY DEF TimerFires, TInv, MapsOK, Adoption, Lean, OInv, Unowned
<1>3. park' = park \/ (park'.ref = cur /\ attached[cur] # NoSession)
  BY DEF TimerFires
<1>4. CalmSessions /\ CalmAdoption /\ CalmGuards /\ \A k \in Releases : CalmRelease(k)
  BY <1>1, <1>2, <1>3 DEF CalmSessions, CalmAdoption, CalmGuards, CalmRelease
<1> QED BY <1>1, <1>4, CalmKeeps DEF Calm

\* A park ends before it has detached the session, or when that is disposed.
LEMMA ParkEndsHolds ==
    ASSUME TInv, RInv, OInv, ParkEnds, park.detached => session[park.ses] = "disposed",
           UNCHANGED <<registryVars, sessionVars, adopted, spawn>>
    PROVE  OInv'
<1>1. UNCHANGED <<cur, attached, status>> /\ UNCHANGED <<session, claim, executing>>
      /\ park' = NoPark
  BY DEF ParkEnds, registryVars, sessionVars
<1>2. \A d \in Callers : op[d].pc = "reject" => op'[d] = op[d]
  BY DEF ParkEnds, ParkAwaited
<1>3. \A k \in Releases : CalmRelease(k)
  <2> SUFFICES ASSUME NEW k \in Releases, rel'[k] = [rel[k] EXCEPT !.pc = "go"]
               PROVE  CalmRelease(k)
    BY DEF ParkEnds, CalmRelease
  <2>1. rel'[k].pc = "go" /\ rel'[k].ref = rel[k].ref /\ rel'[k].owned = rel[k].owned
        /\ rel[k].ref \in Refs \cup {NoRef}
    BY DEF TInv, ReleasesOK, GoodRelease, ReleaseRecord
  <2> QED BY <2>1 DEF CalmRelease, OInv, Unowned, Lean, Named
<1>4. CalmSessions /\ CalmAdoption /\ CalmGuards
  BY <1>1, <1>2 DEF CalmSessions, CalmAdoption, CalmGuards, NoPark, OInv, Unowned
<1> QED BY <1>1, <1>3, <1>4, CalmKeeps DEF Calm

LEMMA ParkCommitsHolds == ASSUME TInv, RInv, OInv, ParkCommits PROVE OInv'
<1> DEFINE r == park.ref
           holds == ~park.cancelled /\ cur = r /\ attached[r] = park.ses /\ adopted.ref = r
<1>1. CASE ~holds
  BY <1>1, ParkEndsHolds DEF ParkCommits, registryVars, sessionVars
<1>2. CASE holds
  <2>1. PICK s \in Sessions : s = park.ses
    BY <1>2 DEF ParkCommits, RInv, Parking, TInv, MapsOK, Park
  <2>2. cur \in Refs /\ attached[cur] = s /\ adopted.ref = cur
    BY <1>2, <2>1 DEF ParkCommits, TInv, MapsOK, Park
  <2>3. /\ attached' = [attached EXCEPT ![cur] = NoSession] /\ Dispose(s)
        /\ UNCHANGED <<cur, claim, executing, adopted, rel, spawn>>
    BY <1>2, <2>1 DEF ParkCommits, DetachSession
  <2>4. park'.ref = park.ref /\ park'.ses = s /\ park'.detached
    BY <1>2, <2>1 DEF ParkCommits, TInv, MapsOK, Park
  <2>5. Guarded(s)'
    BY <1>2, <2>3, <2>4 DEF Guarded
  <2>6. \A q \in Refs : status[q] # "none" => status'[q] # "none"
    BY <1>2 DEF ParkCommits, SetStatus, TInv, RegistryTypeOK
  <2> QED BY <2>2, <2>3, <2>4, <2>5, <2>6, DetachedHolds
<1> QED BY <1>1, <1>2

LEMMA ParkFinishesHolds == ASSUME TInv, RInv, OInv, ParkFinishes PROVE OInv'
  BY ParkEndsHolds DEF ParkFinishes

-----------------------------------------------------------------------------
(* Releases, the disposal of the manager, spawns.                           *)

\* What a release does in one step leaves the registered ref its session.
LEMMA TakeDownHolds ==
    ASSUME TInv, RInv, OInv, NEW k \in Releases, k # "kill" \/ Spared', NEW r \in Refs,
           Known(r), NEW g, NEW a \in Adoption, a.ref = adopted.ref, Lean(a),
           TakeDown(k, r, g, a),
           UNCHANGED <<cur, status, claim, executing, park, op, spawn>>
    PROVE  OInv'
<1> DEFINE live == IF cur = r THEN attached[r] ELSE NoSession
<1>1. UNCHANGED attached /\ adopted' \in {a, NoAdoption} /\ ~(k = "kill" /\ cur = r)
  BY TakeDownMisses DEF TakeDown
<1>2. /\ live \in Sessions \cup {NoSession} /\ NoSession \notin Sessions
      /\ session' = IF live # NoSession /\ session[live] = "live"
                    THEN [session EXCEPT ![live] = "disposing"] ELSE session
  BY <1>1, Nothings DEF TakeDown, Dispose, TInv, RegistryTypeOK
<1>3. /\ k # "kill" => rel'[k].pc = "dispose" /\ Lean(rel'[k])
      /\ rel'[k].ref = r /\ rel'[k].ses = live /\ \A j \in Releases : j # k => rel'[j] = rel[j]
  BY DEF TakeDown, TInv, ReleasesOK, Lean
<1> HIDE DEF live
<1>4. CalmSessions /\ (live # NoSession => session'[live] # "live")
  BY <1>2 DEF CalmSessions, TInv, SessionsOK
<1>5. r = cur => live = attached[cur]
  BY DEF live
<1>6. \A j \in Releases : CalmRelease(j)
  BY <1>3, <1>4, <1>5 DEF CalmRelease
<1>7. CalmAdoption /\ CalmGuards
  BY <1>1 DEF CalmAdoption, CalmGuards, NoAdoption, Lean
<1> QED BY <1>1, <1>4, <1>6, <1>7, CalmKeeps DEF Calm

LEMMA StartReleaseHolds ==
    ASSUME TInv, RInv, OInv, NEW k \in Releases, k # "kill" \/ Spared', NEW r \in Refs,
           Known(r), StartRelease(k, r), UNCHANGED <<cur, claim, executing, op, spawn>>
    PROVE  OInv'
<1> DEFINE a == IF adopted.ref = r THEN [adopted EXCEPT !.timer = FALSE] ELSE adopted
<1>1. a \in Adoption /\ a.ref = adopted.ref /\ Lean(a)
  BY DEF TInv, MapsOK, Adoption, Lean, OInv, Unowned
<1> HIDE DEF a
<1>2. CASE /\ park' = [park EXCEPT !.cancelled = @ \/ ~park.detached]
           /\ adopted' = a
           /\ rel' = [rel EXCEPT ![k] = [NoRelease EXCEPT !.pc = "awaitPark", !.ref = r,
                                                          !.gen = runGen[r]]]
           /\ UNCHANGED <<attached, status, runGen, session>>
  <2>1. park'.ref = park.ref /\ park'.ses = park.ses /\ park'.detached = park.detached
    BY <1>2 DEF TInv, MapsOK, Park
  <2>2. /\ rel'[k].pc = "awaitPark" /\ rel'[k].ref = r /\ Lean(rel'[k])
        /\ \A j \in Releases : j # k => rel'[j] = rel[j]
    BY <1>2 DEF TInv, ReleasesOK, NoRelease, Lean
  <2>3. \A j \in Releases : CalmRelease(j)
    BY <2>2 DEF CalmRelease
  <2>4. CalmSessions /\ CalmAdoption /\ CalmGuards
    BY <1>1, <1>2, <2>1 DEF CalmSessions, CalmAdoption, CalmGuards
  <2> QED BY <1>2, <2>3, <2>4, CalmKeeps DEF Calm
<1>3. CASE TakeDown(k, r, runGen[r], a) /\ UNCHANGED park
  <2>1. UNCHANGED status
    BY <1>3, TakeDownMisses DEF TakeDown
  <2> QED BY <1>1, <1>3, <2>1, TakeDownHolds
<1> QED BY <1>2, <1>3 DEF StartRelease, a

LEMMA KillHolds == ASSUME TInv, RInv, OInv, Kill, Spared' PROVE OInv'
<1>1. cur \in Refs /\ "kill" \in Releases /\ Known(cur)
  BY DEF Kill, TInv, RegistryTypeOK, RInv, Born
<1>2. StartRelease("kill", cur) /\ UNCHANGED <<cur, claim, executing, op, spawn>>
  BY DEF Kill
<1> QED BY <1>1, <1>2, StartReleaseHolds

LEMMA CancelHolds ==
    ASSUME TInv, RInv, OInv, Cancel
    PROVE  OInv'
<1>1. adopted.ref \in Refs /\ "cancel" \in Releases /\ Known(adopted.ref)
  BY DEF Cancel, TInv, MapsOK, Adoption, RInv, Born
<1>2. StartRelease("cancel", adopted.ref) /\ UNCHANGED <<cur, claim, executing, op, spawn>>
  BY DEF Cancel
<1> QED BY <1>1, <1>2, StartReleaseHolds

\* A release is over.
LEMMA DoneHolds ==
    ASSUME TInv, RInv, OInv, NEW k \in Releases, rel' = [rel EXCEPT ![k] = ReleaseDone],
           UNCHANGED <<cur, attached, status, session, claim, executing>>,
           UNCHANGED <<adopted, park, op, spawn>>
    PROVE  OInv'
<1>1. rel'[k] = ReleaseDone /\ \A j \in Releases : j # k => rel'[j] = rel[j]
  BY DEF TInv, ReleasesOK
<1>2. ReleaseDone.pc = "done" /\ ReleaseDone.ref = NoRef /\ Lean(ReleaseDone)
  BY DEF ReleaseDone, NoRelease, Lean
<1>3. \A j \in Releases : CalmRelease(j)
  BY <1>1, <1>2 DEF CalmRelease, Known
<1>4. CalmSessions /\ CalmAdoption /\ CalmGuards
  BY DEF CalmSessions, CalmAdoption, CalmGuards, OInv, Unowned
<1> QED BY <1>3, <1>4, CalmKeeps DEF Calm

LEMMA ReleaseGoesHolds ==
    ASSUME TInv, RInv, OInv, Spared', NEW k \in Releases, ReleaseGoes(k)
    PROVE  OInv'
<1>1. /\ rel[k].ref \in Refs /\ Known(rel[k].ref)
      /\ adopted \in Adoption /\ Lean(adopted)
  BY DEF ReleaseGoes, TInv, ReleasesOK, GoodRelease, MapsOK, OInv, Named, Unowned
<1>2. UNCHANGED <<cur, claim, executing, park, op, spawn>>
  BY DEF ReleaseGoes
<1>3. CASE TakeDown(k, rel[k].ref, rel[k].gen, adopted)
  <2>1. UNCHANGED status
    BY <1>1, <1>3, TakeDownMisses DEF TakeDown
  <2> QED BY <1>1, <1>2, <1>3, <2>1, TakeDownHolds
<1>4. CASE /\ rel' = [rel EXCEPT ![k] = ReleaseDone]
           /\ UNCHANGED <<attached, status, runGen, session, adopted>>
  BY <1>2, <1>4, DoneHolds
<1> QED BY <1>3, <1>4 DEF ReleaseGoes

\* The marker of a kill that found nobody is written, or was not.
LEMMA PersistedHolds ==
    ASSUME TInv, RInv, OInv, NEW k \in Releases, Persisted(k)
    PROVE  OInv'
<1>1. /\ UNCHANGED <<cur, attached, status, claim, executing, adopted, park, op, spawn>>
      /\ Dispose(rel[k].ses) /\ rel[k].pc = "persist"
      /\ rel' = [rel EXCEPT ![k].pc = "dispose"]
  BY DEF Persisted, registryVars
<1>2. k = "kill"
  BY <1>1 DEF OInv, Unowned
<1>3. CalmSessions
  BY <1>1 DEF Dispose, CalmSessions, TInv, SessionsOK
<1>4. \A j \in Releases : CalmRelease(j)
  <2>1. \A j \in Releases : j # k => rel'[j] = rel[j]
    BY <1>1 DEF TInv, ReleasesOK
  <2>2. rel'[k].ref = rel[k].ref
    BY <1>1 DEF TInv, ReleasesOK, GoodRelease, ReleaseRecord
  <2>3. rel[k].ref \in Refs \cup {NoRef} /\ Known(rel[k].ref)
    BY DEF TInv, ReleasesOK, GoodRelease, ReleaseRecord, OInv, Named
  <2> QED BY <1>2, <2>1, <2>2, <2>3 DEF CalmRelease
<1>5. CalmAdoption /\ CalmGuards
  BY <1>1 DEF CalmAdoption, CalmGuards, OInv, Unowned
<1> QED BY <1>1, <1>3, <1>4, <1>5, CalmKeeps DEF Calm

LEMMA ReleasedHolds ==
    ASSUME TInv, RInv, OInv, NEW k \in Releases, Released(k)
    PROVE  OInv'
<1>1. /\ UNCHANGED <<status, attached, session, claim, executing>>
      /\ UNCHANGED <<park, op, spawn>>
      /\ rel' = [rel EXCEPT ![k] = ReleaseDone] /\ rel[k].pc = "dispose"
      /\ rel[k].ses # NoSession => session[rel[k].ses] = "disposed"
  BY DEF Released, sessionVars
<1>2. CASE UNCHANGED <<cur, adopted>>
  BY <1>1, <1>2, DoneHolds
<1>3. CASE /\ k # "kill" /\ cur = rel[k].ref /\ cur # NoRef /\ cur' = NoRef
           /\ adopted' \in {adopted, NoAdoption}
  <2>1. attached[cur] \in {rel[k].ses, NoSession}
    BY <1>1, <1>3 DEF OInv, Taken, Waits
  <2>2. \A s \in Sessions : session[s] = "live" => attached[cur] # s
    BY <1>1, <2>1, Nothings
  <2>3. CalmSessions /\ \A j \in Releases : rel'[j] \in {rel[j], ReleaseDone}
    BY <1>1 DEF CalmSessions, TInv, ReleasesOK
  <2> QED BY <1>1, <1>3, <2>2, <2>3, ForgottenHolds
<1>4. CASE cur = NoRef /\ cur' = NoRef /\ adopted' = NoAdoption
  <2>1. \A s \in Sessions : session[s] = "live" => attached[cur] # s
    BY <1>4 DEF OInv, OneLive
  <2>2. CalmSessions /\ \A j \in Releases : rel'[j] \in {rel[j], ReleaseDone}
    BY <1>1 DEF CalmSessions, TInv, ReleasesOK
  <2> QED BY <1>1, <1>4, <2>1, <2>2, ForgottenHolds
<1> QED BY <1>2, <1>3, <1>4 DEF Released, OnRemoved

LEMMA DisposeRootHolds ==
    ASSUME TInv, RInv, OInv, NEW other \in BOOLEAN, DisposeRoot(other)
    PROVE  OInv'
<1> DEFINE byId == IF cur # NoRef THEN cur ELSE adopted.ref
           target == IF other THEN IF adopted.rooted \/ Rooted THEN adopted.ref ELSE NoRef
                     ELSE IF adopted.ref # NoRef \/ ParkListed THEN byId ELSE NoRef
<1>1. UNCHANGED <<cur, claim, executing, op, spawn>> /\ "teardown" \in Releases
  BY DEF DisposeRoot
<1>2. CASE /\ rel' = [rel EXCEPT !["teardown"] = ReleaseDone]
           /\ UNCHANGED <<attached, status, runGen, session, adopted, park>>
  BY <1>1, <1>2, DoneHolds
<1>3. CASE target # NoRef /\ StartRelease("teardown", target)
  <2>1. target \in Refs /\ Known(target)
    BY <1>3 DEF TInv, RegistryTypeOK, MapsOK, Adoption, RInv, Born
  <2> HIDE DEF target
  <2> QED BY <1>1, <1>3, <2>1, StartReleaseHolds
<1> QED BY <1>2, <1>3 DEF DisposeRoot

LEMMA DisposeEndsHolds == ASSUME TInv, RInv, OInv, DisposeEnds PROVE OInv'
<1>1. /\ UNCHANGED <<registryVars, sessionVars, rel, spawn, adopted, op>>
      /\ park' = [park EXCEPT !.listed = FALSE]
  BY DEF DisposeEnds
<1>2. park'.ref = park.ref /\ park'.ses = park.ses /\ park'.detached = park.detached
  BY <1>1 DEF TInv, MapsOK, Park
<1> QED BY <1>1, <1>2, CallHolds DEF OInv, Unowned

\* A ref that takes the id has no session, and nothing that is under way names it.
LEMMA RegistersHolds ==
    ASSUME TInv, RInv, OInv, NEW r \in Refs, status[r] = "none", cur' = r,
           status' = [status EXCEPT ![r] = "running"],
           spawn' = [pc |-> "construct", ref |-> r],
           cur # NoRef => attached[cur] = NoSession,
           UNCHANGED <<attached, session, claim, executing, adopted, park, op, rel>>
    PROVE  OInv'
<1>1. /\ NoRef \notin Refs /\ NoSession \notin Sessions
      /\ status'[r] = "running" /\ \A q \in Refs : q # r => status'[q] = status[q]
  BY Nothings DEF TInv, RegistryTypeOK
<1>2. \A s \in Sessions : session[s] # "live"
  BY <1>1 DEF OInv, OneLive
<1>3. /\ \A s \in Sessions : claim[s] # r
      /\ \A k \in Releases : rel[k].ref # r
      /\ park.ref # r /\ adopted.ref # r
  BY <1>1 DEF OInv, Named, RInv, Born, Known
<1>4. OneLive'
  BY <1>2 DEF OneLive
<1>5. \A q \in Refs : status[q] # "none" => status'[q] # "none"
  BY <1>1
<1>6. Named'
  <2>1. \A q \in Refs \cup {NoRef} : Known(q) => Known(q)'
    BY <1>1, <1>5 DEF Known
  <2>2. /\ \A s \in Sessions : claim[s] \in Refs \cup {NoRef}
        /\ \A k \in Releases : rel[k].ref \in Refs \cup {NoRef}
        /\ park.ref \in Refs \cup {NoRef}
    BY DEF TInv, SessionsOK, ReleasesOK, GoodRelease, ReleaseRecord, MapsOK, Park
  <2>3. /\ \A s \in Sessions : Known(claim[s])'
        /\ \A k \in Releases : Known(rel[k].ref)'
        /\ Known(park.ref)'
    BY <2>1, <2>2 DEF OInv, Named, Known
  <2> QED BY <2>3 DEF OInv, Named
<1>7. Dying' /\ Taken' /\ Executed'
  <2>1. /\ \A s \in Sessions : ~Ends(s)'
        /\ \A k \in Releases : ~Waits(k)'
    BY <1>3 DEF Ends, Waits
  <2>2. Executed'
    BY <1>3 DEF Executed, TInv, SessionsOK
  <2> QED BY <2>1, <2>2 DEF Dying, Taken
<1>8. Unowned' /\ SpawnsAlone'
  BY <1>3 DEF OInv, Unowned, SpawnsAlone
<1> QED BY <1>4, <1>6, <1>7, <1>8 DEF OInv

LEMMA SpawnsHold == ASSUME TInv, RInv, OInv, Spawn \/ SpawnProbed PROVE OInv'
<1>1. UNCHANGED <<sessionVars, adopted, park, op, rel>>
  BY DEF Spawn, SpawnProbed
<1>2. CASE SpawnRegisters /\ (cur # NoRef => attached[cur] = NoSession)
  <2>1. PICK r \in Refs : /\ cur' = r /\ status[r] = "none"
                          /\ status' = [status EXCEPT ![r] = "running"]
                          /\ spawn' = [pc |-> "construct", ref |-> r]
    BY <1>2 DEF SpawnRegisters, Register, Fresh
  <2> QED BY <1>1, <1>2, <2>1, RegistersHolds DEF SpawnRegisters, sessionVars
<1>3. CASE spawn'.pc # "construct" /\ UNCHANGED registryVars
  <2>1. UNCHANGED <<cur, attached, status>> /\ UNCHANGED <<session, claim, executing>>
    BY <1>1, <1>3 DEF registryVars, sessionVars
  <2>2. CalmSessions /\ CalmAdoption /\ CalmGuards /\ \A k \in Releases : CalmRelease(k)
    BY <1>1, <1>3, <2>1
       DEF CalmSessions, CalmAdoption, CalmGuards, CalmRelease, OInv, Unowned
  <2> QED BY <2>1, <2>2, CalmKeeps DEF Calm
<1> QED BY <1>2, <1>3 DEF Spawn, SpawnProbed, DeadCorpse, NoSpawn

LEMMA SpawnAttachesHolds == ASSUME TInv, RInv, OInv, SpawnAttaches PROVE OInv'
<1>1. PICK s \in Sessions : /\ session[s] = "unborn"
                            /\ session' = [session EXCEPT ![s] = "live"]
                            /\ claim' = [claim EXCEPT ![s] = cur] /\ executing' = s
                            /\ attached' = [attached EXCEPT ![cur] = s]
  BY DEF SpawnAttaches, Unborn, AttachSession, Attachable
<1>2. /\ UNCHANGED <<cur, adopted, park, rel>> /\ spawn' = NoSpawn
      /\ SetStatus(cur, "running") /\ Quiet
  BY DEF SpawnAttaches, Attachable
<1>3. SpawnsCur /\ cur \in Refs /\ attached[cur] = NoSession
  BY DEF SpawnAttaches, Attachable, SpawnsCur, RInv, Spawning, TInv, RegistryTypeOK
<1>4. park.ref # cur /\ adopted.ref # cur /\ Lean(adopted')
  BY <1>2, <1>3 DEF OInv, SpawnsAlone, Unowned
<1>5. \A c \in Callers : ~(op[c].pc = "reject" /\ op[c].ref = cur)
  BY <1>3 DEF RInv, BareAll, Bare, ForCur, Builds, Building, SpawnsCur
<1>6. \A r \in Refs : status[r] # "none" => status'[r] # "none"
  BY <1>2 DEF SetStatus, TInv, RegistryTypeOK
<1> QED BY <1>1, <1>2, <1>3, <1>4, <1>5, <1>6, AttachedHolds

LEMMA SpawnFailsHolds == ASSUME TInv, RInv, OInv, SpawnFails PROVE OInv'
<1>1. /\ UNCHANGED <<status, attached, sessionVars, park, op, rel>>
      /\ spawn' = NoSpawn /\ spawn.pc = "construct"
  BY DEF SpawnFails
<1>2. CalmSessions /\ \A k \in Releases : rel'[k] \in {rel[k], ReleaseDone}
  BY <1>1 DEF CalmSessions, sessionVars
<1>3. CASE UNCHANGED <<cur, adopted>>
  <2>1. CalmAdoption /\ CalmGuards /\ \A k \in Releases : CalmRelease(k)
    BY <1>1, <1>3 DEF CalmAdoption, CalmGuards, CalmRelease, NoSpawn, sessionVars, OInv, Unowned
  <2> QED BY <1>1, <1>2, <1>3, <2>1, CalmKeeps DEF Calm
<1>4. CASE spawn.ref = cur /\ cur' = NoRef /\ adopted' \in {adopted, NoAdoption}
  <2>1. \A s \in Sessions : session[s] = "live" => attached[cur] # s
    BY <1>1, <1>4, Nothings DEF RInv, Spawning
  <2> QED BY <1>1, <1>2, <1>4, <2>1, ForgottenHolds
<1> QED BY <1>3, <1>4 DEF SpawnFails, OnRemoved

LEMMA LinksHold == ASSUME TInv, RInv, OInv, LinksMove PROVE OInv'
<1>1. UNCHANGED <<registryVars, sessionVars, adopted, park, op, rel, spawn>>
  BY OnlyLinksMove
<1> QED BY <1>1, CallHolds DEF OInv, Unowned

LEMMA StepOInv ==
    ASSUME Spared', TInv, RInv, OInv, [Next]_vars
    PROVE  OInv'
<1>1. CASE UNCHANGED vars
  <2>1. UNCHANGED <<registryVars, sessionVars, adopted, park, op, rel, spawn>>
    BY <1>1 DEF vars
  <2> QED BY <2>1, CallHolds DEF OInv, Unowned
<1>2. CASE Next
  BY <1>2, CallersHold, TurnsHold, AdoptHolds, SessionDisposedHolds, TimerFiresHolds,
     ParkCommitsHolds, ParkFinishesHolds, KillHolds, CancelHolds, ReleaseGoesHolds,
     PersistedHolds, ReleasedHolds, DisposeRootHolds, DisposeEndsHolds, SpawnsHold,
     SpawnAttachesHolds, SpawnFailsHolds, LinksHold DEF Next, LinksMove
<1> QED BY <1>1, <1>2

-----------------------------------------------------------------------------
(* A kill.  Until it strikes, RInv and OInv hold; from then on the id stays  *)
(* with the killed ref, or with nobody, until a fresh ref takes it.          *)

\* A ref that was killed has a successor: the id was reopened, or spawned again.
Succeeded == \E r, q \in Refs : r < q /\ status[r] = "aborted" /\ status[q] # "none"

\* Refs are numbered in the order in which they take the id.
Ranked == /\ Known(cur) /\ (cur # NoRef => \A q \in Refs : cur < q => status[q] = "none")
          /\ \A q, r \in Refs : q < r /\ status[r] # "none" => status[q] # "none"

\* A fresh ref takes the id.
Succeeds == \E r \in Refs, st \in Statuses \ {"aborted"} :
                Fresh(r) /\ cur' = r /\ status' = [status EXCEPT ![r] = st]
\* The registered ref is killed.
Strikes == /\ "kill" \in Releases /\ rel["kill"].pc \in {"idle", "go"}
           /\ cur \in Refs /\ UNCHANGED <<cur, op, spawn>>
           /\ \E g, a : TakeDown("kill", cur, g, a)
\* The registered ref stays, is forgotten, or changes its status.
Stays == /\ cur' \in {cur, NoRef}
         /\ \/ UNCHANGED status
            \/ /\ cur \in Refs
               /\ \E st \in Statuses : /\ status' = [status EXCEPT ![cur] = st]
                                       /\ st = "aborted" => Strikes

LEMMA StatusOnCur ==
    ASSUME cur' \in {cur, NoRef}, cur \in Refs, NEW st \in Statuses \ {"aborted"},
           SetStatus(cur, st)
    PROVE  Stays
  BY DEF SetStatus, Stays

LEMMA CallerRegistry ==
    ASSUME TInv, NEW c \in Callers, EnsureLive(c) \/ CallerSteps(c) \/ CallerDone(c)
    PROVE  Succeeds \/ Stays
<1>1. CASE UNCHANGED <<cur, status>>
  BY <1>1 DEF Stays
<1>2. CASE ProbeSucceeds(c)
  BY <1>2 DEF ProbeSucceeds, Register, Succeeds, Statuses
<1>3. NoRef \notin Refs /\ {"running", "idle", "parked"} \subseteq Statuses \ {"aborted"}
  BY Nothings DEF Statuses
<1>4. CASE Attach(c)
  <2>1. cur' = cur /\ op[c].ref = cur /\ op[c].ref \in Refs
    BY <1>4 DEF Attach, Attachable, TInv, CallsOK, GoodCall
  <2> QED BY <1>3, <1>4, <2>1, StatusOnCur DEF Attach
<1>5. CASE InitFails(c)
  <2>1. cur' = cur /\ op[c].ref \in Refs
    BY <1>5 DEF InitFails, TInv, CallsOK, GoodCall
  <2>2. UNCHANGED status \/ (cur = op[c].ref /\ SetStatus(cur, "parked"))
    BY <1>5 DEF InitFails
  <2> QED BY <1>3, <2>1, <2>2, StatusOnCur DEF Stays
<1>6. ASSUME NEW s, Revive(c, s), cur' = cur, op[c].ref \in Refs PROVE Stays
  <2>1. UNCHANGED status \/ (cur = op[c].ref /\ SetStatus(cur, "idle"))
    BY <1>6 DEF Revive, Claimable, Adoptable
  <2> QED BY <1>3, <1>6, <2>1, StatusOnCur DEF Stays
<1>7. CASE ReviverReturns(c) \/ SimpleReviverReturns(c)
  <2>1. cur' = cur /\ op[c].ref \in Refs /\ \E s : Revive(c, s)
    BY <1>7 DEF ReviverReturns, SimpleReviverReturns, TInv, CallsOK, GoodCall
  <2> QED BY <1>6, <2>1
<1>8. CASE EnsureLive(c) \/ CallerDone(c) \/ Kept(c) \/ Unparked(c) \/ ProbeFails(c)
           \/ Unmark(c) \/ Reopened(c) \/ Cold(c) \/ Reject(c) \/ Claim(c)
           \/ ReviverFails(c) \/ AttachRefused(c)
  <2>1. UNCHANGED <<cur, status>>
    BY <1>8 DEF EnsureLive, CallerDone, Kept, Unparked, ProbeFails, Unmark, Reopened,
                Cold, Reject, Claim, ReviverFails, AttachRefused, registryVars
  <2> QED BY <1>1, <2>1
<1> QED BY <1>2, <1>4, <1>5, <1>7, <1>8 DEF CallerSteps, ReviverSteps

LEMMA TakeDownRegistry ==
    ASSUME TInv, NEW k \in Releases, NEW r \in Refs, NEW g, NEW a, TakeDown(k, r, g, a),
           k = "kill" => rel[k].pc \in {"idle", "go"}, UNCHANGED <<cur, op, spawn>>
    PROVE  Stays
<1>1. CASE k = "kill" /\ cur = r
  <2>1. Strikes
    BY <1>1 DEF Strikes
  <2>2. status' = [status EXCEPT ![cur] = "aborted"] /\ "aborted" \in Statuses
    BY <1>1 DEF TakeDown, SetStatus, Statuses
  <2> QED BY <1>1, <2>1, <2>2 DEF Stays
<1>2. CASE ~(k = "kill" /\ cur = r)
  <2>1. UNCHANGED status
    BY <1>2 DEF TakeDown
  <2> QED BY <2>1 DEF Stays
<1> QED BY <1>1, <1>2

LEMMA StartRegistry ==
    ASSUME TInv, NEW k \in Releases, NEW r \in Refs, StartRelease(k, r),
           k = "kill" => rel[k].pc = "idle", UNCHANGED <<cur, op, spawn>>
    PROVE  Stays
<1>1. CASE UNCHANGED status
  BY <1>1 DEF Stays
<1>2. CASE \E a : TakeDown(k, r, runGen[r], a)
  BY <1>2, TakeDownRegistry
<1> QED BY <1>1, <1>2 DEF StartRelease

LEMMA ReleaseRegistry ==
    ASSUME TInv, \/ Kill \/ Cancel \/ \E other \in BOOLEAN : DisposeRoot(other)
                 \/ \E k \in Releases : ReleaseGoes(k)
    PROVE  Stays
<1>1. /\ cur # NoRef => cur \in Refs
      /\ adopted.ref # NoRef => adopted.ref \in Refs
  BY DEF TInv, RegistryTypeOK, MapsOK, Adoption
<1>2. CASE Kill
  BY <1>1, <1>2, StartRegistry DEF Kill
<1>3. CASE Cancel
  BY <1>1, <1>3, StartRegistry DEF Cancel
<1>4. ASSUME NEW other \in BOOLEAN, DisposeRoot(other) PROVE Stays
  <2>1. CASE UNCHANGED <<cur, status>>
    BY <2>1 DEF Stays
  <2>2. CASE /\ "teardown" \in Releases /\ UNCHANGED <<cur, op, spawn>>
             /\ \E r \in Refs : StartRelease("teardown", r)
    BY <2>2, StartRegistry
  <2> QED BY <1>1, <1>4, <2>1, <2>2 DEF DisposeRoot
<1>5. ASSUME NEW k \in Releases, ReleaseGoes(k) PROVE Stays
  <2>1. /\ UNCHANGED <<cur, op, spawn>> /\ rel[k].pc = "go" /\ rel[k].ref \in Refs
    BY <1>5 DEF ReleaseGoes, TInv, ReleasesOK, GoodRelease
  <2>2. CASE UNCHANGED status
    BY <2>1, <2>2 DEF Stays
  <2>3. CASE TakeDown(k, rel[k].ref, rel[k].gen, adopted)
    BY <2>1, <2>3, TakeDownRegistry
  <2> QED BY <1>5, <2>2, <2>3 DEF ReleaseGoes
<1> QED BY <1>2, <1>3, <1>4, <1>5

LEMMA OtherRegistry ==
    ASSUME TInv, \/ RunStarts \/ RunEnds \/ Adopt \/ \E s \in Sessions : SessionDisposed(s)
                 \/ TimerFires \/ ParkCommits \/ ParkFinishes \/ DisposeEnds
                 \/ \E k \in Releases : Persisted(k) \/ Released(k)
                 \/ Spawn \/ SpawnProbed \/ SpawnAttaches \/ SpawnFails \/ LinksMove
    PROVE  Succeeds \/ Stays
<1>1. /\ NoRef \notin Refs /\ NoSession \notin Sessions /\ cur \in Refs \cup {NoRef}
      /\ {"running", "idle", "parked"} \subseteq Statuses \ {"aborted"}
  BY Nothings DEF TInv, RegistryTypeOK, Statuses
<1>2. CASE RunStarts \/ RunEnds
  <2>1. cur \in Refs /\ cur' = cur
    BY <1>1, <1>2 DEF RunStarts, RunEnds, LiveSession, TInv, SessionsOK
  <2> QED BY <1>1, <1>2, <2>1, StatusOnCur DEF RunStarts, RunEnds
<1>3. CASE Adopt
  <2>1. cur' = cur /\ (UNCHANGED status \/ (cur # NoRef /\ SetStatus(cur, "idle")))
    BY <1>3 DEF Adopt
  <2> QED BY <1>1, <2>1, StatusOnCur DEF Stays
<1>4. CASE ParkCommits
  <2>1. cur' = cur /\ park.ref \in Refs
    BY <1>4 DEF ParkCommits, TInv, MapsOK, Park
  <2>2. UNCHANGED status \/ (cur = park.ref /\ SetStatus(cur, "parked"))
    BY <1>4 DEF ParkCommits
  <2> QED BY <1>1, <2>1, <2>2, StatusOnCur DEF Stays
<1>5. CASE \/ \E s \in Sessions : SessionDisposed(s)
           \/ TimerFires \/ ParkFinishes \/ DisposeEnds \/ SpawnFails
           \/ \E k \in Releases : Persisted(k) \/ Released(k)
  <2>1. UNCHANGED status /\ cur' \in {cur, NoRef}
    BY <1>5 DEF SessionDisposed, TimerFires, ParkFinishes, DisposeEnds, SpawnFails,
       Persisted, Released, registryVars
  <2> QED BY <2>1 DEF Stays
<1>6. CASE Spawn \/ SpawnProbed
  <2>1. CASE UNCHANGED registryVars
    BY <2>1 DEF Stays, registryVars
  <2>2. CASE SpawnRegisters
    BY <1>1, <2>2 DEF SpawnRegisters, Register, Succeeds
  <2> QED BY <1>6, <2>1, <2>2 DEF Spawn, SpawnProbed
<1>7. CASE SpawnAttaches
  <2>1. cur' = cur /\ spawn.ref = cur /\ SetStatus(cur, "running")
    BY <1>7 DEF SpawnAttaches, Attachable
  <2>2. CASE cur \in Refs
    BY <1>1, <2>1, <2>2, StatusOnCur
  <2>3. CASE cur \notin Refs
    BY <2>1, <2>3 DEF SetStatus, Stays, TInv, RegistryTypeOK
  <2> QED BY <2>2, <2>3
<1>8. CASE LinksMove
  BY <1>8, OnlyLinksMove DEF Stays
<1> QED BY <1>2, <1>3, <1>4, <1>5, <1>6, <1>7, <1>8

LEMMA RegistryMoves == ASSUME TInv, [Next]_vars PROVE Succeeds \/ Stays
<1>1. CASE UNCHANGED vars
  BY <1>1 DEF vars, registryVars, Stays
<1>2. CASE Next
  BY <1>2, CallerRegistry, ReleaseRegistry, OtherRegistry DEF Next, LinksMove
<1> QED BY <1>1, <1>2

\* Only a kill kills: an agent of a manager that never kills is spared.
LEMMA SparedKept == ASSUME TInv, Spared, [Next]_vars, ~Strikes PROVE Spared'
<1>1. Succeeds \/ Stays
  BY RegistryMoves
<1> QED BY <1>1 DEF Succeeds, Stays, Spared, TInv, RegistryTypeOK

LEMMA InitRanked == Init => Ranked /\ Spared
  BY BoundsAssumption DEF Init, Ranked, Spared, Known, Refs, NoRef

LEMMA RankedKept == ASSUME TInv, Ranked, [Next]_vars PROVE Ranked'
<1>1. Succeeds \/ Stays
  BY RegistryMoves
<1>2. cur \in Refs \cup {NoRef} /\ NoRef \notin Refs
  BY Nothings DEF TInv, RegistryTypeOK
<1>3. CASE Stays
  <2>1. \A r \in Refs : (status'[r] = "none") <=> (status[r] = "none")
    BY <1>2, <1>3 DEF Stays, Statuses, Ranked, Known, TInv, RegistryTypeOK
  <2> QED BY <1>2, <1>3, <2>1 DEF Stays, Ranked, Known
<1>4. CASE Succeeds
  <2>1. PICK r \in Refs : /\ Fresh(r) /\ cur' = r /\ status'[r] # "none"
                         /\ \A q \in Refs : q # r => status'[q] = status[q]
    BY <1>4 DEF Succeeds, Statuses, TInv, RegistryTypeOK
  <2>2. \A q \in Refs : q < r => status[q] # "none"
    BY <2>1 DEF Fresh, Refs
  <2>3. \A q \in Refs : r < q => status[q] = "none"
    BY <2>1 DEF Fresh, Ranked
  <2>4. \A q \in Refs : q < r \/ q = r \/ r < q
    BY DEF Refs
  <2>5. \A q, t \in Refs : q < t /\ ~(t < r) /\ t # r => r < t
    BY DEF Refs
  <2>6. \A q, t \in Refs : q < t /\ t < r => q < r
    BY DEF Refs
  <2>7. ASSUME NEW q \in Refs, NEW t \in Refs, q < t, status'[t] # "none"
        PROVE  status'[q] # "none"
    BY <2>1, <2>2, <2>3, <2>4, <2>5, <2>6, <2>7
  <2> QED BY <1>2, <2>1, <2>3, <2>4, <2>7 DEF Ranked, Known, Refs
<1> QED BY <1>1, <1>3, <1>4

LEMMA SucceededKept == ASSUME TInv, Inv, Succeeded, [Next]_vars PROVE Succeeded'
<1>1. \A r \in Refs : status[r] = "aborted" => status'[r] = "aborted"
  BY StepInv DEF StaysKilled, vars, registryVars
<1>2. \A r \in Refs : status[r] # "none" => status'[r] # "none"
  BY RegistryMoves DEF Succeeds, Stays, Statuses, TInv, RegistryTypeOK
<1> QED BY <1>1, <1>2 DEF Succeeded

\* The killed ref is the last; no call has a fresh one to go on with.
Ended == /\ \E r \in Refs : /\ status[r] = "aborted" /\ cur \in {r, NoRef}
                           /\ \A q \in Refs : r < q => status[q] = "none"
         /\ "kill" \in Releases /\ rel["kill"].pc \in {"persist", "dispose", "done"}
         /\ \A c \in Callers : op[c].pc \notin {"unmark", "reopened"}
         /\ Alone /\ (spawn.pc = "construct" => spawn.ref # NoRef)
\* What is still live is what the kill took from the ref and will dispose.
Doomed == \A s \in Sessions : session[s] = "live" =>
            rel["kill"].pc = "persist" /\ rel["kill"].ses = s

LEMMA StrikeEnds ==
    ASSUME TInv, RInv, Ranked, Strikes
    PROVE  Ended' /\ (OInv => Doomed')
<1>1. PICK g, a : TakeDown("kill", cur, g, a)
  BY DEF Strikes
<1>2. /\ status'[cur] = "aborted" /\ session' = session
      /\ \A q \in Refs : q # cur => status'[q] = status[q]
      /\ rel'["kill"].pc = "persist" /\ rel'["kill"].ses = attached[cur]
  BY <1>1 DEF TakeDown, SetStatus, Strikes, TInv, RegistryTypeOK, ReleasesOK
<1>3. \A q \in Refs : cur < q => q # cur /\ status[q] = "none"
  BY Nothings DEF Ranked, Strikes, Refs
<1>4. /\ Alone' /\ \A c \in Callers : op'[c].pc \notin {"unmark", "reopened"}
      /\ spawn'.pc = "construct" => spawn'.ref # NoRef
  BY DEF Strikes, RInv, Alone, Builds, Unkilled, Reopening, Spawning
<1>5. Ended'
  BY <1>2, <1>3, <1>4 DEF Strikes, Ended
<1>6. OInv => Doomed'
  BY <1>2 DEF Doomed, OInv, OneLive
<1> QED BY <1>5, <1>6

\* The registered ref, if there is one, is the killed one.
Dead == /\ cur # NoRef => status[cur] = "aborted"
        /\ \A c \in Callers : op[c].pc \notin {"unmark", "reopened"}
        /\ spawn.pc = "construct" => spawn.ref # NoRef
\* No call starts to build, and no session comes to life.
Dwindles == \A d \in Callers :
    /\ op'[d].pc \notin {"unmark", "reopened"}
    /\ op'[d].pc \in Building => op[d].pc \in Building /\ op'[d].ref = op[d].ref
Fades == \A s \in Sessions : session'[s] = "live" => session[s] = "live"

LEMMA OneDwindles ==
    ASSUME TInv, Dead, NEW c \in Callers, NEW q, op' = [op EXCEPT ![c] = q],
           q.pc \notin Building \cup {"unmark", "reopened"}
    PROVE  Dwindles
  BY Elsewhere DEF Dead, Dwindles

LEMMA SettledDwindles ==
    ASSUME TInv, Dead, NEW c \in Callers, NEW pc \in {"idle", "got"}, NEW s,
           op' = Settled(c, pc, s)
    PROVE  Dwindles
  BY DEF Dead, Dwindles, Settled, NoCall, Building

LEMMA RejectedDwindles ==
    ASSUME TInv, Dead, NEW c \in Callers, Builds(c), NEW s,
           \/ op' = [op EXCEPT ![c].pc = "reject", ![c].ses = s]
           \/ op' = [op EXCEPT ![c].pc = "reject"]
    PROVE  Dwindles
<1>1. op'[c].pc = "reject" /\ op'[c].ref = op[c].ref /\ \A d \in Callers : d # c => op'[d] = op[d]
  BY CallMoves
<1> QED BY <1>1 DEF Dead, Dwindles, Builds

LEMMA PrepareDwindles ==
    ASSUME TInv, Dead, NEW c \in Callers, NEW o, Prepare(c, o)
    PROVE  Dwindles
<1>1. ASSUME NEW q, op' = [op EXCEPT ![c] = q], q.pc \in {"idle", "joinReopen", "probe"}
      PROVE  Dwindles
  BY <1>1, OneDwindles DEF Building
<1>2. CASE Throws(c)
  BY <1>1, <1>2 DEF Throws, NoCall
<1>3. CASE Reopen(c)
  <2>1. ASSUME NEW pc \in {"joinReopen", "probe"}, NEW mates,
               op' = [op EXCEPT ![c] = [NoCall EXCEPT !.pc = pc, !.ref = cur, !.mate = mates]]
        PROVE  Dwindles
    BY <1>1, <2>1 DEF NoCall
  <2>2. CASE op' = [op EXCEPT ![c] = [NoCall EXCEPT !.pc = "probe", !.ref = cur,
                                                     !.rooted = Rooted]]
    BY <1>1, <2>2 DEF NoCall
  <2> QED BY <1>2, <1>3, <2>1, <2>2 DEF Reopen
<1> QED BY <1>2, <1>3 DEF Dead, Prepare

LEMMA CallerFades ==
    ASSUME TInv, Dead, ~Succeeds, NEW c \in Callers,
           EnsureLive(c) \/ CallerSteps(c) \/ CallerDone(c)
    PROVE  Dwindles /\ Fades
<1>1. ~(Kept(c) /\ ~Prepare(c, op[c])) /\ ~Unmark(c) /\ ~Reopened(c) /\ ~ProbeSucceeds(c)
  <2>1. ~ProbeSucceeds(c)
    BY DEF ProbeSucceeds, Register, Succeeds, Statuses
  <2> QED BY <2>1 DEF Dead, Kept, Unmark, Reopened
<1>2. ~Claim(c) /\ ~Attach(c)
  <2>1. op[c].pc \in {"open", "construct"} => op[c].ref \in Refs /\ NoRef \notin Refs
    BY Nothings DEF TInv, CallsOK, GoodCall
  <2> QED BY <2>1 DEF Dead, Claim, Claimable, Attach, Attachable
<1>3. CASE EnsureLive(c)
  <2>1. UNCHANGED session
    BY <1>3 DEF EnsureLive, sessionVars
  <2>2. CASE ParkListed
    <3> DEFINE o == [NoCall EXCEPT !.init = cur,
                                   !.fromKilled = cur # NoRef /\ status[cur] = "aborted"]
    <3>1. ASSUME NEW pc \in {"awaitKept", "awaitPark"},
                 op' = [op EXCEPT ![c] = [o EXCEPT !.pc = pc]]
          PROVE  Dwindles
      <4>1. [o EXCEPT !.pc = pc].pc = pc
        BY DEF NoCall
      <4> HIDE DEF o
      <4> QED BY <3>1, <4>1, OneDwindles DEF Building
    <3> QED BY <1>3, <2>1, <2>2, <3>1 DEF EnsureLive, Fades
  <2>3. CASE ~ParkListed
    BY <1>3, <2>1, <2>3, PrepareDwindles DEF EnsureLive, Fades
  <2> QED BY <2>2, <2>3
<1>4. CASE Kept(c) \/ Unparked(c)
  BY <1>1, <1>4, PrepareDwindles DEF Kept, Unparked, Fades, sessionVars
<1>5. CASE CallerDone(c)
  BY <1>5, OneDwindles DEF CallerDone, NoCall, Building, Fades, sessionVars
<1>6. CASE ProbeFails(c)
  <2>1. Dwindles
    BY <1>6 DEF ProbeFails, ReopenSettled, Dead, Dwindles, NoCall, Building
  <2> QED BY <1>6, <2>1 DEF ProbeFails, Fades, sessionVars
<1>7. CASE Cold(c)
  <2>1. op[c].ref \in Refs /\ NoRef \notin Refs
    BY <1>7, Nothings DEF Cold, TInv, CallsOK, GoodCall
  <2>2. op' = Settled(c, "idle", NoSession)
    BY <1>7, <2>1 DEF Cold, Dead
  <2> QED BY <1>7, <2>2, SettledDwindles DEF Cold, Fades, sessionVars
<1>8. CASE ReviverFails(c) \/ Reject(c)
  BY <1>8, SettledDwindles DEF ReviverFails, Reject, RevivalFails, Fades, sessionVars
<1>9. CASE AttachRefused(c)
  <2>1. Builds(c)
    BY <1>9 DEF AttachRefused, Builds, Building
  <2>2. Fades
    BY <1>9 DEF AttachRefused, Fades, TInv, SessionsOK
  <2> QED BY <1>9, <2>1, <2>2, RejectedDwindles DEF AttachRefused
<1>10. CASE InitFails(c)
  <2>1. Builds(c)
    BY <1>10 DEF InitFails, Builds, Building
  <2>2. Fades
    BY <1>10 DEF InitFails, Dispose, Fades, TInv, SessionsOK
  <2> QED BY <1>10, <2>1, <2>2, RejectedDwindles, SettledDwindles DEF InitFails, RevivalFails
<1>11. CASE ReviverReturns(c) \/ SimpleReviverReturns(c)
  <2>1. Builds(c) /\ op[c].ref \in Refs /\ NoRef \notin Refs
    BY <1>11, Nothings DEF ReviverReturns, SimpleReviverReturns, Builds, Building, TInv,
       CallsOK, GoodCall
  <2>2. PICK s : Revive(c, s)
    BY <1>11 DEF ReviverReturns, SimpleReviverReturns
  <2>3. /\ session' = [session EXCEPT ![s] = IF @ = "disposed" THEN @ ELSE "disposing"]
        /\ op' = [op EXCEPT ![c].pc = "reject", ![c].ses = s]
    BY <2>1, <2>2 DEF Revive, Claimable, Adoptable, Dead
  <2>4. Fades
    BY <2>3 DEF Fades, TInv, SessionsOK
  <2> QED BY <2>1, <2>3, <2>4, RejectedDwindles
<1> QED BY <1>1, <1>2, <1>3, <1>4, <1>5, <1>6, <1>7, <1>8, <1>9, <1>10, <1>11
        DEF CallerSteps, ReviverSteps

\* A release takes or disposes a session; it gives none.
LEMMA TakeDownFades ==
    ASSUME TInv, NEW k, NEW r, NEW g, NEW a, TakeDown(k, r, g, a)
    PROVE  Fades
  BY DEF TakeDown, Dispose, Fades, TInv, SessionsOK

LEMMA ReleaseFades ==
    ASSUME TInv, \/ Kill \/ Cancel \/ \E other \in BOOLEAN : DisposeRoot(other)
                 \/ \E k \in Releases : ReleaseGoes(k) \/ Persisted(k) \/ Released(k)
    PROVE  op' = op /\ Fades
<1>1. op' = op
  BY DEF Kill, Cancel, DisposeRoot, ReleaseGoes, Persisted, Released
<1>2. CASE UNCHANGED session
  BY <1>1, <1>2 DEF Fades
<1>3. ASSUME NEW k, NEW r, StartRelease(k, r) PROVE Fades
  BY <1>2, <1>3, TakeDownFades DEF StartRelease, Fades
<1>4. CASE Kill \/ Cancel \/ \E other \in BOOLEAN : DisposeRoot(other)
  BY <1>1, <1>3, <1>4 DEF Kill, Cancel, DisposeRoot, Fades
<1>5. ASSUME NEW k \in Releases, ReleaseGoes(k) PROVE Fades
  BY <1>5, TakeDownFades DEF ReleaseGoes, Fades
<1>6. ASSUME NEW k \in Releases, Persisted(k) PROVE Fades
  BY <1>6 DEF Persisted, Dispose, Fades, TInv, SessionsOK
<1>7. ASSUME NEW k \in Releases, Released(k) PROVE Fades
  BY <1>7 DEF Released, Fades, sessionVars
<1> QED BY <1>1, <1>4, <1>5, <1>6, <1>7

LEMMA ParkEndsDwindles ==
    ASSUME TInv, Dead, ParkEnds
    PROVE  Dwindles
<1>1. \A d \in Callers : \/ op'[d] = op[d]
                         \/ op'[d] = [op[d] EXCEPT !.pc = "unparked"]
                         \/ op'[d] = [op[d] EXCEPT !.pc = "kept"]
  BY DEF ParkEnds, ParkAwaited
<1>2. \A d \in Callers : op[d] \in CallRecord
  BY DEF TInv, CallsOK, GoodCall
<1>3. \A d \in Callers : op'[d] = op[d] \/ op'[d].pc \in {"unparked", "kept"}
  BY <1>1, <1>2 DEF CallRecord
<1> QED BY <1>3 DEF Dead, Dwindles, Building

LEMMA OtherFades ==
    ASSUME TInv, Dead, ~Succeeds,
           \/ RunStarts \/ RunEnds \/ Adopt \/ \E s \in Sessions : SessionDisposed(s)
           \/ TimerFires \/ ParkCommits \/ ParkFinishes \/ DisposeEnds
           \/ Spawn \/ SpawnProbed \/ SpawnAttaches \/ SpawnFails \/ LinksMove
    PROVE  Dwindles /\ Fades
<1>1. op' = op => Dwindles
  BY DEF Dead, Dwindles
<1>2. session' = session => Fades
  BY DEF Fades
<1>3. CASE \/ RunStarts \/ RunEnds \/ TimerFires \/ DisposeEnds \/ Spawn \/ SpawnProbed
           \/ SpawnFails
  BY <1>1, <1>2, <1>3 DEF RunStarts, RunEnds, TimerFires, DisposeEnds, Spawn, SpawnProbed,
     SpawnFails, sessionVars
<1>4. CASE Adopt \/ \E s \in Sessions : SessionDisposed(s)
  <2>1. Fades
    BY <1>4 DEF Adopt, SessionDisposed, Dispose, Fades, TInv, SessionsOK
  <2> QED BY <1>1, <1>4, <2>1 DEF Adopt, SessionDisposed
<1>5. CASE ParkCommits
  <2>1. CASE Dispose(park.ses) /\ UNCHANGED op
    BY <1>1, <2>1 DEF Dispose, Fades, TInv, SessionsOK
  <2>2. CASE ParkEnds /\ UNCHANGED session
    BY <1>2, <2>2, ParkEndsDwindles
  <2> QED BY <1>5, <2>1, <2>2 DEF ParkCommits
<1>6. CASE ParkFinishes
  BY <1>2, <1>6, ParkEndsDwindles DEF ParkFinishes, sessionVars
<1>7. ~SpawnAttaches
  <2>1. cur = NoRef => cur \notin Refs
    BY Nothings
  <2>2. SpawnAttaches => spawn.pc = "construct" /\ spawn.ref = cur /\ (cur = NoRef \/ status[cur] # "aborted")
    BY DEF SpawnAttaches, Attachable
  <2> QED BY <2>1, <2>2 DEF Dead
<1>8. CASE LinksMove
  BY <1>1, <1>2, <1>8, OnlyLinksMove
<1> QED BY <1>3, <1>4, <1>5, <1>6, <1>7, <1>8

LEMMA SpawnStays ==
    ASSUME ~Succeeds, [Next]_vars
    PROVE  spawn'.pc = "construct" => spawn' = spawn
<1>1. CASE UNCHANGED spawn
  BY <1>1
<1>2. CASE Spawn \/ SpawnProbed \/ SpawnAttaches \/ SpawnFails
  <2>1. ~SpawnRegisters
    BY DEF SpawnRegisters, Register, Succeeds, Statuses
  <2> QED BY <1>2, <2>1 DEF Spawn, SpawnProbed, SpawnAttaches, SpawnFails, NoSpawn
<1>3. CASE UNCHANGED vars
  BY <1>3 DEF vars
<1>4. CASE \E c \in Callers : EnsureLive(c) \/ CallerSteps(c) \/ CallerDone(c)
  BY <1>1, <1>4 DEF EnsureLive, CallerDone, CallerSteps, ReviverSteps, Kept, Unparked,
     ProbeFails, ProbeSucceeds, Unmark, Reopened, Cold, Reject, Claim, ReviverFails, Attach,
     AttachRefused, InitFails, ReviverReturns, SimpleReviverReturns
<1>5. CASE \/ RunStarts \/ RunEnds \/ Adopt \/ \E s \in Sessions : SessionDisposed(s)
           \/ TimerFires \/ ParkCommits \/ ParkFinishes \/ DisposeEnds
           \/ Kill \/ Cancel \/ \E other \in BOOLEAN : DisposeRoot(other)
           \/ \E k \in Releases : ReleaseGoes(k) \/ Persisted(k) \/ Released(k)
  BY <1>1, <1>5 DEF RunStarts, RunEnds, Adopt, SessionDisposed, TimerFires, ParkCommits,
     ParkFinishes, DisposeEnds, Kill, Cancel, DisposeRoot, ReleaseGoes, Persisted, Released
<1>6. CASE LinksMove
  BY <1>1, <1>6, OnlyLinksMove
<1> QED BY <1>2, <1>3, <1>4, <1>5, <1>6 DEF Next, LinksMove

\* The kill goes on: it writes its marker and disposes what it took.
KillGoes == \/ rel'["kill"] = rel["kill"]
            \/ /\ rel'["kill"].pc \in {"dispose", "done"}
               /\ rel["kill"].pc = "persist" /\ rel["kill"].ses \in Sessions =>
                    session'[rel["kill"].ses] # "live"

LEMMA KillGoesOn ==
    ASSUME TInv, "kill" \in Releases, rel["kill"].pc \in {"persist", "dispose", "done"},
           cur # NoRef => status[cur] = "aborted", [Next]_vars
    PROVE  KillGoes
<1>1. CASE UNCHANGED rel
  BY <1>1 DEF KillGoes
<1>2. CASE UNCHANGED vars
  BY <1>2 DEF vars, KillGoes
<1>3. CASE \E c \in Callers : EnsureLive(c) \/ CallerSteps(c) \/ CallerDone(c)
  BY <1>1, <1>3 DEF EnsureLive, CallerDone, CallerSteps, ReviverSteps, Kept, Unparked,
     ProbeFails, ProbeSucceeds, Unmark, Reopened, Cold, Reject, Claim, ReviverFails, Attach,
     AttachRefused, InitFails, ReviverReturns, SimpleReviverReturns
<1>4. CASE \/ RunStarts \/ RunEnds \/ Adopt \/ \E s \in Sessions : SessionDisposed(s)
           \/ TimerFires \/ DisposeEnds \/ Spawn \/ SpawnProbed \/ SpawnAttaches \/ SpawnFails
  BY <1>1, <1>4 DEF RunStarts, RunEnds, Adopt, SessionDisposed, TimerFires, DisposeEnds,
     Spawn, SpawnProbed, SpawnAttaches, SpawnFails
<1>5. CASE ParkCommits \/ ParkFinishes
  <2>1. rel' = rel \/ rel'["kill"] = rel["kill"]
    BY <1>5 DEF ParkCommits, ParkFinishes, ParkEnds
  <2> QED BY <2>1 DEF KillGoes
<1>6. ASSUME NEW k \in Releases, k # "kill", NEW n, rel' = [rel EXCEPT ![k] = n]
      PROVE  KillGoes
  BY <1>6 DEF KillGoes, TInv, ReleasesOK
<1>7. ASSUME NEW k \in Releases, k # "kill", NEW r, StartRelease(k, r)
      PROVE  KillGoes
  BY <1>6, <1>7 DEF StartRelease, TakeDown
<1>8. CASE Kill \/ Cancel \/ \E other \in BOOLEAN : DisposeRoot(other)
  <2>1. ~Kill
    BY DEF Kill
  <2> QED BY <1>6, <1>7, <1>8, <2>1 DEF Cancel, DisposeRoot
<1>9. ASSUME NEW k \in Releases, ReleaseGoes(k) PROVE KillGoes
  <2>1. k # "kill"
    BY <1>9 DEF ReleaseGoes
  <2> QED BY <1>6, <1>9, <2>1 DEF ReleaseGoes, TakeDown
<1>10. ASSUME NEW k \in Releases, Persisted(k) PROVE KillGoes
  <2>1. CASE k # "kill"
    <3>1. rel' = [rel EXCEPT ![k] = [rel[k] EXCEPT !.pc = "dispose"]]
      BY <1>10 DEF Persisted
    <3> QED BY <1>6, <2>1, <3>1
  <2>2. CASE k = "kill"
    <3>1. rel'["kill"].pc = "dispose"
      BY <1>10, <2>2 DEF Persisted, TInv, ReleasesOK, GoodRelease, ReleaseRecord
    <3>2. rel["kill"].ses \in Sessions => session'[rel["kill"].ses] # "live"
      BY <1>10, <2>2, Nothings DEF Persisted, Dispose, TInv, SessionsOK
    <3> QED BY <3>1, <3>2 DEF KillGoes
  <2> QED BY <2>1, <2>2
<1>11. ASSUME NEW k \in Releases, Released(k) PROVE KillGoes
  <2>1. rel' = [rel EXCEPT ![k] = ReleaseDone] /\ rel[k].pc = "dispose"
    BY <1>11 DEF Released
  <2>2. CASE k = "kill"
    BY <2>1, <2>2 DEF KillGoes, ReleaseDone, NoRelease, TInv, ReleasesOK
  <2> QED BY <1>6, <2>1, <2>2
<1>12. CASE LinksMove
  BY <1>1, <1>12, OnlyLinksMove
<1> QED BY <1>2, <1>3, <1>4, <1>5, <1>8, <1>9, <1>10, <1>11, <1>12 DEF Next, LinksMove

LEMMA EndedKept ==
    ASSUME TInv, Inv, Ranked, Ended, [Next]_vars, ~Succeeded'
    PROVE  Ended' /\ (Doomed => Doomed')
<1>1. PICK r \in Refs : /\ status[r] = "aborted" /\ cur \in {r, NoRef}
                       /\ \A q \in Refs : r < q => status[q] = "none"
  BY DEF Ended
<1>2. NoRef \notin Refs /\ \A q \in Refs : status[q] # "none" => status'[q] # "none"
  BY Nothings, RegistryMoves DEF Succeeds, Stays, Statuses, TInv, RegistryTypeOK
<1>3. status'[r] = "aborted"
  BY <1>1, StepInv DEF StaysKilled, vars, registryVars
<1>4. ~Succeeds
  <2> SUFFICES ASSUME NEW q \in Refs, Fresh(q), status'[q] # "none" PROVE FALSE
    BY DEF Succeeds, Statuses, TInv, RegistryTypeOK
  <2>1. q # r /\ ~(q < r)
    BY <1>1 DEF Fresh, Ranked
  <2>2. r < q
    BY <2>1 DEF Refs
  <2> QED BY <1>3, <2>2 DEF Succeeded
<1>5. Stays
  BY <1>4, RegistryMoves
<1>6. cur' \in {r, NoRef} /\ \A q \in Refs : r < q => status'[q] = "none"
  BY <1>1, <1>2, <1>3, <1>5 DEF Stays, Succeeded
<1>7. Dead
  BY <1>1 DEF Dead, Ended
<1>8. Dwindles /\ Fades
  <2>1. CASE UNCHANGED vars
    BY <1>7, <2>1 DEF vars, sessionVars, Dead, Dwindles, Fades
  <2>2. op' = op => Dwindles
    BY <1>7 DEF Dead, Dwindles
  <2>3. CASE Next
    BY <1>4, <1>7, <2>2, <2>3, CallerFades, ReleaseFades, OtherFades DEF Next, LinksMove
  <2> QED BY <2>1, <2>3
<1>9. KillGoes
  BY <1>7, KillGoesOn DEF Dead, Ended
<1>10. rel'["kill"].pc \in {"persist", "dispose", "done"}
  BY <1>9 DEF KillGoes, Ended
<1>11. Alone' /\ \A c \in Callers : op'[c].pc \notin {"unmark", "reopened"}
  BY <1>8 DEF Dwindles, Ended, Alone, Builds
<1>12. spawn'.pc = "construct" => spawn'.ref # NoRef
  BY <1>4, SpawnStays DEF Ended
<1>13. Ended'
  BY <1>3, <1>6, <1>10, <1>11, <1>12 DEF Ended
<1>14. Doomed => Doomed'
  BY <1>8, <1>9 DEF Doomed, Fades, KillGoes
<1> QED BY <1>13, <1>14

LEMMA EndedCoalesces == Ended => RevivalsCoalesce
  BY DEF Ended, Alone, RevivalsCoalesce, Rebuilding, Builds, Building

LEMMA DoomedHeld == Ended /\ Doomed => NoOrphans
  BY DEF Ended, Doomed, NoOrphans, Held

\* Before the kill, after it, and once a fresh ref has the id.
Unsucceeded == Ranked /\ (Succeeded \/ (Spared /\ RInv) \/ Ended)
AllHeld == \/ Succeeded \/ (Spared /\ RInv /\ OInv) \/ (Ended /\ Doomed)

LEMMA SparedStep ==
    ASSUME TInv, Inv, Ranked, Spared, RInv, [Next]_vars
    PROVE  \/ Spared' /\ RInv' /\ (OInv => OInv')
           \/ Ended' /\ (OInv => Doomed')
<1>1. CASE Strikes
  BY <1>1, StrikeEnds
<1>2. CASE ~Strikes
  BY <1>2, SparedKept, StepRInv, StepOInv
<1> QED BY <1>1, <1>2

LEMMA UnsucceededStep ==
    TInv /\ Inv /\ Unsucceeded /\ [Next]_vars => (TInv /\ Inv /\ Unsucceeded)'
  BY StepTInv, StepInv, RankedKept, SucceededKept, EndedKept, SparedStep DEF Unsucceeded

LEMMA AllHeldStep ==
    TInv /\ Inv /\ Ranked /\ AllHeld /\ [Next]_vars => (TInv /\ Inv /\ Ranked /\ AllHeld)'
  BY StepTInv, StepInv, RankedKept, SucceededKept, EndedKept, SparedStep DEF AllHeld

\* At most one revival of an agent is under way at a time: a message that comes while one
\* attaches its session joins it (ensureLive).  That holds until an agent that was killed
\* is succeeded by a fresh ref: a reopen that another one overtakes leaves a caller behind
\* that builds a second session (LifecycleReplaced.cfg).
THEOREM CoalesceUntilReopened == Spec => [](Succeeded \/ RevivalsCoalesce)
<1>1. Init => TInv /\ Inv /\ Unsucceeded
  BY InitTInv, InitInv, InitRanked, InitRInv DEF Unsucceeded
<1>2. TInv /\ Inv /\ Unsucceeded /\ [Next]_vars => (TInv /\ Inv /\ Unsucceeded)'
  BY UnsucceededStep
<1>3. TInv /\ Inv /\ Unsucceeded => Succeeded \/ RevivalsCoalesce
  BY RInvCoalesces, EndedCoalesces DEF Unsucceeded
<1> QED BY <1>1, <1>2, <1>3, PTL DEF Spec

\* No interleaving of revivals, parks, cancellations, a kill, the teardown of the root and
\* spawns leaves a live session that nothing can reach, until a fresh ref succeeds a killed
\* one.  A release that awaits onRelease and then forgets the ref has to be left out, and so
\* has a reopen that comes late: both do orphan a session (LifecycleOrphan.cfg and
\* LifecycleReplaced.cfg).
THEOREM HeldUntilReopened == ASSUME Lone PROVE Spec => [](Succeeded \/ NoOrphans)
<1>1. Init => TInv /\ Inv /\ Ranked /\ AllHeld
  BY InitTInv, InitInv, InitRanked, InitRInv, InitOInv DEF AllHeld
<1>2. TInv /\ Inv /\ Ranked /\ AllHeld /\ [Next]_vars => (TInv /\ Inv /\ Ranked /\ AllHeld)'
  BY AllHeldStep
<1>3. TInv /\ Inv /\ Ranked /\ AllHeld => Succeeded \/ NoOrphans
  BY OInvNoOrphans, DoomedHeld DEF AllHeld
<1> QED BY <1>1, <1>2, <1>3, PTL DEF Spec

\* An id that is used once, or that nobody kills, has no successor to a killed ref.
Unsucceedable == MaxRefs = 1 \/ "kill" \notin Releases

LEMMA NeverSucceeded ==
    ASSUME Unsucceedable
    PROVE  Spec => []~Succeeded
<1> DEFINE J == "kill" \notin Releases => Spared
<1>1. Init => TInv /\ J
  BY InitTInv, InitRanked
<1>2. TInv /\ J /\ [Next]_vars => (TInv /\ J)'
  <2>1. Strikes => "kill" \in Releases
    BY DEF Strikes
  <2> QED BY <2>1, StepTInv, SparedKept
<1>3. TInv /\ J => ~Succeeded
  <2>1. MaxRefs = 1 => \A r, q \in Refs : ~(r < q)
    BY DEF Refs
  <2> QED BY <2>1 DEF Unsucceedable, Succeeded, Spared
<1> HIDE DEF J
<1> QED BY <1>1, <1>2, <1>3, PTL DEF Spec

\* At most one revival is under way at a time, of an agent that nobody kills and of one
\* whose id is used once, killed or not.
THEOREM UnreopenedCoalesce == ASSUME Unsucceedable PROVE Spec => []RevivalsCoalesce
  BY CoalesceUntilReopened, NeverSucceeded, PTL

\* No live session of such an agent is out of reach, if no release of it awaits onRelease
\* and then forgets the ref.
THEOREM UnreopenedHeld == ASSUME Unsucceedable, Lone PROVE Spec => []NoOrphans
  BY HeldUntilReopened, NeverSucceeded, PTL

-----------------------------------------------------------------------------
(* The teardown of a root leaves only agents whose root could not be told.    *)
(* No adoption is stale: the id is used once, or nothing is revived cold.    *)

\* A live session belongs to the executor of a spawn, or its ref is adopted, or nobody knew
\* its root when the manager was disposed.
Entrusted == \A s \in Sessions : session[s] = "live" =>
               executing = s \/ adopted.ref = cur \/ (disposed /\ ~owner)
\* Who revives the registered ref works on its adoption, unless that is released.
Reviving == {"open", "construct", "init"}
Backed == \A c \in Callers : ForCur(c) /\ op[c].pc \in Reviving =>
            adopted.ref = cur \/ \E k \in Releases : Waits(k)
\* The teardown takes what is adopted; what is adopted afterwards, or was not found to be
\* the root's, has no root that adopt could tell.
Gathered == rootGone => \/ adopted.ref = NoRef
                        \/ ~disposed /\ ~adopted.rooted
                        \/ /\ "teardown" \in Releases
                           /\ rel["teardown"].pc \in {"awaitPark", "go"}
                           /\ rel["teardown"].ref = adopted.ref
Ahead == "teardown" \in Releases /\ ~rootGone => rel["teardown"].pc = "idle"
\* What is adopted is the registered ref.
Current == MaxRefs = 1 \/ adopted.ref \in {cur, NoRef} \/ (disposed /\ cur = NoRef)
Orderly == Gathered /\ Ahead /\ Current

SInv == Entrusted /\ Backed /\ Orderly

\* Without the factory of persisted revivers, nobody revives cold.
Warm == MaxRefs = 1 \/ (~factory /\ \A c \in Callers : op[c].pc # "cold")

LEMMA SInvLeavesRootless == OInv /\ SInv => OnlyRootlessSurvive
<1> SUFFICES ASSUME OInv, SInv, rootGone, ~InFlight, NEW s \in Sessions, session[s] = "live"
             PROVE  /\ LiveSession = s
                    /\ IF disposed THEN ~owner ELSE adopted.ref = cur /\ ~adopted.rooted
  BY DEF OnlyRootlessSurvive
<1>1. cur # NoRef /\ s # NoSession /\ LiveSession = s
  BY Nothings DEF OInv, OneLive, LiveSession
<1>2. executing = NoSession /\ \A k \in Releases : rel[k].pc \in {"idle", "done"}
  BY DEF InFlight
<1>3. adopted.ref = cur \/ (disposed /\ ~owner)
  BY <1>1, <1>2 DEF SInv, Entrusted
<1>4. adopted.ref = cur => ~disposed /\ ~adopted.rooted
  BY <1>1, <1>2 DEF SInv, Orderly, Gathered
<1> QED BY <1>1, <1>3, <1>4

LEMMA InitSInv == Init => SInv
<1> SUFFICES ASSUME Init PROVE SInv
  OBVIOUS
<1>1. /\ ~rootGone /\ \A k \in Releases : rel[k].pc = "idle"
      /\ \A c \in Callers : op[c].pc = "idle"
  BY DEF Init, NoRelease, NoCall
<1>2. Entrusted
  BY DEF Init, Entrusted
<1>3. Orderly
  BY <1>1 DEF Init, NoAdoption, Orderly, Gathered, Ahead, Current
<1> QED BY <1>1, <1>2, <1>3 DEF SInv, Backed, ForCur, Builds, Building

\* A step leaves the teardown nothing new to take.
NothingNew == \/ adopted'.ref = NoRef
              \/ adopted'.ref = adopted.ref /\ adopted'.rooted = adopted.rooted
              \/ ~disposed' /\ ~adopted'.rooted

LEMMA TeardownKept ==
    ASSUME SInv, UNCHANGED <<rootGone, disposed>>, ~rootGone \/ NothingNew,
           \/ MaxRefs = 1
           \/ UNCHANGED cur /\ adopted'.ref \in {cur, adopted.ref, NoRef}
           \/ adopted'.ref = NoRef \/ (disposed' /\ cur' = NoRef),
           "teardown" \in Releases =>
             \/ rel'["teardown"] = rel["teardown"]
             \/ /\ rel["teardown"].pc \in {"awaitPark", "go"} /\ rel'["teardown"].pc = "go"
                /\ rel'["teardown"].ref = rel["teardown"].ref
             \/ rel["teardown"].pc \notin {"idle", "awaitPark", "go"}
             \/ /\ rel["teardown"].pc # "idle"
                /\ adopted'.ref = NoRef \/ (~disposed' /\ ~adopted'.rooted)
    PROVE  Orderly'
<1>1. Gathered' /\ Ahead'
  BY DEF SInv, Orderly, Gathered, Ahead, NothingNew
<1>2. Current'
  BY DEF SInv, Orderly, Current
<1> QED BY <1>1, <1>2 DEF Orderly

LEMMA TeardownSame ==
    ASSUME SInv, UNCHANGED <<rootGone, disposed, rel>>, ~rootGone \/ NothingNew,
           \/ MaxRefs = 1
           \/ UNCHANGED cur /\ adopted'.ref \in {cur, adopted.ref, NoRef}
           \/ adopted'.ref = NoRef \/ (disposed' /\ cur' = NoRef)
    PROVE  Orderly'
  BY TeardownKept

\* Who forgets the id drops its adoption, unless the manager is disposed.
LEMMA DropsAdoption ==
    ASSUME SInv, UNCHANGED disposed, adopted' = OnRemoved(cur, adopted)
    PROVE  MaxRefs = 1 \/ adopted'.ref = NoRef \/ disposed'
  BY DEF OnRemoved, NoAdoption, SInv, Orderly, Current

\* No step that leaves the id its ref, and entrusts what is live to somebody.
LEMMA CleanKept ==
    ASSUME TInv, RInv, OInv, SInv, UNCHANGED <<cur, owner>>, Orderly', disposed => disposed',
           \A s \in Sessions : session'[s] = "live" =>
             /\ session[s] = "live"
             /\ executing' = executing \/ adopted'.ref = cur \/ (disposed /\ ~owner),
           adopted.ref = cur =>
             \/ adopted'.ref = cur
             \/ /\ \A s \in Sessions : session'[s] # "live"
                /\ \/ \E k \in Releases : Waits(k)'
                   \/ \A c \in Callers : ForCur(c)' => op'[c].pc \notin Reviving,
           \A c \in Callers : op'[c].pc \in Reviving =>
             (op[c].pc \in Reviving /\ op'[c].ref = op[c].ref) \/ adopted'.ref = cur,
           \A k \in Releases : Waits(k) => Waits(k)'
    PROVE  SInv'
<1>1. Entrusted'
  BY DEF SInv, Entrusted
<1>2. Backed'
  <2> SUFFICES ASSUME NEW c \in Callers, ForCur(c)', op'[c].pc \in Reviving, adopted'.ref # cur
               PROVE  \E k \in Releases : Waits(k)'
    BY DEF Backed
  <2>1. op[c].pc \in Reviving /\ ForCur(c)
    BY DEF ForCur, Builds, Building, Reviving
  <2>2. CASE adopted.ref = cur
    BY <2>2
  <2>3. CASE \E k \in Releases : Waits(k)
    BY <2>3
  <2> QED BY <2>1, <2>2, <2>3 DEF SInv, Backed
<1> QED BY <1>1, <1>2 DEF SInv

\* Where the id resolves to nothing, there is nothing to say of sessions and calls.
LEMMA ForgottenCleans ==
    ASSUME RInv', OInv', cur' = NoRef, Orderly'
    PROVE  SInv'
<1>1. \A s \in Sessions : session'[s] # "live"
  BY DEF OInv, OneLive
<1>2. \A c \in Callers : ~ForCur(c)'
  BY Nothings DEF RInv, Born, ForCur
<1> QED BY <1>1, <1>2 DEF SInv, Entrusted, Backed

\* A step of a call that makes no session live.
LEMMA CallCleans ==
    ASSUME TInv, RInv, OInv, SInv, RInv', OInv',
           UNCHANGED <<cur, executing, rel, rootGone, disposed, owner>>,
           \A s \in Sessions : session'[s] = "live" => session[s] = "live",
           \/ adopted'.ref = adopted.ref /\ adopted'.rooted = adopted.rooted
           \/ /\ ~rootGone \/ (~disposed /\ ~adopted'.rooted)
              /\ adopted'.ref = cur \/ (MaxRefs = 1 /\ cur = NoRef)
           \/ /\ adopted'.ref = NoRef
              /\ cur # NoRef /\ adopted.ref = cur =>
                   /\ \A s \in Sessions : session'[s] # "live"
                   /\ \A c \in Callers : ForCur(c)' => op'[c].pc \notin Reviving,
           \A c \in Callers : op'[c].pc \in Reviving =>
             \/ op[c].pc \in Reviving /\ op'[c].ref = op[c].ref
             \/ adopted'.ref = cur
    PROVE  SInv'
<1>1. Orderly'
  BY TeardownSame DEF NothingNew
<1>2. CASE cur = NoRef
  BY <1>1, <1>2, ForgottenCleans
<1>3. CASE cur # NoRef
  <2>1. \A k \in Releases : Waits(k) => Waits(k)'
    BY DEF Waits
  <2> QED BY <1>1, <1>3, <2>1, CleanKept
<1> QED BY <1>2, <1>3

\* The registered ref gets a session, which its executor or its adoption holds.
LEMMA AttachedCleans ==
    ASSUME SInv, OInv', UNCHANGED <<cur, rel, rootGone, disposed, owner>>,
           adopted'.ref = adopted.ref /\ adopted'.rooted = adopted.rooted,
           adopted.ref = cur \/ attached'[cur] = executing',
           \A c \in Callers : op'[c].pc \in Reviving =>
             op[c].pc \in Reviving /\ op'[c].ref = op[c].ref
    PROVE  SInv'
<1>1. Orderly'
  BY TeardownSame DEF NothingNew
<1>2. Entrusted'
  BY DEF OInv, OneLive, Entrusted
<1>3. Backed'
  BY DEF SInv, Backed, ForCur, Builds, Building, Reviving, Waits
<1> QED BY <1>1, <1>2, <1>3 DEF SInv

-----------------------------------------------------------------------------
(* The steps of a call, of an id that is used once.                         *)

\* Only a warm revival starts with "open", and only the factory makes one cold.
Starts(d, q) == /\ q.pc \in Reviving => q = op[d] \/ adopted.ref = cur
                /\ q.pc = "cold" => q = op[d] \/ factory

LEMMA PrepareStarts ==
    ASSUME TInv, RInv, NEW c \in Callers, NEW o, Prepare(c, o)
    PROVE  \A d \in Callers : Starts(d, op'[d])
<1>1. ASSUME NEW q, op' = [op EXCEPT ![c] = q], q.pc \in Reviving => adopted.ref = cur,
             q.pc = "cold" => factory
      PROVE  \A d \in Callers : Starts(d, op'[d])
  BY <1>1, Elsewhere DEF Starts
<1>2. CASE Throws(c)
  BY <1>1, <1>2 DEF Throws, NoCall, Reviving
<1>3. CASE JoinOrRevive(c, cur)
  <2>1. CASE op' = [op EXCEPT ![c] = [NoCall EXCEPT !.pc = "joinRevival", !.ref = cur,
                                                    !.mate = RevivalOf(cur)]]
    BY <1>1, <2>1 DEF NoCall, Reviving
  <2>2. CASE op' = [op EXCEPT ![c] = [NoCall EXCEPT !.pc = "got", !.ses = attached[cur]]]
    BY <1>1, <2>2 DEF NoCall, Reviving
  <2>3. CASE ResolveAndRevive(c, cur)
    <3> DEFINE q(pc, rooted) == [NoCall EXCEPT !.pc = pc, !.ref = cur, !.rooted = rooted]
    <3>1. q("cold", FALSE).pc = "cold" /\ q("open", adopted.rooted).pc = "open"
      BY DEF NoCall
    <3>2. \/ factory /\ op' = [op EXCEPT ![c] = q("cold", FALSE)]
          \/ adopted.ref = cur /\ op' = [op EXCEPT ![c] = q("open", adopted.rooted)]
          \/ Throws(c)
      BY <2>3 DEF ResolveAndRevive
    <3> HIDE DEF q
    <3> QED BY <1>1, <1>2, <3>1, <3>2 DEF Reviving
  <2> QED BY <1>3, <2>1, <2>2, <2>3 DEF JoinOrRevive
<1>4. ~(cur # NoRef /\ status[cur] = "aborted")
  BY DEF TInv, RegistryTypeOK, RInv, Unkilled
<1>5. Throws(c) \/ JoinOrRevive(c, cur)
  BY <1>4 DEF Prepare
<1> QED BY <1>2, <1>3, <1>5

LEMMA AskStarts ==
    ASSUME TInv, RInv, NEW c \in Callers,
           EnsureLive(c) \/ Kept(c) \/ Unparked(c) \/ CallerDone(c)
    PROVE  \A d \in Callers : Starts(d, op'[d])
<1>1. CASE \E o : Prepare(c, o)
  BY <1>1, PrepareStarts
<1>2. ASSUME NEW q, op' = [op EXCEPT ![c] = q], q.pc \notin Reviving, q.pc # "cold"
      PROVE  \A d \in Callers : Starts(d, op'[d])
  BY <1>2, Elsewhere DEF Starts
<1>3. CASE ParkListed /\ EnsureLive(c)
  <2> DEFINE o == [NoCall EXCEPT !.init = cur,
                                 !.fromKilled = cur # NoRef /\ status[cur] = "aborted"]
  <2>1. PICK pc \in {"awaitKept", "awaitPark"} : op' = [op EXCEPT ![c] = [o EXCEPT !.pc = pc]]
    BY <1>3 DEF EnsureLive
  <2>2. [o EXCEPT !.pc = pc].pc = pc
    BY DEF NoCall
  <2> QED BY <1>2, <2>1, <2>2 DEF Reviving
<1>4. CASE \/ op' = [op EXCEPT ![c] = [NoCall EXCEPT !.pc = "got", !.ses = attached[cur]]]
           \/ op' = [op EXCEPT ![c] = NoCall]
  <2>1. /\ [NoCall EXCEPT !.pc = "got", !.ses = attached[cur]].pc = "got"
        /\ NoCall.pc = "idle"
    BY DEF NoCall
  <2> QED BY <1>2, <1>4, <2>1 DEF Reviving
<1> QED BY <1>1, <1>3, <1>4 DEF EnsureLive, Kept, Unparked, CallerDone

LEMMA EnsureLiveCleans ==
    ASSUME TInv, RInv, OInv, SInv, RInv', OInv', NEW c \in Callers,
           EnsureLive(c) \/ Kept(c) \/ Unparked(c) \/ CallerDone(c)
    PROVE  SInv'
<1>1. UNCHANGED <<cur, executing, rel, rootGone, disposed, owner, session>>
  BY DEF EnsureLive, Kept, Unparked, CallerDone, registryVars, sessionVars, teardownVars
<1>2. adopted'.ref = adopted.ref /\ adopted'.rooted = adopted.rooted
  <2>1. adopted' = adopted \/ adopted' = [adopted EXCEPT !.timer = TRUE]
    BY DEF EnsureLive, Kept, Unparked, CallerDone
  <2> QED BY <2>1 DEF TInv, MapsOK, Adoption
<1>3. \A d \in Callers : op'[d].pc \in Reviving => op'[d] = op[d] \/ adopted.ref = cur
  BY AskStarts DEF Starts
<1> QED BY <1>1, <1>2, <1>3, CallCleans

\* Nothing is live while a call that never attached, or has rejected, holds the ref.
LEMMA FailsCleans ==
    ASSUME TInv, RInv, OInv, SInv, RInv', OInv', NEW c \in Callers, RevivalFails(c),
           op[c].pc \in {"open", "construct", "reject"} \/ (op[c].pc = "init" /\ ~op[c].cold),
           UNCHANGED <<registryVars, sessionVars, rel, rootGone, disposed, owner>>
    PROVE  SInv'
<1>1. UNCHANGED <<cur, executing, rel, rootGone, disposed, owner, session>>
  BY DEF registryVars, sessionVars
<1>2. NoneMoves /\ op'[c].pc = "idle"
  BY StillSettled DEF RevivalFails
<1>3. \A d \in Callers : op'[d].pc \in Reviving =>
        op[d].pc \in Reviving /\ op'[d].ref = op[d].ref
  BY <1>2 DEF NoneMoves, Reviving, Building, Early, Settled, RevivalFails, NoCall
<1>4. CASE UNCHANGED adopted
  BY <1>1, <1>3, <1>4, CallCleans
<1>5. CASE adopted' = NoAdoption /\ adopted.ref = op[c].ref /\ op[c].pc # "init"
  <2>1. adopted'.ref = NoRef
    BY <1>5 DEF NoAdoption
  <2>2. ASSUME adopted.ref = cur
        PROVE  /\ \A s \in Sessions : session'[s] # "live"
               /\ \A d \in Callers : ~ForCur(d)'
    <3>1. ForCur(c) /\ Bare(c)
      BY <1>5, <2>2 DEF ForCur, Builds, Building, RInv, BareAll
    <3>2. attached[cur] # NoSession => op[c].pc = "reject" /\ attached[cur] = op[c].ses
      BY <1>5, <3>1 DEF Bare
    <3>3. \A s \in Sessions : session[s] # "live"
      BY <3>2, Nothings DEF OInv, OneLive, RInv, Own
    <3>4. \A d \in Callers : ~ForCur(d)'
      BY <1>1, <1>2, <3>1 DEF ForCur, Builds, NoneMoves, Building, RInv, Alone
    <3> QED BY <1>1, <3>3, <3>4
  <2> QED BY <1>1, <1>3, <2>1, <2>2, CallCleans
<1> QED BY <1>4, <1>5 DEF RevivalFails

LEMMA ColdCleans ==
    ASSUME Warm, TInv, RInv, OInv, SInv, RInv', OInv', NEW c \in Callers, Cold(c)
    PROVE  SInv'
<1>1. /\ UNCHANGED <<cur, executing, rel, rootGone, disposed, owner, session>>
      /\ op[c].pc = "cold" /\ MaxRefs = 1
  BY DEF Cold, Warm, registryVars, sessionVars, teardownVars
<1>2. op[c].ref \in Refs /\ (cur # NoRef => op[c].ref = cur)
  BY <1>1 DEF RInv, Born, Builds, Building, TInv, RegistryTypeOK, Refs, NoRef
<1>3. \/ adopted' = adopted
      \/ (~rootGone \/ (~disposed /\ ~adopted'.rooted)) /\ adopted'.ref = op[c].ref
  BY DEF Cold, Gone
<1>4. \A d \in Callers : op'[d].pc \in Reviving =>
        (op[d].pc \in Reviving /\ op'[d].ref = op[d].ref) \/ adopted'.ref = cur
  <2>1. CASE op' = Settled(c, "idle", NoSession)
    BY <2>1 DEF Settled, NoCall, Reviving
  <2>2. CASE /\ op' = [op EXCEPT ![c].pc = "open", ![c].cold = TRUE, ![c].rooted = Rooted]
             /\ cur = op[c].ref /\ adopted'.ref = op[c].ref
    BY <2>2 DEF TInv, CallsOK
  <2> QED BY <2>1, <2>2 DEF Cold
<1> QED BY <1>1, <1>2, <1>3, <1>4, CallCleans

LEMMA ClaimCleans ==
    ASSUME TInv, RInv, OInv, SInv, RInv', OInv', NEW c \in Callers, Claim(c)
    PROVE  SInv'
<1>1. UNCHANGED <<cur, executing, rel, rootGone, disposed, owner, session, adopted>>
  BY DEF Claim, registryVars, sessionVars, teardownVars
<1>2. op[c] \in CallRecord /\ op[c].pc \in Reviving
  BY DEF Claim, TInv, CallsOK, GoodCall, Reviving
<1>3. op'[c].ref = op[c].ref /\ \A d \in Callers : d # c => op'[d] = op[d]
  BY <1>2 DEF Claim, TInv, CallsOK, CallRecord
<1> QED BY <1>1, <1>2, <1>3, CallCleans

\* Who attaches a session to the registered ref has its adoption.
LEMMA ReviverBacked ==
    ASSUME TInv, RInv, OInv, SInv, NEW c \in Callers, ForCur(c), Quiet,
           op[c].pc \in {"open", "construct"}
    PROVE  adopted.ref = cur
<1>1. attached[cur] = NoSession /\ park.ref # cur /\ cur \in Refs
  BY DEF RInv, BareAll, Bare, Born, ForCur
<1>2. \A d \in Callers : ~(op[d].pc = "reject" /\ op[d].ref = cur)
  BY DEF RInv, Alone, ForCur, Builds, Building
<1>3. \A k \in Releases : ~Waits(k)
  BY <1>1, <1>2, NobodyWaits
<1> QED BY <1>3 DEF SInv, Backed, Reviving

LEMMA AttachCleans ==
    ASSUME TInv, RInv, OInv, SInv, RInv', OInv', NEW c \in Callers, Attach(c)
    PROVE  SInv'
<1>1. /\ ForCur(c) /\ op[c].pc = "construct" /\ Quiet
      /\ UNCHANGED <<cur, rel, rootGone, disposed, owner>>
  BY DEF Attach, Attachable, ForCur, Builds, Building, teardownVars
<1>2. adopted'.ref = adopted.ref /\ adopted'.rooted = adopted.rooted
  BY DEF Attach, OnRunning, TInv, MapsOK, Adoption
<1>3. adopted.ref = cur
  BY <1>1, ReviverBacked
<1>4. PICK s \in Sessions : op' = [op EXCEPT ![c].pc = "init", ![c].ses = s]
  BY DEF Attach
<1>5. op'[c].ref = op[c].ref /\ \A d \in Callers : d # c => op'[d] = op[d]
  BY <1>4, CallMoves
<1> QED BY <1>1, <1>2, <1>3, <1>5, AttachedCleans DEF Reviving

\* The new or the own session of c is rejected.
LEMMA RejectedCleans ==
    ASSUME TInv, RInv, OInv, SInv, RInv', OInv', NEW c \in Callers, NEW s,
           \/ op' = [op EXCEPT ![c].pc = "reject", ![c].ses = s]
           \/ op' = [op EXCEPT ![c].pc = "reject"] /\ s = op[c].ses,
           \A t \in Sessions : session'[t] = "live" => session[t] = "live",
           UNCHANGED <<cur, executing, adopted, rel, rootGone, disposed, owner>>
    PROVE  SInv'
<1>1. op'[c].pc = "reject" /\ \A d \in Callers : d # c => op'[d] = op[d]
  BY CallMoves
<1> QED BY <1>1, CallCleans DEF Reviving

LEMMA RefusedCleans ==
    ASSUME TInv, RInv, OInv, SInv, RInv', OInv', NEW c \in Callers,
           AttachRefused(c) \/ InitFails(c)
    PROVE  SInv'
<1>1. CASE AttachRefused(c)
  <2>1. PICK s \in Sessions : /\ session' = [session EXCEPT ![s] = "disposing"]
                              /\ op' = [op EXCEPT ![c].pc = "reject", ![c].ses = s]
    BY <1>1 DEF AttachRefused
  <2>2. \A t \in Sessions : session'[t] = "live" => session[t] = "live"
    BY <2>1 DEF TInv, SessionsOK
  <2>3. UNCHANGED <<cur, executing, adopted, rel, rootGone, disposed, owner>>
    BY <1>1 DEF AttachRefused, registryVars, teardownVars
  <2> QED BY <2>1, <2>2, <2>3, RejectedCleans
<1>2. CASE InitFails(c) /\ RevivalFails(c) /\ UNCHANGED <<status, attached, runGen, session>>
           /\ ~op[c].cold
  BY <1>2, FailsCleans DEF InitFails, registryVars, sessionVars, teardownVars
<1>3. CASE /\ InitFails(c) /\ Dispose(op[c].ses) /\ UNCHANGED adopted
           /\ op' = [op EXCEPT ![c].pc = "reject"]
  <2>1. \A t \in Sessions : session'[t] = "live" => session[t] = "live"
    BY <1>3 DEF Dispose, TInv, SessionsOK
  <2>2. UNCHANGED <<cur, executing, adopted, rel, rootGone, disposed, owner>>
    BY <1>3 DEF InitFails, teardownVars
  <2> QED BY <1>3, <2>1, <2>2, RejectedCleans
<1> QED BY <1>1, <1>2, <1>3 DEF InitFails

LEMMA ReviveCleans ==
    ASSUME TInv, RInv, OInv, SInv, RInv', OInv', NEW c \in Callers, NEW s \in Sessions,
           Revive(c, s), Quiet,
           \/ op[c].pc = "init" /\ s = op[c].ses
           \/ op[c].pc = "open" /\ session[s] = "unborn",
           UNCHANGED <<cur, executing, rel, rootGone, disposed, owner>>
    PROVE  SInv'
<1> DEFINE r == op[c].ref
<1>1. CASE /\ Claimable(r) \/ Adoptable(r, s)
           /\ adopted' = OnIdle(r, adopted)
           /\ op' = Settled(c, "got", s)
           /\ session' = [session EXCEPT ![s] = IF @ = "unborn" THEN "live" ELSE @]
  <2>1. ForCur(c)
    BY <1>1 DEF Claimable, Adoptable, ForCur, Builds, Building
  <2>2. adopted'.ref = adopted.ref /\ adopted'.rooted = adopted.rooted
    BY <1>1 DEF OnIdle, TInv, MapsOK, Adoption
  <2>3. \A d \in Callers : op'[d].pc \in Reviving =>
          op[d].pc \in Reviving /\ op'[d].ref = op[d].ref
    BY <1>1 DEF Settled, NoCall, Reviving
  <2>4. CASE op[c].pc = "open"
    BY <2>1, <2>2, <2>3, <2>4, ReviverBacked, AttachedCleans
  <2>5. CASE op[c].pc = "init" /\ s = op[c].ses
    <3>1. \A t \in Sessions : session'[t] = "live" => session[t] = "live"
      BY <1>1, <2>5 DEF RInv, Own, TInv, SessionsOK
    <3> QED BY <2>2, <2>3, <3>1, CallCleans
  <2> QED BY <2>4, <2>5
<1>2. CASE /\ session' = [session EXCEPT ![s] = IF @ = "disposed" THEN @ ELSE "disposing"]
           /\ op' = [op EXCEPT ![c].pc = "reject", ![c].ses = s]
           /\ UNCHANGED adopted
  <2>1. \A t \in Sessions : session'[t] = "live" => session[t] = "live"
    BY <1>2 DEF TInv, SessionsOK
  <2> QED BY <1>2, <2>1, RejectedCleans
<1> QED BY <1>1, <1>2 DEF Revive

LEMMA ReturnsCleans ==
    ASSUME TInv, RInv, OInv, SInv, RInv', OInv', NEW c \in Callers,
           ReviverReturns(c) \/ SimpleReviverReturns(c)
    PROVE  SInv'
<1>1. CASE ReviverReturns(c)
  <2>1. op[c].ses \in Sessions
    BY <1>1 DEF ReviverReturns, RInv, Own
  <2> QED BY <1>1, <2>1, ReviveCleans DEF ReviverReturns, teardownVars
<1>2. CASE SimpleReviverReturns(c)
  BY <1>2, ReviveCleans DEF SimpleReviverReturns, Unborn, teardownVars
<1> QED BY <1>1, <1>2

LEMMA CallersCleans ==
    ASSUME Warm, TInv, RInv, OInv, SInv, RInv', OInv', NEW c \in Callers,
           EnsureLive(c) \/ CallerSteps(c) \/ CallerDone(c)
    PROVE  SInv'
<1>1. ASSUME ReviverFails(c) \/ Reject(c) PROVE SInv'
  BY <1>1, FailsCleans DEF ReviverFails, Reject, teardownVars
<1> QED BY <1>1, EnsureLiveCleans, NeverReopens, ColdCleans, ClaimCleans, AttachCleans,
           RefusedCleans, ReturnsCleans DEF CallerSteps, ReviverSteps

-----------------------------------------------------------------------------
(* Turns, hand-over, disposals and parks.                                      *)

LEMMA TurnsCleans ==
    ASSUME TInv, RInv, OInv, SInv, RInv', OInv', RunStarts \/ RunEnds
    PROVE  SInv'
<1>1. UNCHANGED <<cur, executing, rel, rootGone, disposed, owner>> /\ UNCHANGED <<session, op>>
  BY DEF RunStarts, RunEnds, sessionVars, teardownVars
<1>2. adopted'.ref = adopted.ref /\ adopted'.rooted = adopted.rooted
  BY DEF RunStarts, RunEnds, OnRunning, OnIdle, TInv, MapsOK, Adoption
<1> QED BY <1>1, <1>2, CallCleans

LEMMA AdoptCleans ==
    ASSUME TInv, RInv, OInv, SInv, RInv', OInv', Adopt
    PROVE  SInv'
<1>1. /\ UNCHANGED <<cur, rel, rootGone, disposed, owner, op>>
      /\ executing' = NoSession /\ executing \in Sessions
  BY DEF Adopt, teardownVars, TInv, SessionsOK
<1>2. \/ adopted' = adopted
      \/ (~rootGone \/ (~disposed /\ ~adopted'.rooted)) /\ adopted'.ref = cur
  <2> DEFINE rooted == owner \/ Rooted
  <2>1. \/ adopted' = adopted
        \/ adopted'.rooted = rooted /\ ~Gone(rooted) /\ adopted'.ref = cur
    BY DEF Adopt
  <2>2. rooted \in BOOLEAN
    OBVIOUS
  <2> HIDE DEF rooted
  <2> QED BY <2>1, <2>2 DEF Gone
<1>3. Orderly'
  BY <1>1, <1>2, TeardownSame DEF NothingNew
<1>4. CASE cur = NoRef
  BY <1>1, <1>3, <1>4, ForgottenCleans
<1>5. CASE cur # NoRef
  <2>1. CASE adopted'.ref = cur /\ UNCHANGED session
    BY <1>1, <1>3, <2>1, CleanKept DEF Waits
  <2>2. CASE disposed /\ ~owner /\ UNCHANGED <<session, adopted>>
    BY <1>1, <1>3, <2>2, CleanKept DEF Waits
  <2>3. CASE Dispose(executing) /\ UNCHANGED adopted
    <3>1. \A s \in Sessions : session'[s] = "live" => session[s] = "live" /\ s # executing
      BY <1>1, <2>3, Nothings DEF Dispose, TInv, SessionsOK
    <3>2. \A s \in Sessions : session'[s] = "live" =>
            adopted'.ref = cur \/ (disposed /\ ~owner)
      BY <2>3, <3>1 DEF SInv, Entrusted
    <3> QED BY <1>1, <1>3, <2>3, <3>1, <3>2, CleanKept DEF Waits
  <2> QED BY <2>1, <2>2, <2>3 DEF Adopt
<1> QED BY <1>4, <1>5

LEMMA ForgetsCleans ==
    ASSUME SInv, RInv', OInv', cur' = NoRef, adopted' = OnRemoved(cur, adopted),
           UNCHANGED <<rootGone, disposed>>,
           "teardown" \in Releases =>
             rel'["teardown"] = rel["teardown"] \/ rel["teardown"].pc = "dispose"
    PROVE  SInv'
<1>1. NothingNew
  BY DEF OnRemoved, NoAdoption, NothingNew
<1>2. MaxRefs = 1 \/ adopted'.ref = NoRef \/ disposed'
  BY DropsAdoption
<1>3. Orderly'
  BY <1>1, <1>2, TeardownKept
<1> QED BY <1>3, ForgottenCleans

LEMMA SessionDisposedCleans ==
    ASSUME TInv, RInv, OInv, SInv, RInv', OInv', NEW s \in Sessions, SessionDisposed(s)
    PROVE  SInv'
<1>1. UNCHANGED <<executing, rel, rootGone, disposed, owner, op>>
  BY DEF SessionDisposed, teardownVars
<1>2. CASE UNCHANGED <<cur, adopted>>
  <2>1. \A t \in Sessions : session'[t] = "live" => session[t] = "live"
    BY DEF SessionDisposed, TInv, SessionsOK
  <2> QED BY <1>1, <1>2, <2>1, CallCleans
<1>3. CASE cur' = NoRef /\ adopted' = OnRemoved(cur, adopted)
  BY <1>1, <1>3, ForgetsCleans
<1> QED BY <1>2, <1>3 DEF SessionDisposed

LEMMA ParkEndsCleans ==
    ASSUME TInv, RInv, OInv, SInv, RInv', OInv', ParkEnds,
           UNCHANGED <<registryVars, sessionVars, adopted, teardownVars>>
    PROVE  SInv'
<1>1. UNCHANGED <<cur, executing, session, rootGone, disposed, owner>>
  BY DEF registryVars, sessionVars, teardownVars
<1>2. \A k \in Releases :
        \/ rel'[k] = rel[k]
        \/ rel[k].pc = "awaitPark" /\ rel'[k].pc = "go" /\ rel'[k].ref = rel[k].ref
  BY DEF ParkEnds, TInv, ReleasesOK, GoodRelease, ReleaseRecord
<1>3. Orderly'
  BY <1>1, <1>2, TeardownKept DEF NothingNew
<1>4. \A k \in Releases : Waits(k) => Waits(k)'
  BY <1>1, <1>2 DEF Waits
<1>5. \A c \in Callers : op'[c].pc \in Reviving => op'[c] = op[c]
  <2>1. \A c \in Callers : op[c] \in CallRecord
    BY DEF TInv, CallsOK, GoodCall
  <2> QED BY <2>1 DEF ParkEnds, ParkAwaited, Reviving, CallRecord
<1>6. CASE cur = NoRef
  BY <1>1, <1>3, <1>6, ForgottenCleans
<1>7. CASE cur # NoRef
  BY <1>1, <1>3, <1>4, <1>5, <1>7, CleanKept
<1> QED BY <1>6, <1>7

LEMMA ParksCleans ==
    ASSUME TInv, RInv, OInv, SInv, RInv', OInv',
           TimerFires \/ ParkCommits \/ ParkFinishes \/ DisposeEnds
    PROVE  SInv'
<1>1. CASE TimerFires \/ DisposeEnds
  <2>1. UNCHANGED <<cur, executing, rel, rootGone, disposed, owner>> /\ UNCHANGED <<session, op>>
    BY <1>1 DEF TimerFires, DisposeEnds, registryVars, sessionVars, teardownVars
  <2>2. adopted'.ref = adopted.ref /\ adopted'.rooted = adopted.rooted
    BY <1>1 DEF TimerFires, DisposeEnds, TInv, MapsOK, Adoption
  <2> QED BY <2>1, <2>2, CallCleans
<1>2. CASE ParkCommits /\ Dispose(park.ses) /\ UNCHANGED <<op, rel>>
  <2>1. UNCHANGED <<cur, executing, rel, rootGone, disposed, owner, op, adopted>>
    BY <1>2 DEF ParkCommits, teardownVars
  <2>2. \A t \in Sessions : session'[t] = "live" => session[t] = "live"
    BY <1>2 DEF Dispose, TInv, SessionsOK
  <2> QED BY <2>1, <2>2, CallCleans
<1>3. CASE ParkCommits /\ ParkEnds /\ UNCHANGED <<attached, status, runGen, session>>
  BY <1>3, ParkEndsCleans DEF ParkCommits, registryVars, sessionVars
<1>4. CASE ParkFinishes
  BY <1>4, ParkEndsCleans DEF ParkFinishes
<1> QED BY <1>1, <1>2, <1>3, <1>4 DEF ParkCommits

-----------------------------------------------------------------------------
(* Releases and spawns.                                                     *)

\* A release that takes the session of the ref answers for its disposal.
LEMMA TakeDownCleans ==
    ASSUME TInv, RInv, OInv, SInv, RInv', OInv', NEW k \in Releases, k # "kill" \/ Spared',
           rel[k].pc # "dispose", NEW r \in Refs, NEW g, NEW a \in Adoption,
           a.ref = adopted.ref, TakeDown(k, r, g, a), UNCHANGED <<cur, executing, op, owner>>,
           disposed => disposed', Orderly'
    PROVE  SInv'
<1>1. /\ k # "kill" => rel'[k].pc = "dispose" /\ rel'[k].ref = r
      /\ \A j \in Releases : j # k => rel'[j] = rel[j]
      /\ ~(k = "kill" /\ cur = r)
  BY TakeDownMisses DEF TakeDown, TInv, ReleasesOK
<1>2. \A j \in Releases : Waits(j) => Waits(j)'
  BY <1>1 DEF Waits
<1>3. CASE cur = NoRef
  BY <1>3, ForgottenCleans
<1>4. CASE cur # NoRef /\ r = cur
  <2>1. Waits(k)' /\ \E j \in Releases : Waits(j)'
    BY <1>1, <1>4 DEF Waits
  <2>2. Dispose(attached[cur])
    BY <1>1, <1>4 DEF TakeDown
  <2>3. \A s \in Sessions : session'[s] # "live"
    BY <2>2, Nothings DEF Dispose, OInv, OneLive, TInv, SessionsOK
  <2> QED BY <1>2, <2>1, <2>3, CleanKept
<1>5. CASE cur # NoRef /\ r # cur
  <2>1. UNCHANGED session
    BY <1>5 DEF TakeDown, Dispose
  <2>2. MaxRefs # 1
    BY <1>5 DEF Refs, TInv, RegistryTypeOK
  <2>3. adopted.ref \in {cur, NoRef}
    BY <1>5, <2>2 DEF SInv, Orderly, Current
  <2>4. adopted' = a
    BY <1>5, <2>3, Nothings DEF TakeDown
  <2> QED BY <1>2, <2>1, <2>4, CleanKept
<1> QED BY <1>3, <1>4, <1>5

LEMMA StartReleaseCleans ==
    ASSUME TInv, RInv, OInv, SInv, RInv', OInv', NEW k \in Releases, k # "kill" \/ Spared',
           rel[k].pc = "idle", NEW r \in Refs, StartRelease(k, r),
           UNCHANGED <<cur, executing, op, owner>>, disposed => disposed', Orderly'
    PROVE  SInv'
<1> DEFINE a == IF adopted.ref = r THEN [adopted EXCEPT !.timer = FALSE] ELSE adopted
<1>1. a \in Adoption /\ a.ref = adopted.ref
  BY DEF TInv, MapsOK, Adoption
<1> HIDE DEF a
<1>2. CASE adopted' = a /\ UNCHANGED session
           /\ \E n : rel' = [rel EXCEPT ![k] = n]
  <2>1. \A j \in Releases : Waits(j) => Waits(j)'
    BY <1>2 DEF Waits, TInv, ReleasesOK
  <2> QED BY <1>1, <1>2, <2>1, CleanKept
<1>3. CASE TakeDown(k, r, runGen[r], a)
  BY <1>1, <1>3, TakeDownCleans
<1> QED BY <1>2, <1>3 DEF StartRelease, a

LEMMA KillCleans ==
    ASSUME TInv, RInv, OInv, SInv, RInv', OInv', Spared', Kill
    PROVE  SInv'
<1>1. cur \in Refs /\ "kill" \in Releases /\ rel["kill"].pc = "idle"
  BY DEF Kill, TInv, RegistryTypeOK
<1>2. /\ StartRelease("kill", cur)
      /\ UNCHANGED <<cur, executing, op, rootGone, disposed, owner>>
  BY DEF Kill, teardownVars
<1>3. Releasing("kill")
  BY <1>1, <1>2, StartReleaseParts
<1>4. Orderly'
  BY <1>2, <1>3, TeardownKept DEF Releasing, NothingNew
<1> QED BY <1>1, <1>2, <1>4, StartReleaseCleans

LEMMA CancelCleans ==
    ASSUME TInv, RInv, OInv, SInv, RInv', OInv', Cancel
    PROVE  SInv'
<1>1. adopted.ref \in Refs /\ "cancel" \in Releases /\ rel["cancel"].pc = "idle"
  BY DEF Cancel, TInv, MapsOK, Adoption
<1>2. /\ StartRelease("cancel", adopted.ref)
      /\ UNCHANGED <<cur, executing, op, rootGone, disposed, owner>>
  BY DEF Cancel, teardownVars
<1>3. Releasing("cancel")
  BY <1>1, <1>2, StartReleaseParts
<1>4. Orderly'
  BY <1>2, <1>3, TeardownKept DEF Releasing, NothingNew
<1> QED BY <1>1, <1>2, <1>4, StartReleaseCleans

LEMMA ReleaseGoesCleans ==
    ASSUME TInv, RInv, OInv, SInv, RInv', OInv', Spared',
           NEW k \in Releases, ReleaseGoes(k)
    PROVE  SInv'
<1> DEFINE r == rel[k].ref
<1>1. /\ UNCHANGED <<cur, executing, op, rootGone, disposed, owner, park>> /\ rel[k].pc = "go"
      /\ r \in Refs /\ adopted \in Adoption
      /\ k \in {"teardown", "cancel", "kill"}
  BY ConstantsAssumption DEF ReleaseGoes, teardownVars, TInv, ReleasesOK, GoodRelease, MapsOK
<1>2. CASE TakeDown(k, r, rel[k].gen, adopted)
  <2>1. Releasing(k) /\ adopted'.ref # r
    BY <1>1, <1>2, TakeDownParts
  <2>2. k = "teardown" => adopted'.ref = NoRef \/ (~disposed /\ ~adopted'.rooted)
    BY <1>1, <2>1 DEF Releasing, SInv, Orderly, Gathered, Ahead
  <2>3. Orderly'
    BY <1>1, <2>1, <2>2, TeardownKept DEF Releasing, NothingNew
  <2> QED BY <1>1, <1>2, <2>3, TakeDownCleans
<1>3. CASE /\ k = "cancel" /\ rel' = [rel EXCEPT ![k] = ReleaseDone]
           /\ UNCHANGED <<session, adopted>>
  <2>1. \A j \in Releases : j # k => rel'[j] = rel[j]
    BY <1>3 DEF TInv, ReleasesOK
  <2>2. Orderly'
    BY <1>1, <1>3, <2>1, TeardownKept DEF NothingNew
  <2>3. \A j \in Releases : Waits(j) => Waits(j)'
    BY <1>1, <2>1 DEF Waits
  <2> QED BY <1>1, <1>3, <2>2, <2>3, CleanKept
<1> QED BY <1>2, <1>3 DEF ReleaseGoes

LEMMA PersistedCleans ==
    ASSUME TInv, RInv, OInv, SInv, RInv', OInv', NEW k \in Releases, Persisted(k)
    PROVE  SInv'
<1>1. /\ UNCHANGED <<cur, executing, adopted, op, rootGone, disposed, owner>> /\ rel[k].pc = "persist"
      /\ \A j \in Releases : j # k => rel'[j] = rel[j]
  BY DEF Persisted, registryVars, teardownVars, TInv, ReleasesOK
<1>2. k = "kill"
  BY <1>1 DEF OInv, Unowned
<1>3. \A t \in Sessions : session'[t] = "live" => session[t] = "live"
  BY DEF Persisted, Dispose, TInv, SessionsOK
<1>4. Orderly'
  BY <1>1, <1>2, TeardownKept DEF NothingNew
<1>5. \A j \in Releases : Waits(j) => Waits(j)'
  BY <1>1, <1>2 DEF Waits
<1> QED BY <1>1, <1>3, <1>4, <1>5, CleanKept

\* A release that is done has forgotten the ref.
LEMMA ReleasedCleans ==
    ASSUME TInv, RInv, OInv, SInv, RInv', OInv',
           NEW k \in Releases, Released(k)
    PROVE  SInv'
<1>1. /\ UNCHANGED <<executing, session, op, rootGone, disposed, owner>> /\ rel[k].pc = "dispose"
      /\ \A j \in Releases : j # k => rel'[j] = rel[j]
  BY DEF Released, sessionVars, teardownVars, TInv, ReleasesOK
<1>2. CASE cur' = NoRef /\ adopted' = OnRemoved(cur, adopted)
  BY <1>1, <1>2, ForgetsCleans
<1>3. CASE (k = "kill" \/ cur # rel[k].ref) /\ UNCHANGED <<cur, adopted>>
  <2>1. Orderly'
    BY <1>1, <1>3, TeardownKept DEF NothingNew
  <2>2. \A j \in Releases : Waits(j) => Waits(j)'
    BY <1>1, <1>3 DEF Waits
  <2> QED BY <1>1, <1>3, <2>1, <2>2, CleanKept
<1> QED BY <1>2, <1>3 DEF Released

LEMMA DisposeRootCleans ==
    ASSUME TInv, RInv, OInv, SInv, RInv', OInv', NEW other \in BOOLEAN, DisposeRoot(other)
    PROVE  SInv'
<1> DEFINE byId == IF cur # NoRef THEN cur ELSE adopted.ref
           target == IF other THEN IF adopted.rooted \/ Rooted THEN adopted.ref ELSE NoRef
                     ELSE IF adopted.ref # NoRef \/ ParkListed THEN byId ELSE NoRef
<1>1. /\ "teardown" \in Releases /\ rel["teardown"].pc = "idle" /\ rootGone'
      /\ UNCHANGED <<cur, executing, op, owner>>
  BY DEF DisposeRoot, SInv, Orderly, Ahead
<1>2. Ahead' /\ ~disposed /\ (disposed' <=> ~other)
  BY <1>1 DEF Ahead, DisposeRoot, RInv, TornDown
<1>3. CASE target = NoRef /\ UNCHANGED <<session, adopted>>
           /\ rel' = [rel EXCEPT !["teardown"] = ReleaseDone]
  <2>1. Gathered' /\ Current'
    BY <1>1, <1>2, <1>3 DEF Gathered, SInv, Orderly, Current
  <2>2. \A j \in Releases : Waits(j) => Waits(j)'
    BY <1>1, <1>3 DEF Waits, TInv, ReleasesOK
  <2> QED BY <1>1, <1>2, <1>3, <2>1, <2>2, CleanKept DEF Orderly
<1>4. CASE target # NoRef /\ StartRelease("teardown", target)
  <2>1. /\ adopted.ref \in Refs \cup {NoRef} /\ cur \in Refs \cup {NoRef}
        /\ target \in Refs
    BY <1>4 DEF TInv, RegistryTypeOK, MapsOK, Adoption
  <2>2. adopted.ref \in {target, NoRef}
    BY <1>2, <1>4, <2>1 DEF SInv, Orderly, Current, Refs
  <2> HIDE DEF target
  <2>3. /\ Releasing("teardown")
        /\ adopted'.ref = target =>
             rel'["teardown"].pc = "awaitPark" /\ rel'["teardown"].ref = target
    BY <1>1, <1>4, <2>1, StartReleaseParts
  <2>4. Gathered' /\ Current'
    BY <1>1, <1>2, <2>2, <2>3 DEF Releasing, Gathered, SInv, Orderly, Current
  <2> QED BY <1>1, <1>2, <1>4, <2>1, <2>4, StartReleaseCleans DEF Orderly
<1> QED BY <1>3, <1>4 DEF DisposeRoot

LEMMA SpawnsCleans ==
    ASSUME TInv, RInv, OInv, SInv, RInv', OInv', Spawn \/ SpawnProbed
    PROVE  SInv'
<1>1. /\ UNCHANGED <<executing, session, adopted, op, rel, rootGone, disposed>>
      /\ disposed => UNCHANGED owner
  BY DEF Spawn, SpawnProbed, sessionVars, teardownVars
<1>2. CASE /\ SpawnRegisters /\ (cur # NoRef => attached[cur] = NoSession)
           /\ (cur = NoRef /\ ~disposed) \/ adopted.ref = NoRef
  <2>1. Orderly'
    BY <1>1, <1>2, TeardownSame DEF NothingNew, SInv, Orderly, Current
  <2>2. Entrusted'
    BY <1>1, <1>2, Nothings DEF OInv, OneLive, Entrusted
  <2>3. status[cur'] = "none"
    BY <1>2 DEF SpawnRegisters, Register, Fresh
  <2>4. NoneStarts
    BY <1>1, StillSame, Still
  <2>5. Backed'
    BY <2>3, <2>4, Nothings, NobodyBuilds DEF Backed
  <2> QED BY <2>1, <2>2, <2>5 DEF SInv
<1>3. CASE UNCHANGED registryVars
  <2>1. UNCHANGED cur /\ Orderly'
    BY <1>1, <1>3, TeardownSame DEF registryVars, NothingNew, SInv, Orderly, Current
  <2> QED
    BY <1>1, <2>1 DEF SInv, Entrusted, Backed, ForCur, Builds, Waits
<1> QED BY <1>2, <1>3 DEF Spawn, SpawnProbed, DeadCorpse

LEMMA SpawnAttachesCleans ==
    ASSUME TInv, RInv, OInv, SInv, RInv', OInv', SpawnAttaches
    PROVE  SInv'
<1>1. UNCHANGED <<cur, adopted, op, rel, rootGone, disposed, owner>>
  BY DEF SpawnAttaches, teardownVars
<1>2. cur \in Refs /\ attached'[cur] = executing'
  BY DEF SpawnAttaches, Attachable, AttachSession, RInv, Spawning, TInv, RegistryTypeOK
<1> QED BY <1>1, <1>2, AttachedCleans

LEMMA SpawnFailsCleans ==
    ASSUME TInv, RInv, OInv, SInv, RInv', OInv', SpawnFails
    PROVE  SInv'
<1>1. UNCHANGED <<executing, session, op, rel, rootGone, disposed, owner>>
  BY DEF SpawnFails, sessionVars, teardownVars
<1>2. CASE UNCHANGED <<cur, adopted>>
  BY <1>1, <1>2, CallCleans
<1>3. CASE cur' = NoRef /\ adopted' = OnRemoved(cur, adopted)
  BY <1>1, <1>3, ForgetsCleans
<1> QED BY <1>2, <1>3 DEF SpawnFails

LEMMA LinksCleans ==
    ASSUME TInv, RInv, OInv, SInv, RInv', OInv', LinksMove
    PROVE  SInv'
<1>1. UNCHANGED <<cur, executing, session, adopted, op, rel, rootGone, disposed, owner>>
  BY OnlyLinksMove
<1> QED BY <1>1, CallCleans

LEMMA StepSInv ==
    ASSUME Spared', Warm, TInv, RInv, OInv, SInv, RInv', OInv', [Next]_vars
    PROVE  SInv'
<1>1. CASE UNCHANGED vars
  <2>1. UNCHANGED <<cur, executing, session, adopted, op, rel, rootGone, disposed, owner>>
    BY <1>1 DEF vars, registryVars, sessionVars, teardownVars
  <2> QED BY <2>1, CallCleans
<1>2. CASE Next
  BY <1>2, CallersCleans, TurnsCleans, AdoptCleans, SessionDisposedCleans, ParksCleans,
     KillCleans, CancelCleans, ReleaseGoesCleans, PersistedCleans, ReleasedCleans,
     DisposeRootCleans, SpawnsCleans, SpawnAttachesCleans, SpawnFailsCleans, LinksCleans DEF Next, LinksMove
<1> QED BY <1>1, <1>2

\* The factory is only ever taken away, and a cold revival needs it to start.
LEMMA StepWarm == ASSUME Warm, TInv, RInv, [Next]_vars PROVE Warm'
<1> SUFFICES ASSUME ~factory, \A c \in Callers : op[c].pc # "cold"
             PROVE  ~factory' /\ \A c \in Callers : op'[c].pc # "cold"
  BY DEF Warm
<1>1. CASE UNCHANGED vars
  BY <1>1 DEF vars, teardownVars
<1>2. ASSUME NEW c \in Callers, EnsureLive(c) \/ CallerSteps(c) \/ CallerDone(c)
      PROVE  ~factory' /\ \A d \in Callers : op'[d].pc # "cold"
  <2>1. CASE EnsureLive(c) \/ Kept(c) \/ Unparked(c) \/ CallerDone(c)
    <3>1. ~factory'
      BY <2>1 DEF EnsureLive, Kept, Unparked, CallerDone, teardownVars
    <3> QED BY <2>1, <3>1, AskStarts DEF Starts
  <2>2. CASE ReviverSteps(c) \/ Reject(c)
    <3>1. ~factory'
      BY <2>2 DEF ReviverSteps, Claim, ReviverFails, Attach, AttachRefused, InitFails,
                  ReviverReturns, SimpleReviverReturns, Reject, teardownVars
    <3>2. ASSUME NEW pc \in {"idle", "got"}, NEW s, op' = Settled(c, pc, s)
          PROVE  \A d \in Callers : op'[d].pc # "cold"
      BY <3>2 DEF Settled, NoCall
    <3>3. ASSUME NEW pc \in {"construct", "init", "reject"}, NEW s,
                 \/ op' = [op EXCEPT ![c].pc = pc, ![c].ses = s]
                 \/ op' = [op EXCEPT ![c].pc = pc] /\ s = op[c].ses
          PROVE  \A d \in Callers : op'[d].pc # "cold"
      BY <3>3, CallMoves
    <3>4. ASSUME NEW s, Revive(c, s) PROVE \A d \in Callers : op'[d].pc # "cold"
      BY <3>2, <3>3, <3>4 DEF Revive
    <3> QED BY <2>2, <3>1, <3>2, <3>3, <3>4
            DEF ReviverSteps, Claim, ReviverFails, Attach, AttachRefused, InitFails,
                ReviverReturns, SimpleReviverReturns, Reject, RevivalFails
  <2> QED BY <1>2, <2>1, <2>2, NeverReopens DEF CallerSteps, Cold
<1>3. CASE UNCHANGED op /\ (factory' = factory \/ factory' = FALSE)
  BY <1>3
<1>4. CASE ParkEnds /\ UNCHANGED factory
  <2>1. \A c \in Callers : op[c] \in CallRecord
    BY DEF TInv, CallsOK, GoodCall
  <2> QED BY <1>4, <2>1 DEF ParkEnds, ParkAwaited, CallRecord
<1>5. CASE RunStarts \/ RunEnds \/ Adopt \/ (\E s \in Sessions : SessionDisposed(s))
           \/ TimerFires \/ Cancel \/ Kill \/ DisposeEnds
           \/ (\E k \in Releases : ReleaseGoes(k) \/ Persisted(k) \/ Released(k))
  BY <1>3, <1>5
     DEF RunStarts, RunEnds, Adopt, SessionDisposed, TimerFires, Cancel, Kill, DisposeEnds,
         ReleaseGoes, Persisted, Released, teardownVars
<1>6. CASE (\E other \in BOOLEAN : DisposeRoot(other))
           \/ Spawn \/ SpawnProbed \/ SpawnAttaches \/ SpawnFails
  BY <1>3, <1>6 DEF DisposeRoot, Spawn, SpawnProbed, SpawnAttaches, SpawnFails, teardownVars
<1>7. CASE ParkCommits \/ ParkFinishes
  BY <1>3, <1>4, <1>7 DEF ParkCommits, ParkFinishes, teardownVars
<1>8. CASE LinksMove
  BY <1>3, <1>8, OnlyLinksMove
<1> QED BY <1>1, <1>2, <1>5, <1>6, <1>7, <1>8 DEF Next, LinksMove

LEMMA DoomedLeavesNone == Ended /\ Doomed => OnlyRootlessSurvive
  BY DEF Ended, Doomed, OnlyRootlessSurvive, InFlight

AllTornDown == \/ Succeeded \/ (Spared /\ RInv /\ OInv /\ SInv /\ Warm) \/ (Ended /\ Doomed)

LEMMA AllTornDownStep ==
    ASSUME TInv, Inv, Ranked, AllTornDown, [Next]_vars
    PROVE  AllTornDown'
<1>1. CASE Succeeded \/ (Ended /\ Doomed)
  BY <1>1, SucceededKept, EndedKept DEF AllTornDown
<1>2. CASE Spared /\ RInv /\ OInv /\ SInv /\ Warm
  BY <1>2, SparedStep, StepSInv, StepWarm DEF AllTornDown
<1> QED BY <1>1, <1>2 DEF AllTornDown

\* Once the root is torn down and everything in flight has settled, the only session of an
\* agent that may be live is the one attached to the registered ref, and only if nobody could
\* tell the agent's root: the manager is disposed and the executor that spawned it did not
\* know the root, or another root is live and the adoption was made while rootOf found none
\* (LifecycleRootless.cfg).  That holds until a fresh ref succeeds a killed one, of an agent
\* that owns no worktree, whose id is used once or whom no factory revives cold.  The code
\* needs the last condition: a cold revive that comes back after its ref has lost the id adopts that
\* ref all the same (LifecycleClobber.cfg), and disposeRoot then releases it and misses the
\* live session of the newer one.  With a worktree the orphan of LifecycleOrphan.cfg is
\* what is left.
THEOREM TornDownUntilReopened ==
    ASSUME Lone
    PROVE  Spec /\ (MaxRefs = 1 \/ ~factory) => [](Succeeded \/ OnlyRootlessSurvive)
<1>1. Init /\ (MaxRefs = 1 \/ ~factory) => TInv /\ Inv /\ Ranked /\ AllTornDown
  <2>1. Init => \A c \in Callers : op[c].pc = "idle"
    BY DEF Init, NoCall
  <2> QED BY <2>1, InitTInv, InitInv, InitRanked, InitRInv, InitOInv, InitSInv
          DEF Warm, AllTornDown
<1>2. TInv /\ Inv /\ Ranked /\ AllTornDown /\ [Next]_vars =>
        (TInv /\ Inv /\ Ranked /\ AllTornDown)'
  BY StepTInv, StepInv, RankedKept, AllTornDownStep
<1>3. TInv /\ Inv /\ Ranked /\ AllTornDown => Succeeded \/ OnlyRootlessSurvive
  BY SInvLeavesRootless, DoomedLeavesNone DEF AllTornDown
<1> QED BY <1>1, <1>2, <1>3, PTL DEF Spec

\* No other session of an agent is live once its root is torn down and all has settled, if
\* nobody kills it or its id is used once.
THEOREM TornDownClean ==
    ASSUME Unsucceedable, Lone
    PROVE  Spec /\ (MaxRefs = 1 \/ ~factory) => []OnlyRootlessSurvive
  BY TornDownUntilReopened, NeverSucceeded, PTL
===============================================================================
