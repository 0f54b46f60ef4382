---------------------- MODULE AgentLifecycleTypeProofs ----------------------
(***************************************************************************)
(* Type correctness of the lifecycle, and what ensureLive hands out, for    *)
(* every number of callers, refs and sessions and every kind of release.    *)
(*                                                                         *)
(* TypeOK is not inductive: a call that comes back from a reopen reads the  *)
(* session of the ref it names, and a release that awaited a park that of   *)
(* the ref it was asked for.  GoodCall and GoodRelease say at which program *)
(* counters these name an object.                                          *)
(***************************************************************************)
EXTENDS AgentLifecycle, TLAPS

CallRecord == [pc : CallerPcs, init : Refs \cup {NoRef}, fromKilled : BOOLEAN,
               ref : Refs \cup {NoRef}, ses : Sessions \cup {NoSession},
               cold : BOOLEAN, rooted : BOOLEAN, mate : SUBSET Callers]
ReleaseRecord == [pc : ReleasePcs, ref : Refs \cup {NoRef},
                  ses : Sessions \cup {NoSession}, owned : BOOLEAN, gen : Nat]
Adoption == [ref : Refs \cup {NoRef}, revive : BOOLEAN, cold : BOOLEAN,
             owned : BOOLEAN, timer : BOOLEAN, rooted : BOOLEAN]
Park == [ref : Refs \cup {NoRef}, ses : Sessions \cup {NoSession},
         cancelled : BOOLEAN, detached : BOOLEAN, listed : BOOLEAN]

GoodCall(o) ==
    /\ o \in CallRecord
    /\ o.pc \in {"reopened", "cold", "open", "construct", "init"} => o.ref \in Refs
    /\ o.pc = "init" => o.ses \in Sessions
    /\ o.pc = "unmark" => o.init \in Refs

GoodRelease(k) ==
    /\ k \in ReleaseRecord
    /\ k.pc \in {"awaitPark", "go"} => k.ref \in Refs

CallsOK(f) == f = [c \in Callers |-> f[c]] /\ \A c \in Callers : GoodCall(f[c])
ReleasesOK(f) == f = [k \in Releases |-> f[k]] /\ \A k \in Releases : GoodRelease(f[k])

SessionsOK == /\ session \in [Sessions -> {"unborn", "live", "disposing", "disposed"}]
              /\ claim \in [Sessions -> Refs \cup {NoRef}]
              /\ ready \in SUBSET Sessions
              /\ executing \in Sessions \cup {NoSession}
MapsOK == /\ adopted \in Adoption
          /\ park \in Park
          /\ revival \in SUBSET Callers
          /\ reopening \in SUBSET Callers
FlagsOK == /\ factory \in BOOLEAN
           /\ rootGone \in BOOLEAN
           /\ disposed \in BOOLEAN
           /\ lineage \in {"root", "broken", "gone"}
           /\ owner \in BOOLEAN
           /\ tombstone \in BOOLEAN
SpawnOK == spawn \in [pc : {"idle", "probe", "construct"}, ref : Refs \cup {NoRef}]

TInv == /\ RegistryTypeOK /\ SessionsOK /\ MapsOK /\ FlagsOK /\ SpawnOK
        /\ CallsOK(op) /\ ReleasesOK(rel)

-----------------------------------------------------------------------------
(* Records and functions of the right kind.                                 *)

LEMMA IdleCall == GoodCall(NoCall) /\ NoCall.mate = {}
  BY DEF GoodCall, NoCall, CallRecord, CallerPcs, NoRef, NoSession

LEMMA CallAt ==
    ASSUME NEW pc \in CallerPcs, NEW r \in Refs \cup {NoRef},
           NEW s \in Sessions \cup {NoSession}, NEW mate \in SUBSET Callers,
           NEW rooted \in BOOLEAN,
           pc \in {"reopened", "cold", "open", "construct", "init"} => r \in Refs,
           pc # "init", pc # "unmark"
    PROVE  /\ GoodCall([NoCall EXCEPT !.pc = pc, !.ref = r])
           /\ GoodCall([NoCall EXCEPT !.pc = pc, !.ref = r, !.rooted = rooted])
           /\ GoodCall([NoCall EXCEPT !.pc = pc, !.ref = r, !.mate = mate])
           /\ pc \notin {"reopened", "cold", "open", "construct"} =>
                GoodCall([NoCall EXCEPT !.pc = pc, !.ses = s])
  BY DEF GoodCall, NoCall, CallRecord, CallerPcs, NoRef, NoSession

LEMMA OneCall ==
    ASSUME CallsOK(op), NEW c \in Callers, NEW o, GoodCall(o),
           op' = [op EXCEPT ![c] = o]
    PROVE  CallsOK(op')
  BY DEF CallsOK

LEMMA SettledCalls ==
    ASSUME CallsOK(op), NEW c \in Callers, NEW pc, NEW s,
           GoodCall([NoCall EXCEPT !.pc = pc, !.ses = s]), op' = Settled(c, pc, s)
    PROVE  CallsOK(op')
  BY DEF CallsOK, Settled

LEMMA ReopenSettledCalls ==
    ASSUME CallsOK(op), NEW c \in Callers, NEW pc, NEW r,
           GoodCall([NoCall EXCEPT !.pc = pc, !.ref = r]), op' = ReopenSettled(c, pc, r)
    PROVE  CallsOK(op')
  BY DEF CallsOK, ReopenSettled

LEMMA OneRelease ==
    ASSUME ReleasesOK(rel), NEW k \in Releases, NEW q, GoodRelease(q),
           rel' = [rel EXCEPT ![k] = q]
    PROVE  ReleasesOK(rel')
  BY DEF ReleasesOK

LEMMA DoneRelease == GoodRelease(NoRelease) /\ GoodRelease(ReleaseDone)
  BY DEF GoodRelease, NoRelease, ReleaseDone, ReleaseRecord, ReleasePcs, NoRef, NoSession

LEMMA ParkEndsOK ==
    ASSUME TInv, ParkEnds
    PROVE  park' \in Park /\ CallsOK(op') /\ ReleasesOK(rel')
<1>1. park' \in Park
  BY DEF ParkEnds, NoPark, Park, NoRef, NoSession
<1>2. CallsOK(op')
  BY DEF ParkEnds, ParkAwaited, TInv, CallsOK, GoodCall, CallRecord, CallerPcs
<1>3. ReleasesOK(rel')
  BY DEF ParkEnds, TInv, ReleasesOK, GoodRelease, ReleaseRecord, ReleasePcs
<1> QED BY <1>1, <1>2, <1>3

-----------------------------------------------------------------------------
(* The parts of ensureLive.                                                 *)

LEMMA ThrowsOK == ASSUME TInv, NEW c \in Callers, Throws(c) PROVE CallsOK(op')
  BY IdleCall, OneCall DEF TInv, Throws

LEMMA JoinOrReviveOK ==
    ASSUME TInv, NEW c \in Callers, NEW r \in Refs, JoinOrRevive(c, r)
    PROVE  /\ CallsOK(op')
           /\ revival' \in SUBSET Callers /\ reopening' \in SUBSET Callers
<1>1. RevivalOf(r) \in SUBSET Callers
  BY DEF TInv, MapsOK, RevivalOf
<1>2. attached[r] \in Sessions \cup {NoSession}
  BY DEF TInv, RegistryTypeOK
<1>3. revival' \in SUBSET Callers /\ reopening' \in SUBSET Callers
  BY DEF TInv, MapsOK, JoinOrRevive, ResolveAndRevive
<1>4. CASE op' = [op EXCEPT ![c] = [NoCall EXCEPT !.pc = "joinRevival", !.ref = r,
                                                  !.mate = RevivalOf(r)]]
  BY <1>1, <1>3, <1>4, CallAt, OneCall DEF TInv, CallerPcs
<1>5. CASE op' = [op EXCEPT ![c] = [NoCall EXCEPT !.pc = "got", !.ses = attached[r]]]
  BY <1>2, <1>3, <1>5, CallAt, OneCall DEF TInv, CallerPcs
<1>6. CASE ResolveAndRevive(c, r)
  <2>1. CASE Throws(c)
    BY <1>3, <2>1, ThrowsOK
  <2>2. ASSUME NEW pc \in {"cold", "open"}, NEW rooted \in BOOLEAN,
               op' = [op EXCEPT ![c] = [NoCall EXCEPT !.pc = pc, !.ref = r, !.rooted = rooted]]
        PROVE  CallsOK(op')
    BY <2>2, CallAt, OneCall DEF TInv, CallerPcs
  <2>3. adopted.rooted \in BOOLEAN
    BY DEF TInv, MapsOK, Adoption
  <2> QED BY <1>3, <1>6, <2>1, <2>2, <2>3 DEF ResolveAndRevive
<1> QED BY <1>4, <1>5, <1>6 DEF JoinOrRevive

LEMMA RootedOK == Rooted \in BOOLEAN
  BY DEF Rooted

LEMMA ReopenOK ==
    ASSUME TInv, NEW c \in Callers, cur \in Refs, Reopen(c)
    PROVE  /\ CallsOK(op')
           /\ revival' \in SUBSET Callers /\ reopening' \in SUBSET Callers
<1>1. revival' \in SUBSET Callers /\ reopening' \in SUBSET Callers
  BY DEF TInv, MapsOK, Reopen
<1>2. ASSUME NEW mate \in SUBSET Callers,
             op' = [op EXCEPT ![c] = [NoCall EXCEPT !.pc = "joinReopen", !.ref = cur,
                                                    !.mate = mate]]
      PROVE  CallsOK(op')
  BY <1>2, CallAt, OneCall DEF TInv, CallerPcs
<1>3. CASE op' = [op EXCEPT ![c] = [NoCall EXCEPT !.pc = "probe", !.ref = cur,
                                                  !.rooted = Rooted]]
  BY <1>1, <1>3, RootedOK, CallAt, OneCall DEF TInv, CallerPcs
<1>4. CASE Throws(c)
  BY <1>1, <1>4, ThrowsOK
<1>5. {d \in reopening : op[d].ref = cur} \in SUBSET Callers
  BY DEF TInv, MapsOK
<1> QED BY <1>1, <1>2, <1>3, <1>4, <1>5 DEF Reopen

LEMMA PrepareOK ==
    ASSUME TInv, NEW c \in Callers, NEW o, Prepare(c, o)
    PROVE  /\ CallsOK(op')
           /\ revival' \in SUBSET Callers /\ reopening' \in SUBSET Callers
<1>1. CASE Throws(c) /\ UNCHANGED <<revival, reopening>>
  BY <1>1, ThrowsOK DEF TInv, MapsOK
<1>2. CASE cur # NoRef /\ (Reopen(c) \/ JoinOrRevive(c, cur))
  BY <1>2, ReopenOK, JoinOrReviveOK DEF TInv, RegistryTypeOK
<1> QED BY <1>1, <1>2 DEF Prepare

\* A step of a caller that leaves the rest of the state alone.
LEMMA OnlyCalls ==
    ASSUME TInv, CallsOK(op'), revival' \in SUBSET Callers, reopening' \in SUBSET Callers,
           UNCHANGED <<registryVars, sessionVars, adopted, park, rel, spawn,
                       teardownVars, tombstone>>
    PROVE  TInv'
  BY DEF TInv, registryVars, sessionVars, teardownVars, RegistryTypeOK, SessionsOK,
         MapsOK, FlagsOK, SpawnOK, ReleasesOK

LEMMA EnsureLiveOK == ASSUME TInv, NEW c \in Callers, EnsureLive(c) PROVE TInv'
<1> DEFINE o == [NoCall EXCEPT !.init = cur,
                               !.fromKilled = cur # NoRef /\ status[cur] = "aborted"]
<1>1. CASE Prepare(c, o) /\ UNCHANGED park
  <2>1. CallsOK(op') /\ revival' \in SUBSET Callers /\ reopening' \in SUBSET Callers
    BY <1>1, PrepareOK
  <2> QED BY <1>1, <2>1, OnlyCalls DEF EnsureLive
<1>2. ASSUME NEW pc \in {"awaitKept", "awaitPark"},
             op' = [op EXCEPT ![c] = [o EXCEPT !.pc = pc]],
             park' = park \/ park' = [park EXCEPT !.cancelled = TRUE],
             UNCHANGED <<revival, reopening>>
      PROVE  TInv'
  <2>1. GoodCall([o EXCEPT !.pc = pc])
    <3>1. cur \in Refs \cup {NoRef}
      BY DEF TInv, RegistryTypeOK
    <3>2. \A b \in BOOLEAN :
            GoodCall([[NoCall EXCEPT !.init = cur, !.fromKilled = b] EXCEPT !.pc = pc])
      BY <3>1 DEF GoodCall, NoCall, CallRecord, CallerPcs, NoRef, NoSession
    <3>3. (cur # NoRef /\ status[cur] = "aborted") \in BOOLEAN
      OBVIOUS
    <3> QED BY <3>2, <3>3
  <2>2. CallsOK(op')
    BY <1>2, <2>1, OneCall DEF TInv
  <2>3. park' \in Park
    BY <1>2 DEF TInv, MapsOK, Park
  <2> QED
    BY <1>2, <2>2, <2>3 DEF EnsureLive, TInv, registryVars, sessionVars, teardownVars,
       RegistryTypeOK, SessionsOK, MapsOK, FlagsOK, SpawnOK, ReleasesOK
<1> QED BY <1>1, <1>2 DEF EnsureLive

LEMMA KeptOK == ASSUME TInv, NEW c \in Callers, Kept(c) PROVE TInv'
<1>1. CASE Prepare(c, op[c]) /\ UNCHANGED adopted
  <2>1. CallsOK(op') /\ revival' \in SUBSET Callers /\ reopening' \in SUBSET Callers
    BY <1>1, PrepareOK
  <2> QED BY <1>1, <2>1, OnlyCalls DEF Kept
<1>2. CASE /\ cur # NoRef
           /\ op' = [op EXCEPT ![c] = [NoCall EXCEPT !.pc = "got", !.ses = attached[cur]]]
           /\ adopted' \in {adopted, [adopted EXCEPT !.timer = TRUE]}
           /\ UNCHANGED <<revival, reopening>>
  <2>1. attached[cur] \in Sessions \cup {NoSession}
    BY <1>2 DEF TInv, RegistryTypeOK
  <2>2. CallsOK(op')
    BY <1>2, <2>1, CallAt, OneCall DEF TInv, CallerPcs
  <2>3. adopted' \in Adoption
    BY <1>2 DEF TInv, MapsOK, Adoption
  <2> QED
    BY <1>2, <2>2, <2>3 DEF Kept, TInv, registryVars, sessionVars, teardownVars,
       RegistryTypeOK, SessionsOK, MapsOK, FlagsOK, SpawnOK, ReleasesOK
<1> QED BY <1>1, <1>2 DEF Kept

-----------------------------------------------------------------------------
(* The other steps of a call.                                               *)

\* op after a step of the program counter of c that stays within the call.
LEMMA Moved ==
    ASSUME TInv, NEW c \in Callers, NEW pc \in CallerPcs,
           pc \in {"reopened", "cold", "open", "construct", "init"} => op[c].ref \in Refs,
           pc # "init", pc # "unmark",
           NEW s \in Sessions \cup {NoSession}, NEW b \in BOOLEAN, NEW rooted \in BOOLEAN
    PROVE  /\ GoodCall([op[c] EXCEPT !.pc = pc])
           /\ GoodCall([op[c] EXCEPT !.pc = pc, !.cold = b, !.rooted = rooted])
           /\ GoodCall([op[c] EXCEPT !.pc = pc, !.ses = s])
<1>1. op[c] \in CallRecord
  BY DEF TInv, CallsOK, GoodCall
<1>2. GoodCall([op[c] EXCEPT !.pc = pc])
  BY <1>1 DEF GoodCall, CallRecord
<1>3. GoodCall([op[c] EXCEPT !.pc = pc, !.cold = b, !.rooted = rooted])
  BY <1>1 DEF GoodCall, CallRecord
<1>4. GoodCall([op[c] EXCEPT !.pc = pc, !.ses = s])
  BY <1>1 DEF GoodCall, CallRecord
<1> QED BY <1>2, <1>3, <1>4

LEMMA CallerDoneOK == ASSUME TInv, NEW c \in Callers, CallerDone(c) PROVE TInv'
<1>1. CallsOK(op')
  BY IdleCall, OneCall DEF CallerDone, TInv
<1>2. revival' \in SUBSET Callers /\ reopening' \in SUBSET Callers
  BY DEF CallerDone, TInv, MapsOK
<1> QED BY <1>1, <1>2, OnlyCalls DEF CallerDone

LEMMA UnparkedOK == ASSUME TInv, NEW c \in Callers, Unparked(c) PROVE TInv'
<1>1. CallsOK(op') /\ revival' \in SUBSET Callers /\ reopening' \in SUBSET Callers
  BY PrepareOK DEF Unparked
<1> QED BY <1>1, OnlyCalls DEF Unparked

LEMMA ReopenedOK == ASSUME TInv, NEW c \in Callers, Reopened(c) PROVE TInv'
<1>1. op[c].ref \in Refs
  BY DEF Reopened, TInv, CallsOK, GoodCall
<1>2. CallsOK(op') /\ revival' \in SUBSET Callers /\ reopening' \in SUBSET Callers
  BY <1>1, JoinOrReviveOK DEF Reopened
<1> QED BY <1>2, OnlyCalls DEF Reopened

LEMMA ProbeFailsOK == ASSUME TInv, NEW c \in Callers, ProbeFails(c) PROVE TInv'
<1>1. GoodCall([NoCall EXCEPT !.pc = "idle", !.ref = NoRef])
  BY CallAt DEF CallerPcs, NoRef, NoSession
<1>2. CallsOK(op')
  BY <1>1, ReopenSettledCalls DEF ProbeFails, TInv
<1>3. revival' \in SUBSET Callers /\ reopening' \in SUBSET Callers
  BY DEF ProbeFails, TInv, MapsOK
<1> QED BY <1>2, <1>3, OnlyCalls DEF ProbeFails

\* A new object takes the id.
LEMMA RegisterOK ==
    ASSUME TInv, NEW r \in Refs, NEW st \in Statuses, Register(r, st),
           UNCHANGED <<attached, runGen>>
    PROVE  RegistryTypeOK'
  BY DEF TInv, RegistryTypeOK, Register

LEMMA ProbeSucceedsOK == ASSUME TInv, NEW c \in Callers, ProbeSucceeds(c) PROVE TInv'
<1>1. PICK r \in Refs : /\ Register(r, "parked")
                        /\ op' = [d \in Callers |->
                                    IF d = c THEN [op[c] EXCEPT !.pc = "unmark", !.init = r]
                                    ELSE op[d]]
  BY DEF ProbeSucceeds
<1>2. RegistryTypeOK'
  BY <1>1, RegisterOK DEF ProbeSucceeds, Statuses
<1>3. GoodCall([op[c] EXCEPT !.pc = "unmark", !.init = r])
  <2>1. op[c] \in CallRecord
    BY DEF TInv, CallsOK, GoodCall
  <2> QED BY <2>1 DEF GoodCall, CallRecord, CallerPcs
<1>4. CallsOK(op')
  BY <1>1, <1>3 DEF TInv, CallsOK
<1> QED
  BY <1>2, <1>4 DEF ProbeSucceeds, TInv, sessionVars, teardownVars, SessionsOK, MapsOK,
     FlagsOK, SpawnOK, ReleasesOK

LEMMA UnmarkOK == ASSUME TInv, NEW c \in Callers, Unmark(c) PROVE TInv'
<1>1. op[c].init \in Refs
  BY DEF Unmark, TInv, CallsOK, GoodCall
<1>2. GoodCall([NoCall EXCEPT !.pc = "reopened", !.ref = op[c].init])
  BY <1>1, CallAt DEF CallerPcs, NoSession
<1>3. CallsOK(op')
  BY <1>2, ReopenSettledCalls DEF Unmark, TInv
<1> QED
  BY <1>3 DEF Unmark, TInv, registryVars, sessionVars, teardownVars, RegistryTypeOK,
     SessionsOK, MapsOK, FlagsOK, SpawnOK, ReleasesOK

\* A revival that ends without a session.
LEMMA IdleAgain == GoodCall([NoCall EXCEPT !.pc = "idle", !.ses = NoSession])
  BY CallAt DEF CallerPcs, NoRef, NoSession

LEMMA RevivalFailsOK ==
    ASSUME TInv, NEW c \in Callers, RevivalFails(c)
    PROVE  CallsOK(op') /\ revival' \in SUBSET Callers /\ adopted' \in Adoption
<1>1. CallsOK(op')
  BY IdleAgain, SettledCalls DEF RevivalFails, TInv
<1>2. revival' \in SUBSET Callers /\ adopted' \in Adoption
  BY DEF RevivalFails, TInv, MapsOK, Adoption, NoAdoption, NoRef
<1> QED BY <1>1, <1>2

LEMMA ColdOK == ASSUME TInv, NEW c \in Callers, Cold(c) PROVE TInv'
<1> DEFINE a == [ref |-> op[c].ref, revive |-> TRUE, cold |-> TRUE,
                 owned |-> FALSE, timer |-> FALSE, rooted |-> Rooted]
<1>1. op[c].ref \in Refs
  BY DEF Cold, TInv, CallsOK, GoodCall
<1>2. adopted' \in Adoption /\ revival' \in SUBSET Callers
  <2>1. a \in Adoption
    BY <1>1, RootedOK DEF Adoption
  <2>2. adopted' = a \/ adopted' = adopted
    BY DEF Cold
  <2>3. revival' \in SUBSET Callers
    BY DEF Cold, TInv, MapsOK
  <2> QED BY <2>1, <2>2, <2>3 DEF TInv, MapsOK
<1>3. CASE op' = Settled(c, "idle", NoSession)
  <2>1. CallsOK(op')
    BY <1>3, IdleAgain, SettledCalls DEF TInv
  <2> QED
    BY <1>2, <2>1 DEF Cold, TInv, registryVars, sessionVars, teardownVars,
       RegistryTypeOK, SessionsOK, MapsOK, FlagsOK, SpawnOK, ReleasesOK
<1>4. CASE op' = [op EXCEPT ![c].pc = "open", ![c].cold = TRUE, ![c].rooted = Rooted]
  <2>1. GoodCall([op[c] EXCEPT !.pc = "open", !.cold = TRUE, !.rooted = Rooted])
    BY <1>1, RootedOK, Moved DEF CallerPcs, NoSession
  <2>2. op' = [op EXCEPT ![c] = [op[c] EXCEPT !.pc = "open", !.cold = TRUE,
                                              !.rooted = Rooted]]
    BY <1>4 DEF TInv, CallsOK
  <2>3. CallsOK(op')
    BY <2>1, <2>2, OneCall DEF TInv
  <2> QED
    BY <1>2, <2>3 DEF Cold, TInv, registryVars, sessionVars, teardownVars,
       RegistryTypeOK, SessionsOK, MapsOK, FlagsOK, SpawnOK, ReleasesOK
<1> QED BY <1>3, <1>4 DEF Cold

LEMMA ClaimOK == ASSUME TInv, NEW c \in Callers, Claim(c) PROVE TInv'
<1>1. GoodCall([op[c] EXCEPT !.pc = "construct"])
  BY DEF Claim, TInv, CallsOK, GoodCall, CallRecord, CallerPcs
<1>2. op' = [op EXCEPT ![c] = [op[c] EXCEPT !.pc = "construct"]]
  BY DEF Claim
<1>3. CallsOK(op')
  BY <1>1, <1>2, OneCall DEF TInv
<1>4. revival' \in SUBSET Callers /\ reopening' \in SUBSET Callers
  BY DEF Claim, TInv, MapsOK
<1> QED BY <1>3, <1>4, OnlyCalls DEF Claim

-----------------------------------------------------------------------------
(* Registry and session changes that several steps share.                   *)

LEMMA SetStatusOK ==
    ASSUME TInv, NEW r, NEW st \in Statuses, SetStatus(r, st)
    PROVE  /\ status' \in [Refs -> Statuses \cup {"none"}]
           /\ runGen' \in [Refs -> Nat]
<1>1. status' \in [Refs -> Statuses \cup {"none"}]
  BY DEF TInv, RegistryTypeOK, SetStatus
<1>2. runGen' = runGen \/ runGen' = [runGen EXCEPT ![r] = runGen[r] + 1]
  BY DEF SetStatus
<1>3. runGen \in [Refs -> Nat]
  BY DEF TInv, RegistryTypeOK
<1>4. CASE runGen' = [runGen EXCEPT ![r] = runGen[r] + 1] /\ r \in Refs
  <2>1. runGen[r] + 1 \in Nat
    BY <1>3, <1>4
  <2> QED BY <1>1, <1>3, <1>4, <2>1
<1>5. CASE runGen' = [runGen EXCEPT ![r] = runGen[r] + 1] /\ r \notin Refs
  BY <1>1, <1>3, <1>5
<1> QED BY <1>1, <1>2, <1>3, <1>4, <1>5

LEMMA AttachOK ==
    ASSUME TInv, NEW r, NEW s \in Sessions \cup {NoSession}, AttachSession(r, s)
    PROVE  attached' \in [Refs -> Sessions \cup {NoSession}]
  BY DEF TInv, RegistryTypeOK, AttachSession

LEMMA DetachOK ==
    ASSUME TInv, NEW r, DetachSession(r)
    PROVE  attached' \in [Refs -> Sessions \cup {NoSession}]
  BY DEF TInv, RegistryTypeOK, DetachSession

LEMMA DisposeOK ==
    ASSUME TInv, NEW s, Dispose(s)
    PROVE  session' \in [Sessions -> {"unborn", "live", "disposing", "disposed"}]
  BY DEF TInv, SessionsOK, Dispose

LEMMA EventsOK ==
    ASSUME TInv, NEW r
    PROVE  OnIdle(r, adopted) \in Adoption /\ OnRunning(r, adopted) \in Adoption
           /\ OnRemoved(r, adopted) \in Adoption
  BY DEF TInv, MapsOK, Adoption, OnIdle, OnRunning, OnRemoved, NoAdoption, NoRef

LEMMA ReviverFailsOK == ASSUME TInv, NEW c \in Callers, ReviverFails(c) PROVE TInv'
<1>1. CallsOK(op') /\ revival' \in SUBSET Callers /\ adopted' \in Adoption
  BY RevivalFailsOK DEF ReviverFails
<1> QED
  BY <1>1 DEF ReviverFails, TInv, registryVars, sessionVars, teardownVars,
     RegistryTypeOK, SessionsOK, MapsOK, FlagsOK, SpawnOK, ReleasesOK

LEMMA RejectOK == ASSUME TInv, NEW c \in Callers, Reject(c) PROVE TInv'
<1>1. CallsOK(op') /\ revival' \in SUBSET Callers /\ adopted' \in Adoption
  BY RevivalFailsOK DEF Reject
<1> QED
  BY <1>1 DEF Reject, TInv, registryVars, sessionVars, teardownVars,
     RegistryTypeOK, SessionsOK, MapsOK, FlagsOK, SpawnOK, ReleasesOK

LEMMA CallAttachOK == ASSUME TInv, NEW c \in Callers, Attach(c) PROVE TInv'
<1>1. op[c] \in CallRecord /\ op[c].ref \in Refs
  BY DEF Attach, TInv, CallsOK, GoodCall
<1>2. PICK s \in Sessions : /\ session' = [session EXCEPT ![s] = "live"]
                            /\ claim' = [claim EXCEPT ![s] = op[c].ref]
                            /\ AttachSession(op[c].ref, s)
                            /\ op' = [op EXCEPT ![c].pc = "init", ![c].ses = s]
  BY DEF Attach
<1>3. RegistryTypeOK'
  <2>1. attached' \in [Refs -> Sessions \cup {NoSession}]
    BY <1>2, AttachOK
  <2>2. status' \in [Refs -> Statuses \cup {"none"}] /\ runGen' \in [Refs -> Nat]
    BY SetStatusOK DEF Attach, Statuses
  <2> QED BY <2>1, <2>2 DEF Attach, TInv, RegistryTypeOK
<1>4. SessionsOK'
  BY <1>1, <1>2 DEF Attach, TInv, SessionsOK
<1>5. GoodCall([op[c] EXCEPT !.pc = "init", !.ses = s])
  BY <1>1 DEF GoodCall, CallRecord, CallerPcs
<1>6. op' = [op EXCEPT ![c] = [op[c] EXCEPT !.pc = "init", !.ses = s]]
  BY <1>2 DEF TInv, CallsOK
<1>7. CallsOK(op')
  BY <1>5, <1>6, OneCall DEF TInv
<1>8. MapsOK'
  BY EventsOK DEF Attach, TInv, MapsOK
<1> QED
  BY <1>3, <1>4, <1>7, <1>8 DEF Attach, TInv, teardownVars, FlagsOK, SpawnOK, ReleasesOK

LEMMA AttachRefusedOK == ASSUME TInv, NEW c \in Callers, AttachRefused(c) PROVE TInv'
<1>1. PICK s \in Sessions : /\ session' = [session EXCEPT ![s] = "disposing"]
                            /\ op' = [op EXCEPT ![c].pc = "reject", ![c].ses = s]
  BY DEF AttachRefused
<1>2. SessionsOK'
  BY <1>1 DEF AttachRefused, TInv, SessionsOK
<1>3. GoodCall([op[c] EXCEPT !.pc = "reject", !.ses = s])
  BY Moved DEF CallerPcs
<1>4. op' = [op EXCEPT ![c] = [op[c] EXCEPT !.pc = "reject", !.ses = s]]
  BY <1>1 DEF TInv, CallsOK
<1>5. CallsOK(op')
  BY <1>3, <1>4, OneCall DEF TInv
<1> QED
  BY <1>2, <1>5 DEF AttachRefused, TInv, registryVars, teardownVars, RegistryTypeOK,
     MapsOK, FlagsOK, SpawnOK, ReleasesOK

LEMMA InitFailsOK == ASSUME TInv, NEW c \in Callers, InitFails(c) PROVE TInv'
<1> DEFINE r == op[c].ref
           s == op[c].ses
<1>1. CASE /\ Dispose(s)
           /\ op' = [op EXCEPT ![c].pc = "reject"]
           /\ UNCHANGED <<adopted, revival>>
           /\ \/ DetachSession(r) /\ (SetStatus(r, "parked") \/ UNCHANGED <<status, runGen>>)
              \/ UNCHANGED <<status, attached, runGen>>
  <2>1. RegistryTypeOK'
    <3>1. status' \in [Refs -> Statuses \cup {"none"}] /\ runGen' \in [Refs -> Nat]
      BY <1>1, SetStatusOK DEF TInv, RegistryTypeOK, Statuses
    <3>2. attached' \in [Refs -> Sessions \cup {NoSession}]
      BY <1>1, DetachOK DEF TInv, RegistryTypeOK
    <3> QED BY <3>1, <3>2 DEF InitFails, TInv, RegistryTypeOK
  <2>2. SessionsOK'
    BY <1>1, DisposeOK DEF InitFails, TInv, SessionsOK
  <2>3. GoodCall([op[c] EXCEPT !.pc = "reject"])
    BY Moved DEF CallerPcs, NoSession
  <2>4. CallsOK(op')
    BY <1>1, <2>3, OneCall DEF TInv
  <2> QED
    BY <1>1, <2>1, <2>2, <2>4 DEF InitFails, TInv, teardownVars, MapsOK, FlagsOK, SpawnOK,
       ReleasesOK
<1>2. CASE RevivalFails(c) /\ UNCHANGED <<status, attached, runGen, session>>
  <2>1. CallsOK(op') /\ revival' \in SUBSET Callers /\ adopted' \in Adoption
    BY <1>2, RevivalFailsOK
  <2> QED
    BY <1>2, <2>1 DEF InitFails, TInv, teardownVars, RegistryTypeOK, SessionsOK, MapsOK,
       FlagsOK, SpawnOK, ReleasesOK
<1> QED BY <1>1, <1>2 DEF InitFails

LEMMA ReviveOK ==
    ASSUME TInv, NEW c \in Callers, NEW s \in Sessions, Revive(c, s),
           ready' = ready \cup {s},
           UNCHANGED <<cur, claim, executing, park, reopening, rel, spawn, teardownVars,
                       tombstone>>
    PROVE  TInv'
<1> DEFINE r == op[c].ref
<1>1. CASE /\ AttachSession(r, s) /\ SetStatus(r, "idle")
           /\ adopted' = OnIdle(r, adopted)
           /\ op' = Settled(c, "got", s)
           /\ revival' = revival \ {c}
           /\ session' = [session EXCEPT ![s] = IF @ = "unborn" THEN "live" ELSE @]
  <2>1. RegistryTypeOK'
    <3>1. status' \in [Refs -> Statuses \cup {"none"}] /\ runGen' \in [Refs -> Nat]
      BY <1>1, SetStatusOK DEF Statuses
    <3>2. attached' \in [Refs -> Sessions \cup {NoSession}]
      BY <1>1, AttachOK
    <3> QED BY <3>1, <3>2 DEF TInv, RegistryTypeOK
  <2>2. GoodCall([NoCall EXCEPT !.pc = "got", !.ses = s])
    BY CallAt DEF CallerPcs, NoRef
  <2>3. CallsOK(op')
    BY <1>1, <2>2, SettledCalls DEF TInv
  <2>4. SessionsOK'
    BY <1>1 DEF TInv, SessionsOK
  <2>5. MapsOK'
    BY <1>1, EventsOK DEF TInv, MapsOK
  <2> QED
    BY <2>1, <2>3, <2>4, <2>5 DEF TInv, teardownVars, FlagsOK, SpawnOK, ReleasesOK
<1>2. CASE /\ session' = [session EXCEPT ![s] = IF @ = "disposed" THEN @ ELSE "disposing"]
           /\ op' = [op EXCEPT ![c].pc = "reject", ![c].ses = s]
           /\ UNCHANGED <<attached, status, runGen, adopted, revival>>
  <2>1. SessionsOK'
    BY <1>2 DEF TInv, SessionsOK
  <2>2. GoodCall([op[c] EXCEPT !.pc = "reject", !.ses = s])
    BY Moved DEF CallerPcs
  <2>3. op' = [op EXCEPT ![c] = [op[c] EXCEPT !.pc = "reject", !.ses = s]]
    BY <1>2 DEF TInv, CallsOK
  <2>4. CallsOK(op')
    BY <2>2, <2>3, OneCall DEF TInv
  <2> QED
    BY <1>2, <2>1, <2>4 DEF TInv, teardownVars, RegistryTypeOK, MapsOK, FlagsOK, SpawnOK,
       ReleasesOK
<1> QED BY <1>1, <1>2 DEF Revive

LEMMA ReviverReturnsOK ==
    ASSUME TInv, NEW c \in Callers, ReviverReturns(c) \/ SimpleReviverReturns(c)
    PROVE  TInv'
<1>1. CASE ReviverReturns(c)
  <2>1. op[c].ses \in Sessions
    BY <1>1 DEF ReviverReturns, TInv, CallsOK, GoodCall
  <2> QED BY <1>1, <2>1, ReviveOK DEF ReviverReturns
<1>2. CASE SimpleReviverReturns(c)
  BY <1>2, ReviveOK DEF SimpleReviverReturns
<1> QED BY <1>1, <1>2

LEMMA CallersOK ==
    ASSUME TInv, NEW c \in Callers, EnsureLive(c) \/ CallerSteps(c) \/ CallerDone(c)
    PROVE  TInv'
  BY EnsureLiveOK, CallerDoneOK, KeptOK, UnparkedOK, ProbeFailsOK, ProbeSucceedsOK,
     UnmarkOK, ReopenedOK, ColdOK, ClaimOK, ReviverFailsOK, CallAttachOK, AttachRefusedOK,
     InitFailsOK, ReviverReturnsOK, RejectOK
     DEF CallerSteps, ReviverSteps

-----------------------------------------------------------------------------
(* Turns, parks, releases and spawns.                                       *)

\* A step that may change the registry, the sessions and the adoption only.
LEMMA OnlyObjects ==
    ASSUME TInv, RegistryTypeOK', SessionsOK', adopted' \in Adoption,
           UNCHANGED <<park, revival, reopening, op, rel, spawn, teardownVars, tombstone>>
    PROVE  TInv'
  BY DEF TInv, teardownVars, MapsOK, FlagsOK, SpawnOK, CallsOK, ReleasesOK

LEMMA TurnsOK == ASSUME TInv, RunStarts \/ RunEnds PROVE TInv'
<1>1. status' \in [Refs -> Statuses \cup {"none"}] /\ runGen' \in [Refs -> Nat]
  BY SetStatusOK DEF RunStarts, RunEnds, Statuses
<1>2. RegistryTypeOK'
  BY <1>1 DEF RunStarts, RunEnds, TInv, RegistryTypeOK
<1>3. SessionsOK'
  BY DEF RunStarts, RunEnds, TInv, SessionsOK, sessionVars
<1>4. adopted' \in Adoption
  BY EventsOK DEF RunStarts, RunEnds
<1> QED BY <1>2, <1>3, <1>4, OnlyObjects DEF RunStarts, RunEnds

LEMMA AdoptOK == ASSUME TInv, Adopt PROVE TInv'
<1>1. status' \in [Refs -> Statuses \cup {"none"}] /\ runGen' \in [Refs -> Nat]
  BY SetStatusOK DEF Adopt, Statuses, TInv, RegistryTypeOK
<1>2. RegistryTypeOK'
  BY <1>1 DEF Adopt, TInv, RegistryTypeOK
<1>3. SessionsOK'
  BY DisposeOK DEF Adopt, TInv, SessionsOK
<1>4. cur \in Refs \cup {NoRef} /\ Isolated \in BOOLEAN
  BY ConstantsAssumption DEF TInv, RegistryTypeOK
<1>5. adopted' \in Adoption
  <2>1. CASE /\ cur # NoRef
             /\ adopted' = [ref |-> cur, revive |-> TRUE, cold |-> FALSE,
                            owned |-> Isolated, timer |-> TRUE, rooted |-> owner \/ Rooted]
    BY <1>4, <2>1 DEF Adoption
  <2>2. CASE UNCHANGED adopted
    BY <2>2 DEF TInv, MapsOK
  <2> QED BY <2>1, <2>2 DEF Adopt
<1> QED BY <1>2, <1>3, <1>5, OnlyObjects DEF Adopt

LEMMA SessionDisposedOK == ASSUME TInv, NEW s \in Sessions, SessionDisposed(s) PROVE TInv'
<1>1. RegistryTypeOK'
  BY DEF SessionDisposed, TInv, RegistryTypeOK
<1>2. SessionsOK'
  BY DEF SessionDisposed, TInv, SessionsOK
<1>3. adopted' \in Adoption
  BY EventsOK DEF SessionDisposed, TInv, MapsOK
<1> QED BY <1>1, <1>2, <1>3, OnlyObjects DEF SessionDisposed

LEMMA TimerFiresOK == ASSUME TInv, TimerFires PROVE TInv'
<1>1. adopted.ref \in Refs
  BY DEF TimerFires, TInv, MapsOK, Adoption
<1>2. attached[adopted.ref] \in Sessions \cup {NoSession}
  BY <1>1 DEF TInv, RegistryTypeOK
<1>3. adopted' \in Adoption
  BY DEF TimerFires, TInv, MapsOK, Adoption
<1>4. park' \in Park
  BY <1>1, <1>2 DEF TimerFires, TInv, MapsOK, Park
<1> QED
  BY <1>3, <1>4 DEF TimerFires, TInv, registryVars, sessionVars, teardownVars,
     RegistryTypeOK, SessionsOK, MapsOK, FlagsOK, SpawnOK, CallsOK, ReleasesOK

LEMMA ParkCommitsOK == ASSUME TInv, ParkCommits PROVE TInv'
<1>1. CASE /\ park' = [park EXCEPT !.detached = TRUE]
           /\ DetachSession(park.ref)
           /\ SetStatus(park.ref, "parked") \/ UNCHANGED <<status, runGen>>
           /\ Dispose(park.ses)
           /\ UNCHANGED <<op, rel>>
  <2>1. RegistryTypeOK'
    <3>1. status' \in [Refs -> Statuses \cup {"none"}] /\ runGen' \in [Refs -> Nat]
      BY <1>1, SetStatusOK DEF Statuses, TInv, RegistryTypeOK
    <3>2. attached' \in [Refs -> Sessions \cup {NoSession}]
      BY <1>1, DetachOK
    <3> QED BY <3>1, <3>2 DEF ParkCommits, TInv, RegistryTypeOK
  <2>2. SessionsOK'
    BY <1>1, DisposeOK DEF ParkCommits, TInv, SessionsOK
  <2>3. park' \in Park
    BY <1>1 DEF TInv, MapsOK, Park
  <2> QED
    BY <1>1, <2>1, <2>2, <2>3 DEF ParkCommits, TInv, teardownVars, MapsOK, FlagsOK, SpawnOK,
       CallsOK, ReleasesOK
<1>2. CASE ParkEnds /\ UNCHANGED <<attached, status, runGen, session>>
  <2>1. park' \in Park /\ CallsOK(op') /\ ReleasesOK(rel')
    BY <1>2, ParkEndsOK
  <2> QED
    BY <1>2, <2>1 DEF ParkCommits, TInv, teardownVars, RegistryTypeOK, SessionsOK, MapsOK,
       FlagsOK, SpawnOK
<1> QED BY <1>1, <1>2 DEF ParkCommits

LEMMA ParkFinishesOK == ASSUME TInv, ParkFinishes PROVE TInv'
<1>1. park' \in Park /\ CallsOK(op') /\ ReleasesOK(rel')
  BY ParkEndsOK DEF ParkFinishes
<1> QED
  BY <1>1 DEF ParkFinishes, TInv, registryVars, sessionVars, teardownVars, RegistryTypeOK,
     SessionsOK, MapsOK, FlagsOK, SpawnOK

\* What a release changes.
ReleaseTypes == /\ attached' \in [Refs -> Sessions \cup {NoSession}]
                /\ status' \in [Refs -> Statuses \cup {"none"}]
                /\ runGen' \in [Refs -> Nat]
                /\ session' \in [Sessions -> {"unborn", "live", "disposing", "disposed"}]
                /\ adopted' \in Adoption
                /\ park' \in Park
                /\ ReleasesOK(rel')

LEMMA TakeDownOK ==
    ASSUME TInv, NEW k \in Releases, NEW r \in Refs, NEW g \in Nat, NEW a \in Adoption,
           TakeDown(k, r, g, a), UNCHANGED park
    PROVE  ReleaseTypes
<1> DEFINE live == IF cur = r THEN attached[r] ELSE NoSession
           q == [pc |-> IF k = "kill" THEN "persist" ELSE "dispose",
                 ref |-> r, ses |-> live, owned |-> a.ref = r /\ a.owned, gen |-> g]
<1>1. live \in Sessions \cup {NoSession}
  BY DEF TInv, RegistryTypeOK
<1>2. (a.ref = r /\ a.owned) \in BOOLEAN
  OBVIOUS
<1>3. GoodRelease(q)
  BY <1>1, <1>2 DEF GoodRelease, ReleaseRecord, ReleasePcs
<1>4. ReleasesOK(rel')
  <2>1. rel' = [rel EXCEPT ![k] = q]
    BY DEF TakeDown
  <2> QED BY <1>3, <2>1, OneRelease DEF TInv
<1>5. attached' \in [Refs -> Sessions \cup {NoSession}]
  BY DetachOK DEF TakeDown, TInv, RegistryTypeOK
<1>6. status' \in [Refs -> Statuses \cup {"none"}] /\ runGen' \in [Refs -> Nat]
  BY SetStatusOK DEF TakeDown, Statuses, TInv, RegistryTypeOK
<1>7. session' \in [Sessions -> {"unborn", "live", "disposing", "disposed"}]
  BY DisposeOK DEF TakeDown, TInv, SessionsOK
<1>8. adopted' \in Adoption
  BY DEF TakeDown, Adoption, NoAdoption, NoRef
<1>9. park' \in Park
  BY DEF TInv, MapsOK
<1> QED BY <1>4, <1>5, <1>6, <1>7, <1>8, <1>9 DEF ReleaseTypes

LEMMA StartReleaseOK ==
    ASSUME TInv, NEW k \in Releases, NEW r \in Refs, StartRelease(k, r)
    PROVE  ReleaseTypes
<1> DEFINE a == IF adopted.ref = r THEN [adopted EXCEPT !.timer = FALSE] ELSE adopted
<1>1. a \in Adoption
  BY DEF TInv, MapsOK, Adoption
<1>2. runGen[r] \in Nat
  BY DEF TInv, RegistryTypeOK
<1>3. CASE /\ park' = [park EXCEPT !.cancelled = @ \/ ~park.detached]
           /\ adopted' = a
           /\ rel' = [rel EXCEPT ![k] = [NoRelease EXCEPT !.pc = "awaitPark", !.ref = r,
                                                          !.gen = runGen[r]]]
           /\ UNCHANGED <<attached, status, runGen, session>>
  <2>1. GoodRelease([NoRelease EXCEPT !.pc = "awaitPark", !.ref = r, !.gen = runGen[r]])
    BY <1>2 DEF GoodRelease, ReleaseRecord, ReleasePcs, NoRelease, NoRef, NoSession
  <2>2. ReleasesOK(rel')
    BY <1>3, <2>1, OneRelease DEF TInv
  <2>3. park' \in Park
    <3>1. (park.cancelled \/ ~park.detached) \in BOOLEAN
      OBVIOUS
    <3> QED BY <1>3, <3>1 DEF TInv, MapsOK, Park
  <2> QED
    BY <1>1, <1>3, <2>2, <2>3 DEF ReleaseTypes, TInv, RegistryTypeOK, SessionsOK
<1>4. CASE TakeDown(k, r, runGen[r], a) /\ UNCHANGED park
  BY <1>1, <1>2, <1>4, TakeDownOK
<1> QED BY <1>3, <1>4 DEF StartRelease

LEMMA ReleaseStepOK ==
    ASSUME TInv, ReleaseTypes, factory' \in BOOLEAN, rootGone' \in BOOLEAN, disposed' \in BOOLEAN,
           UNCHANGED <<cur, claim, ready, executing, revival, reopening, op, spawn, lineage,
                       owner, tombstone>>
    PROVE  TInv'
  BY DEF ReleaseTypes, TInv, RegistryTypeOK, SessionsOK, MapsOK, FlagsOK, SpawnOK, CallsOK

LEMMA KillCancelOK == ASSUME TInv, Kill \/ Cancel PROVE TInv'
<1>1. ReleaseTypes
  <2>1. CASE Kill
    BY <2>1, StartReleaseOK DEF Kill, TInv, RegistryTypeOK
  <2>2. CASE Cancel
    BY <2>2, StartReleaseOK DEF Cancel, TInv, MapsOK, Adoption
  <2> QED BY <2>1, <2>2
<1> QED BY <1>1, ReleaseStepOK DEF Kill, Cancel, teardownVars, TInv, FlagsOK

LEMMA ReleaseGoesOK == ASSUME TInv, NEW k \in Releases, ReleaseGoes(k) PROVE TInv'
<1>1. rel[k].ref \in Refs /\ rel[k].gen \in Nat
  BY DEF ReleaseGoes, TInv, ReleasesOK, GoodRelease, ReleaseRecord
<1>2. CASE /\ rel' = [rel EXCEPT ![k] = ReleaseDone]
           /\ UNCHANGED <<attached, status, runGen, session, adopted>>
  <2>1. ReleasesOK(rel')
    BY <1>2, DoneRelease, OneRelease DEF TInv
  <2>2. ReleaseTypes
    BY <1>2, <2>1 DEF ReleaseGoes, ReleaseTypes, TInv, RegistryTypeOK, SessionsOK, MapsOK
  <2> QED BY <2>2, ReleaseStepOK DEF ReleaseGoes, teardownVars, TInv, FlagsOK
<1>3. CASE TakeDown(k, rel[k].ref, rel[k].gen, adopted)
  <2>1. ReleaseTypes
    BY <1>1, <1>3, TakeDownOK DEF ReleaseGoes, TInv, MapsOK
  <2> QED BY <2>1, ReleaseStepOK DEF ReleaseGoes, teardownVars, TInv, FlagsOK
<1> QED BY <1>2, <1>3 DEF ReleaseGoes

LEMMA PersistedOK == ASSUME TInv, NEW k \in Releases, Persisted(k) PROVE TInv'
<1>1. GoodRelease([rel[k] EXCEPT !.pc = "dispose"])
  BY DEF TInv, ReleasesOK, GoodRelease, ReleaseRecord, ReleasePcs
<1>2. rel' = [rel EXCEPT ![k] = [rel[k] EXCEPT !.pc = "dispose"]]
  BY DEF Persisted
<1>3. ReleasesOK(rel')
  BY <1>1, <1>2, OneRelease DEF TInv
<1>4. SessionsOK'
  BY DisposeOK DEF Persisted, TInv, SessionsOK
<1> QED
  BY <1>3, <1>4 DEF Persisted, TInv, registryVars, teardownVars, RegistryTypeOK, MapsOK,
     FlagsOK, SpawnOK, CallsOK

LEMMA ReleasedOK == ASSUME TInv, NEW k \in Releases, Released(k) PROVE TInv'
<1>1. ReleasesOK(rel')
  BY DoneRelease, OneRelease DEF Released, TInv
<1>2. RegistryTypeOK' /\ adopted' \in Adoption
  BY EventsOK DEF Released, TInv, RegistryTypeOK, MapsOK
<1> QED
  BY <1>1, <1>2 DEF Released, TInv, sessionVars, teardownVars, SessionsOK, MapsOK, FlagsOK,
     SpawnOK, CallsOK

LEMMA DisposeRootOK == ASSUME TInv, NEW other \in BOOLEAN, DisposeRoot(other) PROVE TInv'
<1>1. factory' \in BOOLEAN /\ rootGone' \in BOOLEAN /\ disposed' \in BOOLEAN
  BY DEF DisposeRoot, TInv, FlagsOK
<1>2. "teardown" \in Releases
  BY DEF DisposeRoot
<1>3. CASE /\ rel' = [rel EXCEPT !["teardown"] = ReleaseDone]
           /\ UNCHANGED <<attached, status, runGen, session, adopted, park>>
  <2>1. ReleasesOK(rel')
    BY <1>2, <1>3, DoneRelease, OneRelease DEF TInv
  <2>2. ReleaseTypes
    BY <1>3, <2>1 DEF ReleaseTypes, TInv, RegistryTypeOK, SessionsOK, MapsOK
  <2> QED BY <1>1, <2>2, ReleaseStepOK DEF DisposeRoot
<1>4. ASSUME NEW r \in Refs, StartRelease("teardown", r)
      PROVE  TInv'
  <2>1. ReleaseTypes
    BY <1>2, <1>4, StartReleaseOK
  <2> QED BY <1>1, <2>1, ReleaseStepOK DEF DisposeRoot
<1>5. adopted.ref \in Refs \cup {NoRef} /\ cur \in Refs \cup {NoRef}
  BY DEF TInv, MapsOK, Adoption, RegistryTypeOK
<1> QED BY <1>3, <1>4, <1>5 DEF DisposeRoot

LEMMA DisposeEndsOK == ASSUME TInv, DisposeEnds PROVE TInv'
<1>1. MapsOK'
  BY DEF DisposeEnds, TInv, MapsOK, Park
<1> QED
  BY <1>1 DEF DisposeEnds, TInv, registryVars, sessionVars, RegistryTypeOK, SessionsOK,
     FlagsOK, SpawnOK, CallsOK, ReleasesOK

LEMMA LineageOK ==
    ASSUME TInv, AncestorLeaves \/ AncestorReturns \/ RootLeaves
    PROVE  TInv'
<1>1. lineage' \in {"root", "broken", "gone"}
  BY DEF AncestorLeaves, AncestorReturns, RootLeaves, Lineage
<1> QED
  BY <1>1 DEF AncestorLeaves, AncestorReturns, RootLeaves, Lineage, TInv, registryVars,
     sessionVars, RegistryTypeOK, SessionsOK, MapsOK, FlagsOK, SpawnOK, CallsOK, ReleasesOK

LEMMA SpawnRegistersOK ==
    ASSUME TInv, SpawnRegisters
    PROVE  RegistryTypeOK' /\ SpawnOK'
<1>1. PICK r \in Refs : Register(r, "running") /\ spawn' = [pc |-> "construct", ref |-> r]
  BY DEF SpawnRegisters
<1>2. RegistryTypeOK'
  BY <1>1, RegisterOK DEF SpawnRegisters, Statuses
<1> QED BY <1>1, <1>2 DEF SpawnOK

LEMMA SpawnProbesOK == ASSUME TInv, Spawn \/ SpawnProbed PROVE TInv'
<1>1. RegistryTypeOK' /\ SpawnOK'
  <2>1. CASE SpawnRegisters
    BY <2>1, SpawnRegistersOK
  <2>2. CASE /\ spawn' = [pc |-> "probe", ref |-> cur] \/ spawn' = NoSpawn
             /\ UNCHANGED registryVars
    BY <2>2 DEF TInv, RegistryTypeOK, SpawnOK, NoSpawn, registryVars, NoRef
  <2> QED BY <2>1, <2>2 DEF Spawn, SpawnProbed
<1>2. owner' \in BOOLEAN
  BY DEF Spawn, SpawnProbed, teardownVars, TInv, FlagsOK
<1> QED
  BY <1>1, <1>2 DEF Spawn, SpawnProbed, TInv, sessionVars, teardownVars, SessionsOK, MapsOK,
     FlagsOK, CallsOK, ReleasesOK

LEMMA SpawnAttachesOK == ASSUME TInv, SpawnAttaches PROVE TInv'
<1>1. PICK s \in Sessions : /\ session' = [session EXCEPT ![s] = "live"]
                            /\ claim' = [claim EXCEPT ![s] = spawn.ref]
                            /\ ready' = ready \cup {s}
                            /\ executing' = s
                            /\ AttachSession(spawn.ref, s)
  BY DEF SpawnAttaches
<1>2. RegistryTypeOK'
  <2>1. attached' \in [Refs -> Sessions \cup {NoSession}]
    BY <1>1, AttachOK
  <2>2. status' \in [Refs -> Statuses \cup {"none"}] /\ runGen' \in [Refs -> Nat]
    BY SetStatusOK DEF SpawnAttaches, Statuses
  <2> QED BY <2>1, <2>2 DEF SpawnAttaches, TInv, RegistryTypeOK
<1>3. SessionsOK'
  BY <1>1 DEF TInv, SessionsOK, SpawnOK
<1> QED
  BY <1>2, <1>3 DEF SpawnAttaches, TInv, teardownVars, MapsOK, FlagsOK, SpawnOK, NoSpawn,
     NoRef, CallsOK, ReleasesOK

LEMMA SpawnFailsOK == ASSUME TInv, SpawnFails PROVE TInv'
<1>1. RegistryTypeOK' /\ adopted' \in Adoption
  BY EventsOK DEF SpawnFails, TInv, RegistryTypeOK, MapsOK
<1> QED
  BY <1>1 DEF SpawnFails, TInv, sessionVars, teardownVars, SessionsOK, MapsOK, FlagsOK,
     SpawnOK, NoSpawn, NoRef, CallsOK, ReleasesOK

-----------------------------------------------------------------------------
(* The theorem.                                                             *)

LEMMA InitTInv == Init => TInv
<1> SUFFICES ASSUME Init PROVE TInv
  OBVIOUS
<1>1. 1 \in Refs /\ 1 \in Sessions
  BY BoundsAssumption DEF Refs, Sessions
<1>2. RegistryTypeOK
  BY <1>1 DEF Init, RegistryTypeOK, Statuses, NoSession
<1>3. SessionsOK
  BY <1>1 DEF Init, SessionsOK, NoSession, NoRef
<1>4. MapsOK /\ FlagsOK /\ SpawnOK
  BY DEF Init, MapsOK, FlagsOK, SpawnOK, NoAdoption, Adoption, NoPark, Park, NoSpawn,
     NoRef, NoSession
<1>5. CallsOK(op) /\ ReleasesOK(rel)
  BY IdleCall, DoneRelease DEF Init, CallsOK, ReleasesOK
<1> QED BY <1>2, <1>3, <1>4, <1>5 DEF TInv

LEMMA StepTInv == TInv /\ [Next]_vars => TInv'
<1> SUFFICES ASSUME TInv, [Next]_vars PROVE TInv'
  OBVIOUS
<1>1. CASE UNCHANGED vars
  BY <1>1 DEF vars, registryVars, sessionVars, teardownVars, TInv, RegistryTypeOK,
     SessionsOK, MapsOK, FlagsOK, SpawnOK, CallsOK, ReleasesOK
<1>2. CASE Next
  BY <1>2, CallersOK, TurnsOK, AdoptOK, SessionDisposedOK, TimerFiresOK, ParkCommitsOK,
     ParkFinishesOK, KillCancelOK, ReleaseGoesOK, PersistedOK, ReleasedOK, DisposeRootOK,
     DisposeEndsOK, LineageOK, SpawnProbesOK, SpawnAttachesOK, SpawnFailsOK DEF Next
<1> QED BY <1>1, <1>2

LEMMA TInvTypeOK == TInv => TypeOK
<1> SUFFICES ASSUME TInv PROVE TypeOK
  OBVIOUS
<1>1. op \in [Callers -> CallRecord]
  BY DEF TInv, CallsOK, GoodCall
<1>2. rel \in [Releases -> ReleaseRecord]
  BY DEF TInv, ReleasesOK, GoodRelease
<1> QED
  BY <1>1, <1>2 DEF TInv, TypeOK, SessionsOK, MapsOK, FlagsOK, SpawnOK, Adoption, Park,
     CallRecord, ReleaseRecord

\* Every field of the registry, the manager and its calls keeps its type,
\* whatever steps of callers, parks, releases, revivals and spawns interleave:
\* in particular a call that returns from a reopen, and a release that returns
\* from an awaited park, name a ref object that exists.
THEOREM LifecycleTyped == Spec => []TypeOK
<1>1. Spec => []TInv
  BY InitTInv, StepTInv, PTL DEF Spec
<1> QED BY <1>1, TInvTypeOK, PTL

-----------------------------------------------------------------------------
(* What ensureLive hands out.                                               *)

\* Caller d gets no answer in this step.
Silent(d) == op'[d].pc = "got" => op[d].pc = "got"
\* The answer of caller d is right.
Answered(d) == Silent(d) \/ op[d].pc = "reopened"
               \/ (cur' # NoRef /\ attached'[cur'] = op'[d].ses)

LEMMA OneSilent ==
    ASSUME TInv, NEW c \in Callers, NEW d \in Callers, NEW o, o.pc # "got",
           op' = [op EXCEPT ![c] = o]
    PROVE  Silent(d)
  BY DEF Silent, TInv, CallsOK

LEMMA JoinOrReviveAnswers ==
    ASSUME TInv, NEW c \in Callers, NEW d \in Callers, NEW r, JoinOrRevive(c, r)
    PROVE  Silent(d) \/ (d = c /\ op'[d].ses = attached[r])
<1>1. CASE op' = [op EXCEPT ![c] = [NoCall EXCEPT !.pc = "got", !.ses = attached[r]]]
  <2>1. CASE d = c
    <3>1. op'[d] = [NoCall EXCEPT !.pc = "got", !.ses = attached[r]]
      BY <1>1, <2>1 DEF TInv, CallsOK
    <3> QED BY <2>1, <3>1 DEF NoCall
  <2>2. CASE d # c
    BY <1>1, <2>2 DEF Silent, TInv, CallsOK
  <2> QED BY <2>1, <2>2
<1>2. CASE op' = [op EXCEPT ![c] = [NoCall EXCEPT !.pc = "joinRevival", !.ref = r,
                                                  !.mate = RevivalOf(r)]]
  BY <1>2, OneSilent DEF NoCall
<1>3. CASE ResolveAndRevive(c, r)
  <2>1. \/ op' = [op EXCEPT ![c] = NoCall]
        \/ \E pc \in {"cold", "open"} : \E rooted :
             op' = [op EXCEPT ![c] = [NoCall EXCEPT !.pc = pc, !.ref = r, !.rooted = rooted]]
    BY <1>3 DEF ResolveAndRevive, Throws
  <2>2. CASE op' = [op EXCEPT ![c] = NoCall]
    BY <2>2, OneSilent DEF NoCall
  <2>3. ASSUME NEW pc \in {"cold", "open"}, NEW rooted,
               op' = [op EXCEPT ![c] = [NoCall EXCEPT !.pc = pc, !.ref = r, !.rooted = rooted]]
        PROVE  Silent(d)
    BY <2>3, OneSilent DEF NoCall
  <2> QED BY <2>1, <2>2, <2>3
<1> QED BY <1>1, <1>2, <1>3 DEF JoinOrRevive

LEMMA PrepareAnswers ==
    ASSUME TInv, NEW c \in Callers, NEW d \in Callers, NEW o, Prepare(c, o),
           UNCHANGED registryVars
    PROVE  Answered(d)
<1>1. CASE Throws(c)
  BY <1>1, OneSilent DEF Throws, NoCall, Answered
<1>2. CASE Reopen(c)
  <2>1. CASE op' = [op EXCEPT ![c] = [NoCall EXCEPT
                                       !.pc = "joinReopen", !.ref = cur,
                                       !.mate = {e \in reopening : op[e].ref = cur}]]
    BY <2>1, OneSilent DEF NoCall, Answered
  <2>2. CASE op' = [op EXCEPT ![c] = [NoCall EXCEPT !.pc = "probe", !.ref = cur,
                                                    !.rooted = Rooted]]
    BY <2>2, OneSilent DEF NoCall, Answered
  <2> QED BY <1>1, <1>2, <2>1, <2>2 DEF Reopen
<1>3. CASE cur # NoRef /\ JoinOrRevive(c, cur)
  BY <1>3, JoinOrReviveAnswers DEF registryVars, Answered
<1> QED BY <1>1, <1>2, <1>3 DEF Prepare

LEMMA ReviveAnswers ==
    ASSUME TInv, NEW c \in Callers, NEW d \in Callers, NEW s \in Sessions,
           op[c].ref \in Refs, Revive(c, s), UNCHANGED cur
    PROVE  Answered(d)
<1> DEFINE r == op[c].ref
<1>1. CASE /\ cur = r /\ AttachSession(r, s)
           /\ op' = Settled(c, "got", s)
  <2>1. attached'[cur'] = s /\ cur' # NoRef
    BY <1>1 DEF AttachSession, TInv, RegistryTypeOK, Refs, NoRef
  <2>2. op'[d] = op[d] \/ op'[d] = [NoCall EXCEPT !.pc = "got", !.ses = s]
    BY <1>1 DEF Settled
  <2>3. CASE op'[d] = op[d]
    BY <2>3 DEF Answered, Silent
  <2>4. CASE op'[d] = [NoCall EXCEPT !.pc = "got", !.ses = s]
    BY <2>1, <2>4 DEF Answered, NoCall
  <2> QED BY <2>2, <2>3, <2>4
<1>2. CASE op' = [op EXCEPT ![c].pc = "reject", ![c].ses = s]
  <2>1. op' = [op EXCEPT ![c] = [op[c] EXCEPT !.pc = "reject", !.ses = s]]
    BY <1>2 DEF TInv, CallsOK
  <2>2. [op[c] EXCEPT !.pc = "reject", !.ses = s].pc # "got"
    BY DEF TInv, CallsOK, GoodCall, CallRecord
  <2> QED BY <2>1, <2>2, OneSilent DEF Answered
<1> QED BY <1>1, <1>2 DEF Revive, Claimable, Adoptable

LEMMA CallersAnswer ==
    ASSUME TInv, NEW c \in Callers, NEW d \in Callers,
           EnsureLive(c) \/ CallerSteps(c) \/ CallerDone(c)
    PROVE  Answered(d)
<1>1. CASE EnsureLive(c)
  <2>1. ASSUME NEW o, NEW pc \in {"awaitKept", "awaitPark"},
               op' = [op EXCEPT ![c] = [[NoCall EXCEPT !.init = cur, !.fromKilled = o]
                                          EXCEPT !.pc = pc]]
        PROVE  Silent(d)
    BY <2>1, OneSilent DEF NoCall
  <2> QED BY <1>1, <2>1, PrepareAnswers DEF EnsureLive, Answered
<1>2. CASE Kept(c)
  <2>1. CASE /\ cur # NoRef
             /\ op' = [op EXCEPT ![c] = [NoCall EXCEPT !.pc = "got", !.ses = attached[cur]]]
    <3>1. UNCHANGED registryVars
      BY <1>2 DEF Kept
    <3>2. CASE d = c
      <4>1. op'[d] = [NoCall EXCEPT !.pc = "got", !.ses = attached[cur]]
        BY <2>1, <3>2 DEF TInv, CallsOK
      <4> QED BY <2>1, <3>1, <4>1 DEF Answered, NoCall, registryVars
    <3>3. CASE d # c
      BY <2>1, <3>3 DEF Answered, Silent, TInv, CallsOK
    <3> QED BY <3>2, <3>3
  <2>2. CASE Prepare(c, op[c])
    BY <1>2, <2>2, PrepareAnswers DEF Kept
  <2> QED BY <1>2, <2>1, <2>2 DEF Kept
<1>3. CASE Unparked(c)
  BY <1>3, PrepareAnswers DEF Unparked
<1>4. CASE Reopened(c)
  BY <1>4, JoinOrReviveAnswers DEF Reopened, Answered
<1>5. CASE ReviverReturns(c)
  <2>1. op[c].ses \in Sessions /\ op[c].ref \in Refs
    BY <1>5 DEF ReviverReturns, TInv, CallsOK, GoodCall
  <2> QED BY <1>5, <2>1, ReviveAnswers DEF ReviverReturns
<1>6. CASE SimpleReviverReturns(c)
  <2>1. op[c].ref \in Refs
    BY <1>6 DEF SimpleReviverReturns, TInv, CallsOK, GoodCall
  <2> QED BY <1>6, <2>1, ReviveAnswers DEF SimpleReviverReturns
<1>7. CASE ProbeFails(c) \/ Unmark(c)
  <2>1. ASSUME NEW r, op' = ReopenSettled(c, "idle", r) \/ op' = ReopenSettled(c, "reopened", r)
        PROVE  Silent(d)
    BY <2>1 DEF ReopenSettled, Silent, NoCall
  <2> QED BY <1>7, <2>1 DEF ProbeFails, Unmark, Answered
<1>8. ASSUME op' = Settled(c, "idle", NoSession)
      PROVE  Silent(d)
  BY <1>8 DEF Settled, Silent, NoCall
<1>9. CASE ReviverFails(c) \/ Reject(c)
  BY <1>8, <1>9 DEF ReviverFails, Reject, RevivalFails, Answered
<1>10. op[c] \in CallRecord
  BY DEF TInv, CallsOK, GoodCall
<1>11. CASE InitFails(c)
  <2>1. CASE op' = [op EXCEPT ![c].pc = "reject"]
    <3>1. [op[c] EXCEPT !.pc = "reject"].pc # "got"
      BY <1>10 DEF CallRecord
    <3> QED BY <2>1, <3>1, OneSilent DEF Answered
  <2> QED BY <1>8, <1>11, <2>1 DEF InitFails, RevivalFails, Answered
<1>12. CASE Cold(c)
  <2>1. CASE op' = [op EXCEPT ![c].pc = "open", ![c].cold = TRUE, ![c].rooted = Rooted]
    <3>1. op' = [op EXCEPT ![c] = [op[c] EXCEPT !.pc = "open", !.cold = TRUE,
                                                !.rooted = Rooted]]
      BY <2>1 DEF TInv, CallsOK
    <3>2. [op[c] EXCEPT !.pc = "open", !.cold = TRUE, !.rooted = Rooted].pc # "got"
      BY <1>10 DEF CallRecord
    <3> QED BY <3>1, <3>2, OneSilent DEF Answered
  <2> QED BY <1>8, <1>12, <2>1 DEF Cold, Answered
<1>13. CASE Claim(c)
  <2>1. [op[c] EXCEPT !.pc = "construct"].pc # "got"
    BY <1>10 DEF CallRecord
  <2> QED BY <1>13, <2>1, OneSilent DEF Claim, Answered
<1>14. ASSUME NEW s, NEW pc \in {"init", "reject"},
              op' = [op EXCEPT ![c].pc = pc, ![c].ses = s]
       PROVE  Silent(d)
  <2>1. op' = [op EXCEPT ![c] = [op[c] EXCEPT !.pc = pc, !.ses = s]]
    BY <1>14 DEF TInv, CallsOK
  <2>2. [op[c] EXCEPT !.pc = pc, !.ses = s].pc # "got"
    BY <1>10 DEF CallRecord
  <2> QED BY <2>1, <2>2, OneSilent
<1>15. CASE Attach(c) \/ AttachRefused(c)
  BY <1>14, <1>15 DEF Attach, AttachRefused, Answered
<1>16. CASE ProbeSucceeds(c)
  <2>1. PICK r \in Refs : op' = [e \in Callers |->
                                   IF e = c THEN [op[c] EXCEPT !.pc = "unmark", !.init = r]
                                   ELSE op[e]]
    BY <1>16 DEF ProbeSucceeds
  <2>2. [op[c] EXCEPT !.pc = "unmark", !.init = r].pc # "got"
    BY <1>10 DEF CallRecord
  <2> QED BY <2>1, <2>2 DEF Answered, Silent
<1>17. CASE CallerDone(c)
  BY <1>17, OneSilent DEF CallerDone, NoCall, Answered
<1> QED
  BY <1>1, <1>2, <1>3, <1>4, <1>5, <1>6, <1>7, <1>9, <1>11, <1>12, <1>13, <1>15, <1>16,
     <1>17 DEF CallerSteps, ReviverSteps

LEMMA OthersSilent ==
    ASSUME TInv, Next, NEW d \in Callers,
           \A c \in Callers : ~(EnsureLive(c) \/ CallerSteps(c) \/ CallerDone(c))
    PROVE  Silent(d)
<1>1. op' = op \/ op' = ParkAwaited(op)
  BY DEF Next, RunStarts, RunEnds, Adopt, SessionDisposed, TimerFires, ParkCommits, ParkFinishes,
     ParkEnds, Kill, Cancel, ReleaseGoes, Persisted, Released, DisposeRoot, DisposeEnds,
     AncestorLeaves, AncestorReturns, RootLeaves, Lineage, Spawn, SpawnProbed, SpawnAttaches,
     SpawnFails
<1>2. CASE op' = ParkAwaited(op)
  <2>1. op[d] \in CallRecord
    BY DEF TInv, CallsOK, GoodCall
  <2> QED BY <1>2, <2>1 DEF ParkAwaited, Silent, CallRecord
<1> QED BY <1>1, <1>2 DEF Silent

LEMMA StepAnswers == ASSUME TInv, [Next]_vars, NEW d \in Callers PROVE Answered(d)
<1>1. CASE UNCHANGED vars
  BY <1>1 DEF vars, Answered, Silent
<1>2. CASE Next
  BY <1>2, CallersAnswer, OthersSilent DEF Answered
<1> QED BY <1>1, <1>2

\* What ensureLive returns after any await but that of a reopen (a cancelled
\* park, a finished one, a revival it ran or joined) is the session attached to
\* the ref the id resolves to in that very step.
THEOREM HandsOutAttached == Spec => HandOutAttached
<1> DEFINE A == \A c \in Callers : Handed(c) /\ op[c].pc # "reopened" =>
                  cur' # NoRef /\ attached'[cur'] = op'[c].ses
<1>1. TInv /\ [Next]_vars => [A]_vars
  BY StepAnswers DEF Answered, Silent, Handed
<1>2. Spec => []TInv
  BY InitTInv, StepTInv, PTL DEF Spec
<1> QED BY <1>1, <1>2, PTL DEF Spec, HandOutAttached
=============================================================================
