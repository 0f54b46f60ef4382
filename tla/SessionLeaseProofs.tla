-------------------------- MODULE SessionLeaseProofs --------------------------
(***************************************************************************)
(* Theorems about SessionLease for any number of processes, lease objects  *)
(* and claims.                                                             *)
(*                                                                         *)
(* MutualExclusion is not inductive: that two processes never both hold a  *)
(* gated lease rests on where the gate is at every step of a claim, a      *)
(* release and a probe.  LeaseInv says so.                                 *)
(***************************************************************************)
EXTENDS SessionLease, FiniteSetTheorems, TLAPS

\* A gated lease, and every step between taking the gate and giving it back,
\* has the gate.
GateHeld == \A p \in Procs : /\ Owns(p) => gate = p
                             /\ pc[p] \in {"record", "probe"} => gate = p

\* A process in the middle of a call holds no lease and no lease object.
BusyHoldsNothing == \A p \in Procs : pc[p] # "idle" => held[p] = "none"

\* The dead hold nothing.
DeadHoldNothing == \A p \in Procs \ alive : pc[p] = "idle" /\ held[p] = "none"

OwnRecord(p) == record.pid = p /\ record.since = since[p]

\* A record of the current claim of a process exists only while that process
\* owns the file or is giving it up; the one about to be unlinked is its own.
RecordOfClaim ==
    \A p \in Procs :
      /\ record.pid = p => record.since <= since[p]
      /\ OwnRecord(p) => /\ held[p] # "ungated"
                         /\ pc[p] \notin {"claim", "refused", "record"}
                         /\ pc[p] = "check" => gate = p
      /\ pc[p] = "unlink" => OwnRecord(p) /\ gate = p

LeaseInv == /\ TypeOK /\ GateHeld /\ BusyHoldsNothing /\ ReferencesHold
            /\ DeadHoldNothing /\ RecordOfClaim

USE LeaseAssumption

LEMMA HandlesFinite ==
    ASSUME NEW S \in SUBSET Handles
    PROVE  /\ IsFiniteSet(S) /\ Cardinality(S) \in Nat
           /\ Cardinality(S) = 0 <=> S = {}
  BY FS_Subset, FS_CardinalityType, FS_EmptySet

\* Counting one object more, one less, and the first one.
LEMMA HandlesCounted ==
    ASSUME NEW S \in SUBSET Handles, NEW h \in Handles
    PROVE  /\ h \notin S => Cardinality(S \cup {h}) = Cardinality(S) + 1
           /\ h \in S => Cardinality(S \ {h}) = Cardinality(S) - 1
           /\ Cardinality({h}) = 1
  BY HandlesFinite, FS_AddElement, FS_RemoveElement, FS_Singleton

LEMMA LeaseInit == Init => LeaseInv
  BY FS_EmptySet DEF Init, LeaseInv, TypeOK, Records, NoRecord, GateHeld, Owns,
     BusyHoldsNothing, ReferencesHold, DeadHoldNothing, RecordOfClaim, OwnRecord

LEMMA TypeStep == LeaseInv /\ [Next]_vars => TypeOK'
<1> SUFFICES ASSUME LeaseInv, [Next]_vars PROVE TypeOK'
  OBVIOUS
<1> USE DEF LeaseInv, TypeOK, Goto, At
<1>1. ASSUME NEW p \in Procs, AddRef(p) PROVE TypeOK'
  BY <1>1 DEF AddRef
<1>2. ASSUME NEW p \in Procs, Claim(p) PROVE TypeOK'
  BY <1>2 DEF Claim
<1>3. ASSUME NEW p \in Procs, GateTaken(p) PROVE TypeOK'
  BY <1>3 DEF GateTaken
<1>4. ASSUME NEW p \in Procs, GateRefused(p) \/ GateFails(p) \/ Refused(p) \/ CheckRecord(p)
      PROVE TypeOK'
  BY <1>4 DEF GateRefused, GateFails, Refused, CheckRecord
<1>5. ASSUME NEW p \in Procs, GateUnwritable(p) PROVE TypeOK'
  BY <1>5 DEF GateUnwritable, Holds
<1>6. ASSUME NEW p \in Procs, RecordWritten(p) PROVE TypeOK'
  BY <1>6 DEF RecordWritten, Holds, Records
<1>7. ASSUME NEW p \in Procs, RecordFails(p) PROVE TypeOK'
  BY <1>7 DEF RecordFails
<1>8. ASSUME NEW p \in Procs, Release(p) PROVE TypeOK'
  <2>1. PICK h \in handles[p] :
           /\ handles' = [handles EXCEPT ![p] = @ \ {h}]
           /\ refs' = [refs EXCEPT ![p] = @ - 1]
           /\ IF refs[p] > 1
              THEN UNCHANGED <<pc, held>>
              ELSE held' = [held EXCEPT ![p] = "none"] /\ Goto(p, "check")
    BY <1>8 DEF Release
  <2>2. refs[p] = Cardinality(handles[p]) /\ handles[p] \in SUBSET Handles
    BY DEF ReferencesHold
  <2>3. refs[p] \in Nat \ {0}
    BY <2>2, HandlesFinite
  <2>4. refs' \in [Procs -> Nat] /\ handles' \in [Procs -> SUBSET Handles]
    BY <2>1, <2>3
  <2>5. pc' \in [Procs -> {"idle", "claim", "record", "refused", "check", "unlink",
                           "ungate", "probe"}]
    BY <2>1
  <2>6. held' \in [Procs -> {"none", "gated", "ungated"}]
    BY <2>1
  <2> QED BY <1>8, <2>4, <2>5, <2>6 DEF Release
<1>9. ASSUME NEW p \in Procs, Unlink(p) PROVE TypeOK'
  BY <1>9 DEF Unlink, Records, NoRecord
<1>10. ASSUME NEW p \in Procs, Ungate(p) PROVE TypeOK'
  BY <1>10 DEF Ungate
<1>11. ASSUME NEW p \in Procs, Probe(p) \/ ProbeEnds(p) PROVE TypeOK'
  BY <1>11 DEF Probe, ProbeEnds
<1>12. ASSUME NEW p \in Procs, Crash(p) PROVE TypeOK'
  BY <1>12 DEF Crash
<1>13. CASE UNCHANGED vars
  BY <1>13 DEF vars
<1> QED
  BY <1>1, <1>2, <1>3, <1>4, <1>5, <1>6, <1>7, <1>8, <1>9, <1>10, <1>11, <1>12, <1>13
     DEF Next

-----------------------------------------------------------------------------
(* The gate.                                                               *)

Gated == GateHeld /\ BusyHoldsNothing /\ DeadHoldNothing

LEMMA GateStep == LeaseInv /\ [Next]_vars => Gated'
<1> SUFFICES ASSUME LeaseInv, [Next]_vars PROVE Gated'
  OBVIOUS
<1> USE DEF LeaseInv, TypeOK, Gated, GateHeld, BusyHoldsNothing, DeadHoldNothing, Owns,
            Goto, At
<1>1. ASSUME NEW p \in Procs, AddRef(p) \/ Claim(p) PROVE Gated'
  BY <1>1 DEF AddRef, Claim
<1>2. ASSUME NEW p \in Procs, GateTaken(p) \/ GateRefused(p) \/ GateFails(p) \/ Refused(p)
      PROVE Gated'
  BY <1>2 DEF GateTaken, GateRefused, GateFails, Refused
<1>3. ASSUME NEW p \in Procs, GateUnwritable(p) \/ RecordWritten(p) PROVE Gated'
  BY <1>3 DEF GateUnwritable, RecordWritten, Holds
<1>4. ASSUME NEW p \in Procs, RecordFails(p) PROVE Gated'
  BY <1>4 DEF RecordFails
<1>5. ASSUME NEW p \in Procs, Release(p) PROVE Gated'
  BY <1>5 DEF Release
<1>6. ASSUME NEW p \in Procs, CheckRecord(p) \/ Unlink(p) PROVE Gated'
  BY <1>6 DEF CheckRecord, Unlink
<1>7. ASSUME NEW p \in Procs, Ungate(p) PROVE Gated'
  BY <1>7 DEF Ungate
<1>8. ASSUME NEW p \in Procs, Probe(p) \/ ProbeEnds(p) PROVE Gated'
  BY <1>8 DEF Probe, ProbeEnds
<1>9. ASSUME NEW p \in Procs, Crash(p) PROVE Gated'
  BY <1>9 DEF Crash
<1>10. CASE UNCHANGED vars
  BY <1>10 DEF vars
<1> QED
  BY <1>1, <1>2, <1>3, <1>4, <1>5, <1>6, <1>7, <1>8, <1>9, <1>10 DEF Next

-----------------------------------------------------------------------------
(* The references.                                                         *)

LEMMA ReferencesStep == LeaseInv /\ [Next]_vars => ReferencesHold'
<1> SUFFICES ASSUME LeaseInv, [Next]_vars PROVE ReferencesHold'
  OBVIOUS
<1> USE DEF LeaseInv, TypeOK, ReferencesHold, BusyHoldsNothing, Goto, At
<1>1. ASSUME NEW p \in Procs, AddRef(p) PROVE ReferencesHold'
  <2>1. PICK h \in Handles \ handles[p] : handles' = [handles EXCEPT ![p] = @ \cup {h}]
    BY <1>1 DEF AddRef
  <2>2. Cardinality(handles[p] \cup {h}) = Cardinality(handles[p]) + 1
    BY <2>1, HandlesCounted
  <2> QED BY <1>1, <2>1, <2>2 DEF AddRef
<1>2. ASSUME NEW p \in Procs, GateUnwritable(p) \/ RecordWritten(p) PROVE ReferencesHold'
  <2>1. PICK kind \in {"gated", "ungated"}, h \in Handles :
           /\ held' = [held EXCEPT ![p] = kind]
           /\ refs' = [refs EXCEPT ![p] = 1]
           /\ handles' = [handles EXCEPT ![p] = {h}]
    BY <1>2 DEF GateUnwritable, RecordWritten, Holds
  <2>2. Cardinality({h}) = 1
    BY HandlesCounted, FS_EmptySet
  <2> QED BY <2>1, <2>2
<1>3. ASSUME NEW p \in Procs, Release(p) PROVE ReferencesHold'
  <2>1. PICK h \in handles[p] :
           /\ handles' = [handles EXCEPT ![p] = @ \ {h}]
           /\ refs' = [refs EXCEPT ![p] = @ - 1]
           /\ IF refs[p] > 1
              THEN UNCHANGED <<pc, held>>
              ELSE held' = [held EXCEPT ![p] = "none"] /\ Goto(p, "check")
    BY <1>3 DEF Release
  <2>2. handles[p] \in SUBSET Handles /\ handles[p] \ {h} \in SUBSET Handles /\ h \in Handles
    BY DEF TypeOK
  <2>3. /\ Cardinality(handles[p] \ {h}) = Cardinality(handles[p]) - 1
        /\ Cardinality(handles[p]) \in Nat
        /\ Cardinality(handles[p] \ {h}) = 0 <=> handles[p] \ {h} = {}
        /\ Cardinality(handles[p] \ {h}) \in Nat
    BY <2>2, HandlesCounted, HandlesFinite
  <2>4. CASE refs[p] > 1
    BY <2>1, <2>3, <2>4
  <2>5. CASE ~(refs[p] > 1)
    BY <2>1, <2>3, <2>5
  <2> QED BY <2>4, <2>5
<1>4. ASSUME NEW p \in Procs, Crash(p) PROVE ReferencesHold'
  BY <1>4, FS_EmptySet DEF Crash
<1>5. ASSUME NEW p \in Procs,
             \/ Claim(p) \/ GateTaken(p) \/ GateRefused(p) \/ GateFails(p) \/ RecordFails(p)
             \/ Refused(p) \/ CheckRecord(p) \/ Unlink(p) \/ Ungate(p) \/ Probe(p)
             \/ ProbeEnds(p)
      PROVE  ReferencesHold'
  <2>1. UNCHANGED <<held, refs, handles>>
    BY <1>5 DEF Claim, GateTaken, GateRefused, GateFails, RecordFails, Refused, CheckRecord,
       Unlink, Ungate, Probe, ProbeEnds
  <2> QED BY <2>1
<1>6. CASE UNCHANGED vars
  BY <1>6 DEF vars
<1> QED
  BY <1>1, <1>2, <1>3, <1>4, <1>5, <1>6 DEF Next

-----------------------------------------------------------------------------
(* The record.                                                             *)

LEMMA RecordStep == LeaseInv /\ [Next]_vars => RecordOfClaim'
<1> SUFFICES ASSUME LeaseInv, [Next]_vars PROVE RecordOfClaim'
  OBVIOUS
<1> USE DEF LeaseInv, TypeOK, Records, RecordOfClaim, OwnRecord, BusyHoldsNothing, Goto, At
<1>1. ASSUME NEW p \in Procs, AddRef(p) PROVE RecordOfClaim'
  BY <1>1 DEF AddRef
<1>2. ASSUME NEW p \in Procs, Claim(p) PROVE RecordOfClaim'
  BY <1>2 DEF Claim
<1>3. ASSUME NEW p \in Procs, GateTaken(p) PROVE RecordOfClaim'
  BY <1>3 DEF GateTaken
<1>4. ASSUME NEW p \in Procs, GateRefused(p) \/ GateFails(p) \/ Refused(p) PROVE RecordOfClaim'
  BY <1>4 DEF GateRefused, GateFails, Refused
<1>5. ASSUME NEW p \in Procs, GateUnwritable(p) PROVE RecordOfClaim'
  BY <1>5 DEF GateUnwritable, Holds
<1>6. ASSUME NEW p \in Procs, RecordWritten(p) PROVE RecordOfClaim'
  BY <1>6 DEF RecordWritten, Holds, GateHeld
<1>7. ASSUME NEW p \in Procs, RecordFails(p) PROVE RecordOfClaim'
  BY <1>7 DEF RecordFails, GateHeld
<1>8. ASSUME NEW p \in Procs, Release(p) PROVE RecordOfClaim'
  <2>1. /\ UNCHANGED <<gate, record, since>>
        /\ \/ UNCHANGED <<pc, held>>
           \/ held' = [held EXCEPT ![p] = "none"] /\ pc' = [pc EXCEPT ![p] = "check"]
    BY <1>8 DEF Release
  <2>2. handles[p] # {} /\ held[p] # "none"
    BY <1>8 DEF Release, ReferencesHold
  <2> QED BY <2>1, <2>2 DEF GateHeld, Owns
<1>9. ASSUME NEW p \in Procs, CheckRecord(p) PROVE RecordOfClaim'
  BY <1>9 DEF CheckRecord
<1>10. ASSUME NEW p \in Procs, Unlink(p) PROVE RecordOfClaim'
  BY <1>10 DEF Unlink, NoRecord
<1>11. ASSUME NEW p \in Procs, Ungate(p) PROVE RecordOfClaim'
  BY <1>11 DEF Ungate
<1>12. ASSUME NEW p \in Procs, Probe(p) PROVE RecordOfClaim'
  BY <1>12 DEF Probe
<1>13. ASSUME NEW p \in Procs, ProbeEnds(p) PROVE RecordOfClaim'
  BY <1>13 DEF ProbeEnds, GateHeld
<1>14. ASSUME NEW p \in Procs, Crash(p) PROVE RecordOfClaim'
  BY <1>14 DEF Crash
<1>15. CASE UNCHANGED vars
  BY <1>15 DEF vars
<1> QED
  BY <1>1, <1>2, <1>3, <1>4, <1>5, <1>6, <1>7, <1>8, <1>9, <1>10, <1>11, <1>12, <1>13,
     <1>14, <1>15 DEF Next

-----------------------------------------------------------------------------
(* The theorems.                                                           *)

LEMMA LeaseInductive == LeaseInv /\ [Next]_vars => LeaseInv'
  BY TypeStep, GateStep, ReferencesStep, RecordStep DEF LeaseInv, Gated

LEMMA LeaseInvariant == Spec => []LeaseInv
  BY LeaseInit, LeaseInductive, PTL DEF Spec

\* Every variable keeps its type, the reference count its sign.
THEOREM LeaseTyped == Spec => []TypeOK
<1>1. LeaseInv => TypeOK
  BY DEF LeaseInv
<1> QED BY <1>1, LeaseInvariant, PTL

\* Two processes never both own the session file, whatever crashes and however
\* claims, probes and releases interleave.
THEOREM LeaseExclusive == Spec => []MutualExclusion
<1>1. LeaseInv => MutualExclusion
  BY DEF LeaseInv, GateHeld, MutualExclusion
<1> QED BY <1>1, LeaseInvariant, PTL

\* The lease is held exactly while a reference to it is unreleased.
THEOREM LeaseCounted == Spec => []ReferencesHold
<1>1. LeaseInv => ReferencesHold
  BY DEF LeaseInv
<1> QED BY <1>1, LeaseInvariant, PTL

LEMMA RecordKept ==
    LeaseInv /\ [Next]_vars =>
      \A p \in Procs : Owns(p) /\ record.pid = p /\ record.since = since[p]
                        => record' = record \/ ~Owns(p)'
<1> SUFFICES ASSUME LeaseInv, [Next]_vars, NEW p \in Procs, Owns(p)
             PROVE  record' = record
  OBVIOUS
<1> USE DEF LeaseInv, GateHeld, BusyHoldsNothing, RecordOfClaim, Owns, At
<1>1. gate = p /\ pc[p] = "idle"
  OBVIOUS
<1>2. ASSUME NEW q \in Procs, RecordWritten(q) PROVE FALSE
  BY <1>1, <1>2 DEF RecordWritten
<1>3. ASSUME NEW q \in Procs, Unlink(q) PROVE FALSE
  BY <1>1, <1>3 DEF Unlink
<1> QED
  BY <1>2, <1>3 DEF Next, vars, AddRef, Claim, GateTaken, GateRefused, GateUnwritable,
     GateFails, RecordFails, Refused, Release, CheckRecord, Ungate, Probe, ProbeEnds, Crash

\* No release takes away the record of the process that owns the file.
THEOREM OwnersRecordKept == Spec => OwnersRecordStays
<1>1. LeaseInv /\ [Next]_vars =>
        [\A p \in Procs : Owns(p) /\ record.pid = p /\ record.since = since[p]
                          => record' = record \/ ~Owns(p)']_vars
  BY RecordKept
<1> QED BY <1>1, LeaseInvariant, PTL DEF Spec, OwnersRecordStays

\* A record of a live process belongs to the lease it holds or is giving up,
\* unless its removal failed.
RecordIsLive ==
    \A p \in alive : record.pid = p =>
      \/ record \in stuck
      \/ OwnRecord(p) /\ (Owns(p) \/ pc[p] \in {"check", "unlink"})

LEMMA RecordLiveStep == LeaseInv /\ RecordIsLive /\ [Next]_vars => RecordIsLive'
<1> SUFFICES ASSUME LeaseInv, RecordIsLive, [Next]_vars PROVE RecordIsLive'
  OBVIOUS
<1> USE DEF LeaseInv, TypeOK, Records, RecordIsLive, OwnRecord, Owns, BusyHoldsNothing,
            Goto, At
<1>1. ASSUME NEW p \in Procs, AddRef(p) PROVE RecordIsLive'
  BY <1>1 DEF AddRef
<1>2. ASSUME NEW p \in Procs, Claim(p) PROVE RecordIsLive'
  BY <1>2 DEF Claim
<1>3. ASSUME NEW p \in Procs,
             GateTaken(p) \/ GateRefused(p) \/ GateFails(p) \/ RecordFails(p) \/ Refused(p)
      PROVE  RecordIsLive'
  BY <1>3 DEF GateTaken, GateRefused, GateFails, RecordFails, Refused
<1>4. ASSUME NEW p \in Procs, GateUnwritable(p) PROVE RecordIsLive'
  BY <1>4 DEF GateUnwritable, Holds
<1>5. ASSUME NEW p \in Procs, RecordWritten(p) PROVE RecordIsLive'
  BY <1>5 DEF RecordWritten, Holds
<1>6. ASSUME NEW p \in Procs, Release(p) PROVE RecordIsLive'
  BY <1>6 DEF Release
<1>7. ASSUME NEW p \in Procs, CheckRecord(p) PROVE RecordIsLive'
  BY <1>7 DEF CheckRecord
<1>8. ASSUME NEW p \in Procs, Unlink(p) PROVE RecordIsLive'
  BY <1>8, LeaseAssumption DEF Unlink, NoRecord
<1>9. ASSUME NEW p \in Procs, Ungate(p) \/ Probe(p) \/ ProbeEnds(p) PROVE RecordIsLive'
  BY <1>9 DEF Ungate, Probe, ProbeEnds
<1>10. ASSUME NEW p \in Procs, Crash(p) PROVE RecordIsLive'
  BY <1>10 DEF Crash
<1>11. CASE UNCHANGED vars
  BY <1>11 DEF vars
<1> QED
  BY <1>1, <1>2, <1>3, <1>4, <1>5, <1>6, <1>7, <1>8, <1>9, <1>10, <1>11 DEF Next

\* A record that names a live process names the one at the gate, or could not
\* be removed.
THEOREM RecordTruthful == Spec => []RecordNamesHolder
<1>1. Init => RecordIsLive
  BY DEF Init, NoRecord, RecordIsLive
<1>2. Spec => []RecordIsLive
  BY <1>1, LeaseInvariant, RecordLiveStep, PTL DEF Spec
<1>3. LeaseInv /\ RecordIsLive => RecordNamesHolder
  BY DEF LeaseInv, TypeOK, GateHeld, RecordOfClaim, RecordIsLive, RecordNamesHolder
<1> QED BY <1>2, <1>3, LeaseInvariant, PTL

-----------------------------------------------------------------------------
(* Refinement.                                                             *)

\* The abstract owner is the process that owns the file, or nobody.
OwnerIs == \/ Owner = NoProc
           \/ \E p \in Procs : Owns(p) /\ Owner = p

LEMMA OwnerFound == LeaseInv => OwnerIs
  BY DEF Owner, OwnerIs

\* The file never goes from one owner to another in one step.
LEMMA NoHandover ==
    ASSUME LeaseInv, [Next]_vars, NEW p \in Procs, NEW q \in Procs, Owns(p), Owns(q)'
    PROVE  p = q
<1> USE DEF LeaseInv, TypeOK, GateHeld, Owns, At
<1>1. CASE Owns(q)
  BY <1>1
<1>2. CASE ~Owns(q)
  <2>1. ASSUME NEW r \in Procs, RecordWritten(r) PROVE p = q
    BY <1>2, <2>1 DEF RecordWritten, Holds
  <2>2. ASSUME NEW r \in Procs, GateUnwritable(r) PROVE FALSE
    BY <1>2, <2>2 DEF GateUnwritable, Holds
  <2>3. ASSUME NEW r \in Procs, Release(r) \/ Crash(r) PROVE FALSE
    BY <1>2, <2>3 DEF Release, Crash
  <2> QED
    BY <1>2, <2>1, <2>2, <2>3 DEF Next, vars, AddRef, Claim, GateTaken, GateRefused,
       GateFails, RecordFails, Refused, CheckRecord, Unlink, Ungate, Probe, ProbeEnds
<1> QED BY <1>1, <1>2

LEMMA AbstractInit == Init => Abstract!Init
<1> SUFFICES ASSUME Init PROVE Owner = NoProc
  BY DEF Abstract!Init
<1>1. \A p \in Procs : ~Owns(p)
  BY DEF Init, Owns
<1> QED BY <1>1 DEF Owner

LEMMA AbstractStep == LeaseInv /\ LeaseInv' /\ [Next]_vars => [Abstract!Next]_Owner
<1> SUFFICES ASSUME LeaseInv, LeaseInv', [Next]_vars PROVE [Abstract!Next]_Owner
  OBVIOUS
<1>1. OwnerIs /\ OwnerIs'
  BY OwnerFound, PTL
<1>2. CASE Owner = NoProc
  BY <1>1, <1>2 DEF OwnerIs, Abstract!Next, Abstract!Take
<1>3. CASE Owner # NoProc /\ Owner' = NoProc
  BY <1>3 DEF Abstract!Next, Abstract!Give
<1>4. CASE Owner # NoProc /\ Owner' # NoProc
  <2>1. PICK p \in Procs : Owns(p) /\ Owner = p
    BY <1>1, <1>4 DEF OwnerIs
  <2>2. PICK q \in Procs : Owns(q)' /\ Owner' = q
    BY <1>1, <1>4 DEF OwnerIs
  <2> QED BY <2>1, <2>2, NoHandover
<1> QED BY <1>2, <1>3, <1>4

\* The leases of all processes together are a file with one owner at a time,
\* taken when free and given back before anyone else takes it.
THEOREM LeaseImplementsFileOwner == Spec => ImplementsFileOwner
<1>1. Init => Abstract!Init
  BY AbstractInit
<1>2. LeaseInv /\ LeaseInv' /\ [Next]_vars => [Abstract!Next]_Owner
  BY AbstractStep
<1> QED
  BY <1>1, <1>2, LeaseInvariant, PTL DEF Spec, ImplementsFileOwner, Abstract!Spec
=============================================================================
