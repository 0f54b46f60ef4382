---------------------------- MODULE SessionLease ----------------------------
(***************************************************************************)
(* The lifetime lease on one session file                                  *)
(* (packages/coding-agent/src/session/session-lease.ts).                   *)
(*                                                                         *)
(* Every call is synchronous inside its process, so a process has one      *)
(* program counter; what interleaves are the system calls of different     *)
(* processes on the two shared things: the OS gate, which the kernel frees *)
(* when its holder dies, and the holder record, a file that outlives it.   *)
(* A process that died keeps its pid: pids are not reused.                 *)
(***************************************************************************)
EXTENDS Naturals, FiniteSets

CONSTANTS Procs,     \* processes, named by pid
          NoProc,    \* nobody
          Handles,   \* SessionLease objects a process can make
          MaxClaims  \* bound: claims a process makes

ASSUME LeaseAssumption == /\ NoProc \notin Procs
                          /\ IsFiniteSet(Handles)
                          /\ MaxClaims \in Nat

VARIABLES alive,   \* running processes
          pc,      \* where each process is
          gate,    \* the process whose handle has the OS gate
          record,  \* the holder record
          stuck,   \* records whose unlink failed
          held,    \* heldLeases of each process: "none", "gated" or "ungated"
          since,   \* the claim the held lease came from; stands for Date.now()
          refs,    \* its reference count
          handles  \* unreleased lease objects

vars == <<alive, pc, gate, record, stuck, held, since, refs, handles>>

NoRecord == [pid |-> NoProc, since |-> 0]
Records == [pid : Procs \cup {NoProc}, since : Nat]

TypeOK ==
    /\ alive \in SUBSET Procs
    /\ pc \in [Procs -> {"idle", "claim", "record", "refused", "check", "unlink",
                         "ungate", "probe"}]
    /\ gate \in Procs \cup {NoProc}
    /\ record \in Records
    /\ stuck \in SUBSET Records
    /\ held \in [Procs -> {"none", "gated", "ungated"}]
    /\ since \in [Procs -> Nat]
    /\ refs \in [Procs -> Nat]
    /\ handles \in [Procs -> SUBSET Handles]

Init ==
    /\ alive = Procs
    /\ pc = [p \in Procs |-> "idle"]
    /\ gate = NoProc /\ record = NoRecord /\ stuck = {}
    /\ held = [p \in Procs |-> "none"]
    /\ since = [p \in Procs |-> 0]
    /\ refs = [p \in Procs |-> 0]
    /\ handles = [p \in Procs |-> {}]

-----------------------------------------------------------------------------
At(p, l) == p \in alive /\ pc[p] = l
Goto(p, l) == pc' = [pc EXCEPT ![p] = l]

\* heldLeases.set and the first reference.
Holds(p, kind) ==
    \E h \in Handles : /\ held' = [held EXCEPT ![p] = kind]
                       /\ refs' = [refs EXCEPT ![p] = 1]
                       /\ handles' = [handles EXCEPT ![p] = {h}]

\* Mutant: the reference is handed out but not counted.
AddRefUncounted(p) ==
    /\ At(p, "idle") /\ held[p] # "none"
    /\ \E h \in Handles \ handles[p] : handles' = [handles EXCEPT ![p] = @ \cup {h}]
    /\ UNCHANGED <<alive, pc, gate, record, stuck, held, since, refs>>
\* acquireSessionLease while this process holds the lease, and retain.
AddRef(p) ==
    /\ At(p, "idle") /\ held[p] # "none"
    /\ \E h \in Handles \ handles[p] : handles' = [handles EXCEPT ![p] = @ \cup {h}]
    /\ refs' = [refs EXCEPT ![p] = @ + 1]
    /\ UNCHANGED <<alive, pc, gate, record, stuck, held, since>>

\* acquireSessionLease otherwise; since is bounded by MaxClaims.
Claim(p) ==
    /\ At(p, "idle") /\ held[p] = "none" /\ since[p] < MaxClaims
    /\ since' = [since EXCEPT ![p] = @ + 1]
    /\ Goto(p, "claim")
    /\ UNCHANGED <<alive, gate, record, stuck, held, refs, handles>>

\* Mutant: gate.acquired is not looked at.
GateAssumed(p) ==
    /\ At(p, "claim")
    /\ gate' = p /\ Goto(p, "record")
    /\ UNCHANGED <<alive, record, stuck, held, since, refs, handles>>
\* NativeFileLock.tryAcquire, in claimLease.
GateTaken(p) ==
    /\ At(p, "claim") /\ gate = NoProc
    /\ gate' = p /\ Goto(p, "record")
    /\ UNCHANGED <<alive, record, stuck, held, since, refs, handles>>

GateRefused(p) ==
    /\ At(p, "claim") /\ gate # NoProc
    /\ Goto(p, "refused")
    /\ UNCHANGED <<alive, gate, record, stuck, held, since, refs, handles>>

\* The gate cannot be created: a lease that excludes nobody.
GateUnwritable(p) ==
    /\ At(p, "claim")
    /\ Holds(p, "ungated") /\ Goto(p, "idle")
    /\ UNCHANGED <<alive, gate, record, stuck, since>>

\* tryAcquire throws anything else.
GateFails(p) ==
    /\ At(p, "claim")
    /\ Goto(p, "idle")
    /\ UNCHANGED <<alive, gate, record, stuck, held, since, refs, handles>>

\* writeLeaseRecord, by rename; an unwritable directory only costs the record.
RecordWritten(p) ==
    /\ At(p, "record")
    /\ record' \in {record, [pid |-> p, since |-> since[p]]}
    /\ Holds(p, "gated") /\ Goto(p, "idle")
    /\ UNCHANGED <<alive, gate, stuck, since>>

\* Mutant: the gate is given back but the lease is kept.
RecordFailsKept(p) ==
    /\ At(p, "record")
    /\ gate' = NoProc
    /\ Holds(p, "gated") /\ Goto(p, "idle")
    /\ UNCHANGED <<alive, record, stuck, since>>
\* Any other error gives the gate back and throws.
RecordFails(p) ==
    /\ At(p, "record")
    /\ gate' = NoProc /\ Goto(p, "idle")
    /\ UNCHANGED <<alive, record, stuck, held, since, refs, handles>>

LiveRecord(p) == record.pid \in alive \ {p}

\* The gate is taken: a recorded live holder, or the deadline, rejects the
\* opener; a record that is missing, stale or its own makes it poll on.
Refused(p) ==
    /\ At(p, "refused")
    /\ \/ Goto(p, "idle")
       \/ ~LiveRecord(p) /\ Goto(p, "claim")
    /\ UNCHANGED <<alive, gate, record, stuck, held, since, refs, handles>>

-----------------------------------------------------------------------------
(* release.                                                                 *)

\* Mutant: a lease object can be released again.
ReleaseAgain(p) ==
    /\ At(p, "idle") /\ handles[p] # {}
    /\ refs' = [refs EXCEPT ![p] = @ - 1]
    /\ IF refs[p] > 1
       THEN UNCHANGED <<pc, held>>
       ELSE held' = [held EXCEPT ![p] = "none"] /\ Goto(p, "check")
    /\ UNCHANGED <<alive, gate, record, stuck, since, handles>>
\* Mutant: the gate is given back before the record is removed.
ReleaseGateFirst(p) ==
    /\ At(p, "idle")
    /\ \E h \in handles[p] :
         /\ handles' = [handles EXCEPT ![p] = @ \ {h}]
         /\ refs' = [refs EXCEPT ![p] = @ - 1]
         /\ IF refs[p] > 1
            THEN UNCHANGED <<pc, held, gate>>
            ELSE /\ held' = [held EXCEPT ![p] = "none"] /\ Goto(p, "check")
                 /\ gate' = IF gate = p THEN NoProc ELSE gate
    /\ UNCHANGED <<alive, record, stuck, since>>
Release(p) ==
    /\ At(p, "idle")
    /\ \E h \in handles[p] :
         /\ handles' = [handles EXCEPT ![p] = @ \ {h}]
         /\ refs' = [refs EXCEPT ![p] = @ - 1]
         /\ IF refs[p] > 1
            THEN UNCHANGED <<pc, held>>
            ELSE held' = [held EXCEPT ![p] = "none"] /\ Goto(p, "check")
    /\ UNCHANGED <<alive, gate, record, stuck, since>>

\* Mutant: the record is removed whatever it says.
CheckSkipped(p) ==
    /\ At(p, "check")
    /\ Goto(p, "unlink")
    /\ UNCHANGED <<alive, gate, record, stuck, held, since, refs, handles>>
\* The record is read: only one of this very lease is removed.
CheckRecord(p) ==
    /\ At(p, "check")
    /\ Goto(p, IF record = [pid |-> p, since |-> since[p]] THEN "unlink" ELSE "ungate")
    /\ UNCHANGED <<alive, gate, record, stuck, held, since, refs, handles>>

\* unlinkSync removes whatever is there by now; a failure is only logged.
Unlink(p) ==
    /\ At(p, "unlink")
    /\ \/ record' = NoRecord /\ UNCHANGED stuck
       \/ stuck' = stuck \cup {record} /\ UNCHANGED record
    /\ Goto(p, "ungate")
    /\ UNCHANGED <<alive, gate, held, since, refs, handles>>

\* gate?.release(): a lease without a gate has nothing to give back.
Ungate(p) ==
    /\ At(p, "ungate")
    /\ gate' = IF gate = p THEN NoProc ELSE gate
    /\ Goto(p, "idle")
    /\ UNCHANGED <<alive, record, stuck, held, since, refs, handles>>

-----------------------------------------------------------------------------
(* inspectSessionLease takes a free gate for a moment.  With the gate taken *)
(* it only reads the record.                                                *)

Probe(p) ==
    /\ At(p, "idle") /\ held[p] = "none" /\ gate = NoProc
    /\ gate' = p /\ Goto(p, "probe")
    /\ UNCHANGED <<alive, record, stuck, held, since, refs, handles>>

ProbeEnds(p) ==
    /\ At(p, "probe")
    /\ gate' = NoProc /\ Goto(p, "idle")
    /\ UNCHANGED <<alive, record, stuck, held, since, refs, handles>>

\* SIGKILL or exit at any point: the kernel frees the gate, the record stays.
Crash(p) ==
    /\ p \in alive
    /\ alive' = alive \ {p}
    /\ gate' = IF gate = p THEN NoProc ELSE gate
    /\ pc' = [pc EXCEPT ![p] = "idle"]
    /\ held' = [held EXCEPT ![p] = "none"]
    /\ refs' = [refs EXCEPT ![p] = 0]
    /\ handles' = [handles EXCEPT ![p] = {}]
    /\ UNCHANGED <<record, stuck, since>>

Next == \E p \in Procs :
    \/ AddRef(p) \/ Claim(p) \/ GateTaken(p) \/ GateRefused(p) \/ GateUnwritable(p)
    \/ GateFails(p) \/ RecordWritten(p) \/ RecordFails(p) \/ Refused(p)
    \/ Release(p) \/ CheckRecord(p) \/ Unlink(p) \/ Ungate(p)
    \/ Probe(p) \/ ProbeEnds(p) \/ Crash(p)

Spec == Init /\ [][Next]_vars

-----------------------------------------------------------------------------
Owns(p) == held[p] = "gated"

\* Two processes never both believe they own the file.
MutualExclusion == \A p, q \in Procs : Owns(p) /\ Owns(q) => p = q

\* While any reference to a lease is unreleased, the process keeps holding it:
\* a transition that releases one reference and keeps another never lets the
\* file go, and the last release never leaves the lease behind.
ReferencesHold ==
    \A p \in Procs : /\ refs[p] = Cardinality(handles[p])
                     /\ handles[p] = {} <=> held[p] = "none"

\* A record that names a live process names the one that has the gate, so an
\* opener that is refused blames the right process: no record outlives its
\* owner's hold on the gate.  The exception is a record whose
\* removal failed.
RecordNamesHolder ==
    record.pid \in alive => gate = record.pid \/ record \in stuck

\* The record of an owner stays while it owns the file: a release by a process
\* whose lease excluded nobody, or one that runs late, never takes it away.
OwnersRecordStays ==
    [][\A p \in Procs : Owns(p) /\ record.pid = p /\ record.since = since[p]
                           => record' = record \/ ~Owns(p)']_vars

\* The owner the abstract specification sees.
Owner == IF \E p \in Procs : Owns(p) THEN CHOOSE p \in Procs : Owns(p) ELSE NoProc

Abstract == INSTANCE FileOwner WITH owner <- Owner

\* The leases of all processes together implement single ownership.
ImplementsFileOwner == Abstract!Spec
=============================================================================
