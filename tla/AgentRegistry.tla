--------------------------- MODULE AgentRegistry ---------------------------
(***************************************************************************)
(* One id of the process-wide agent registry                               *)
(* (packages/coding-agent/src/registry/agent-registry.ts).                 *)
(*                                                                         *)
(* The registry maps an id to an AgentRef OBJECT.  Every expected-ref check *)
(* of the code compares object identity, so a ref is modelled by a number: *)
(* Refs are handed out in order, and a ref that was replaced or            *)
(* unregistered keeps its fields, because stale asynchronous work still    *)
(* holds the object.  No operation on one id reads the entry of another,   *)
(* so one id is enough; AgentLifecycle says what the roots add.            *)
(***************************************************************************)
EXTENDS Naturals

CONSTANTS MaxRefs,      \* bound: AgentRef objects ever made for the id
          MaxSessions,  \* bound: AgentSession objects ever built for the id
          MaxRuns       \* bound: turns started, see RunStarts

ASSUME BoundsAssumption == /\ MaxRefs \in Nat \ {0}
                           /\ MaxSessions \in Nat \ {0}
                           /\ MaxRuns \in Nat

Refs == 1..MaxRefs
Sessions == 1..MaxSessions

\* 0 stands for undefined (no ref) and null (no session).
NoRef == 0
NoSession == 0

VARIABLES cur,       \* the ref the id resolves to, or NoRef
          status,    \* each ref's status; "none" before the object exists
          attached,  \* each ref's session field
          runGen     \* #runGenerations, by ref

registryVars == <<cur, status, attached, runGen>>

Statuses == {"running", "idle", "parked", "aborted"}

RegistryTypeOK ==
    /\ cur \in Refs \cup {NoRef}
    /\ status \in [Refs -> Statuses \cup {"none"}]
    /\ attached \in [Refs -> Sessions \cup {NoSession}]
    /\ runGen \in [Refs -> Nat]

-----------------------------------------------------------------------------
(* register, and reopen's registration of a fresh generation: a new object
   takes the id.                                                            *)
Fresh(r) == status[r] = "none" /\ \A q \in 1..(r - 1) : status[q] # "none"

Register(r, st) ==
    /\ Fresh(r)
    /\ cur' = r
    /\ status' = [status EXCEPT ![r] = st]

\* reopen: only the id's own detached tombstone starts a new generation.
Reopenable(r) == cur = r /\ status[r] = "aborted" /\ attached[r] = NoSession

\* registerIfAvailable with an expected ref.
Claimable(r) == cur = r /\ status[r] = "parked" /\ attached[r] = NoSession

\* Mutant: attachSession takes a killed ref.
AttachableAborted(r) == cur = r
\* attachSession refuses a replaced and a killed ref.
Attachable(r) == cur = r /\ status[r] # "aborted"

\* setStatus changes anything only on a registered, non-terminal ref.
Settable(r) == cur = r /\ status[r] # "aborted"

\* Mutant: the run generation goes backwards.
SetStatusBackwards(r, st) ==
    /\ status' = [status EXCEPT ![r] = st]
    /\ runGen' = IF st = "running" /\ status[r] # "running"
                 THEN [runGen EXCEPT ![r] = @ - 1] ELSE runGen
\* setStatus on a ref that has just been checked to be settable.
SetStatus(r, st) ==
    /\ status' = [status EXCEPT ![r] = st]
    /\ runGen' = IF st = "running" /\ status[r] # "running"
                 THEN [runGen EXCEPT ![r] = @ + 1] ELSE runGen

AttachSession(r, s) == attached' = [attached EXCEPT ![r] = s]
DetachSession(r) == attached' = [attached EXCEPT ![r] = NoSession]

\* The session of the registered ref, NoSession when there is none.
LiveSession == IF cur = NoRef THEN NoSession ELSE attached[cur]
=============================================================================
