---------------------------- MODULE AsyncJobsProofs ----------------------------
(***************************************************************************)
(* Theorems about AsyncJobs for any number of jobs and of session          *)
(* transitions.  The argument: until its run settles a job has the row and *)
(* no eviction is armed; a tool call holds the row it looks at; and what a *)
(* delivery needs to become visible (a place behind the sink, an epoch     *)
(* that is current, a marker that does not suppress it) is taken away by   *)
(* whoever reports the result first.                                       *)
(***************************************************************************)
EXTENDS AsyncJobs, FiniteSetTheorems, SequenceTheorems, TLAPS

JobType == [status : {"none", "running", "done", "cancelled"},
            fg : BOOLEAN, settled : BOOLEAN, born : Epochs,
            over : BOOLEAN, cut : BOOLEAN]
FieldsType == [row : 0..MaxGen, suppressed : BOOLEAN, watched : BOOLEAN,
               consumed : BOOLEAN, released : BOOLEAN,
               timer : {"off", "armed", "waiting"}, timerOn : 0..MaxGen,
               dlv : [Gens -> Pcs], stamp : [Gens -> Epochs]]
ShownType == UNION {[1..n -> Epochs] : n \in 0..2}

Seen(g) == shown[g] # << >>
Behind == {"format", "parked", "drained", "built"}  \* at the sink or past it

(* Jobs are made in order; one that is not made has left no trace; only a    *)
(* finished one has a delivery, and a foreground one never has.              *)
MadeInOrder ==
    /\ Made = 1..Cardinality(Made)
    /\ \A g \in Gens :
        /\ Status(g) = "none" => ~jobs[g].settled /\ ~jobs[g].fg /\ ~jobs[g].cut /\ ~Seen(g)
        /\ Status(g) = "running" => ~jobs[g].settled
        /\ Status(g) = "done" => jobs[g].settled
        /\ m.dlv[g] # "none" => Status(g) = "done" /\ ~jobs[g].fg
    /\ HasRow(m) => Status(m.row) # "none"

(* An eviction is armed, and a result consumed, only when the job in the row *)
(* has settled; without a row no marker is left.                             *)
Marked ==
    /\ m.timer # "off" => HasRow(m) /\ jobs[m.row].settled
    /\ m.consumed => HasRow(m) /\ jobs[m.row].settled
    /\ ~HasRow(m) => ~m.suppressed /\ ~m.watched /\ ~m.released
    /\ HasRow(m) /\ Status(m.row) = "running" /\ ~jobs[m.row].fg => ~m.suppressed

(* A tool call holds its row, which no eviction is about to take; a          *)
(* foreground row is hidden, and raced or given back.                        *)
Tools ==
    /\ Tooling => turn = "work" /\ m.timer # "waiting"
    /\ wait # 0 => m.row = wait /\ ~jobs[wait].fg
    /\ call # 0 => m.row = call /\ jobs[call].fg /\ ~m.released
    /\ m.watched => wait # 0 /\ m.dlv[wait] = "none"
    /\ m.released => HasRow(m) /\ jobs[m.row].fg /\ ~jobs[m.row].settled
    /\ HasRow(m) /\ jobs[m.row].fg => m.suppressed /\ (call = m.row \/ m.released)

(* Where a delivery can be, and of which epoch it is.                        *)
Places ==
    /\ \A g \in Gens : m.dlv[g] \in {"drained", "built"} => turn = "boundary"
    /\ \A g \in Gens : m.stamp[g] <= epoch
    /\ HasRow(m) /\ m.dlv[m.row] \in Behind => m.stamp[m.row] = epoch

(* Nothing brings the result of g any more: its row is gone, and what is     *)
(* left of its delivery is stale.                                            *)
Gone(g) == m.row # g /\ call # g
           /\ (m.dlv[g] # "none" => m.dlv[g] = "format" /\ m.stamp[g] < epoch)

CutOff == \A g \in Gens :
    jobs[g].cut => Gone(g) \/ (m.row = g /\ Status(g) = "cancelled" /\ call # g)

JobsInv ==
    /\ TypeOK /\ RunningHasRow
    /\ MadeInOrder /\ Marked /\ Tools /\ Places /\ CutOff

(* While a clean job has the row, no other one has a delivery.               *)
Alone == HasRow(m) /\ Clean(m.row) =>
            \A h \in Gens \ {m.row} : m.dlv[h] = "none"

(* A clean job in the row that nobody will show was shown.                   *)
Spoken ==
    HasRow(m) /\ Clean(m.row) =>
        /\ jobs[m.row].fg => ~m.consumed
        /\ Status(m.row) = "done" /\ ~jobs[m.row].fg /\ (m.suppressed \/ m.consumed)
              => Seen(m.row)

(* What was shown is shown once, and nothing is left that could show it.     *)
Silenced(g) ==
    \/ Gone(g)
    \/ /\ m.row = g /\ m.consumed /\ Status(g) = "done" /\ ~jobs[g].fg
       /\ m.dlv[g] # "none" => m.suppressed /\ m.dlv[g] # "built" /\ m.dlv[g] \in Behind
    \/ m.row = g /\ jobs[g].fg /\ m.released

OnceEach == \A g \in Gens : Clean(g) /\ Seen(g) => Len(shown[g]) = 1 /\ Silenced(g)

Heard == Alone /\ Spoken /\ OnceEach /\ NotLost

ToldInv == JobsInv /\ Heard
-----------------------------------------------------------------------------
LEMMA Bounds ==
  /\ MaxGen \in Nat \ {0} /\ MaxEpoch \in Nat
  /\ Gens \subseteq 0..MaxGen /\ 0 \in 0..MaxGen /\ 0 \notin Gens /\ \A n \in 0..MaxGen : n # 0 => n \in Gens
  /\ Gens \subseteq Nat /\ Epochs \subseteq Nat /\ 0 \in Epochs
BY AsyncJobsAssumption DEF Gens, Epochs

(* The manager's methods, field by field.                                    *)
LEMMA EvictFacts ==
  ASSUME NEW r \in FieldsType, NEW c, c = evictJob(r)
  PROVE  /\ c \in FieldsType
         /\ c.row = 0 /\ ~c.suppressed /\ ~c.watched /\ ~c.consumed
         /\ c.timer = "off" /\ c.timerOn = r.timerOn
         /\ c.released = r.released /\ c.dlv = r.dlv /\ c.stamp = r.stamp
BY Bounds DEF evictJob, FieldsType

LEMMA ArmFacts ==
  ASSUME NEW r \in FieldsType, NEW c, c = scheduleEviction(r)
  PROVE  /\ c \in FieldsType
         /\ c.row = r.row /\ c.suppressed = r.suppressed /\ c.watched = r.watched
         /\ c.consumed = r.consumed /\ c.released = r.released
         /\ c.timer = "armed" /\ c.timerOn = r.timerOn
         /\ c.dlv = r.dlv /\ c.stamp = r.stamp
BY Bounds DEF scheduleEviction, FieldsType

LEMMA AcknowledgeFacts ==
  ASSUME NEW r \in FieldsType, NEW c, c = acknowledgeDeliveries(r)
  PROVE  /\ c \in FieldsType
         /\ c.row = r.row /\ c.suppressed /\ c.watched = r.watched
         /\ c.consumed = r.consumed /\ c.released = r.released
         /\ c.timer = r.timer /\ c.timerOn = r.timerOn /\ c.stamp = r.stamp
         /\ \A g \in Gens : c.dlv[g] =
               IF r.dlv[g] \in {"queued", "retry"} THEN "none" ELSE r.dlv[g]
<1> DEFINE d == [g \in Gens |-> IF g \in Queued(r) THEN "none" ELSE r.dlv[g]]
<1>1. d \in [Gens -> Pcs]
  BY DEF FieldsType, Pcs
<1>2. c = [r EXCEPT !.suppressed = TRUE, !.dlv = d]
  BY DEF acknowledgeDeliveries
<1>3. \A g \in Gens : d[g] = IF r.dlv[g] \in {"queued", "retry"} THEN "none" ELSE r.dlv[g]
  BY DEF Queued
<1> HIDE DEF d
<1> QED
  BY <1>1, <1>2, <1>3 DEF FieldsType

LEMMA ConsumeFacts ==
  ASSUME NEW r \in FieldsType, NEW js, NEW c, c = consumeJobResult(r, js)
  PROVE  /\ c \in FieldsType
         /\ c.row = r.row /\ c.suppressed = r.suppressed /\ c.watched = r.watched
         /\ c.released = r.released /\ c.timerOn = r.timerOn
         /\ c.dlv = r.dlv /\ c.stamp = r.stamp
         /\ \/ c.consumed = r.consumed /\ c.timer = r.timer
               /\ (~HasRow(r) \/ r.consumed \/ js[r.row].status = "running"
                   \/ ~js[r.row].settled)
            \/ c.consumed /\ c.timer \in {r.timer, "armed"}
               /\ HasRow(r) /\ js[r.row].settled
<1> DEFINE u == [r EXCEPT !.consumed = TRUE]
<1>1. /\ u \in FieldsType
      /\ u.row = r.row /\ u.suppressed = r.suppressed /\ u.watched = r.watched
      /\ u.released = r.released /\ u.timerOn = r.timerOn /\ u.timer = r.timer
      /\ u.dlv = r.dlv /\ u.stamp = r.stamp /\ u.consumed
  BY DEF FieldsType
<1>2. \/ /\ c = r
         /\ ~HasRow(r) \/ r.consumed \/ js[r.row].status = "running" \/ ~js[r.row].settled
      \/ (c = u \/ c = scheduleEviction(u)) /\ HasRow(r) /\ js[r.row].settled
  BY DEF consumeJobResult
<1> HIDE DEF u
<1> QED
  BY <1>1, <1>2, ArmFacts

LEMMA ReportedFacts ==
  ASSUME NEW r \in FieldsType, NEW js, NEW c, c = consumeJobResults(r, js)
  PROVE  /\ c \in FieldsType
         /\ c.row = r.row /\ c.suppressed /\ c.watched = r.watched
         /\ c.released = r.released /\ c.timerOn = r.timerOn /\ c.stamp = r.stamp
         /\ \A g \in Gens : c.dlv[g] =
               IF r.dlv[g] \in {"queued", "retry"} THEN "none" ELSE r.dlv[g]
         /\ \/ c.consumed = r.consumed /\ c.timer = r.timer
               /\ (~HasRow(r) \/ r.consumed \/ js[r.row].status = "running"
                   \/ ~js[r.row].settled)
            \/ c.consumed /\ c.timer \in {r.timer, "armed"}
               /\ HasRow(r) /\ js[r.row].settled
<1> DEFINE a == acknowledgeDeliveries(r)
<1>1. /\ a \in FieldsType
      /\ a.row = r.row /\ a.suppressed /\ a.watched = r.watched
      /\ a.consumed = r.consumed /\ a.released = r.released
      /\ a.timer = r.timer /\ a.timerOn = r.timerOn /\ a.stamp = r.stamp
      /\ \A g \in Gens : a.dlv[g] =
            IF r.dlv[g] \in {"queued", "retry"} THEN "none" ELSE r.dlv[g]
  BY AcknowledgeFacts
<1>2. c = consumeJobResult(a, js)
  BY DEF consumeJobResults
<1> HIDE DEF a
<1> QED
  BY <1>1, <1>2, ConsumeFacts DEF HasRow
LEMMA EnqueueFacts ==
  ASSUME NEW r \in FieldsType, NEW g \in Gens, r.dlv[g] = "none",
         NEW c, c = enqueueDelivery(r, g)
  PROVE  /\ c \in FieldsType
         /\ c.row = r.row /\ c.suppressed = r.suppressed /\ c.watched = r.watched
         /\ c.consumed = r.consumed /\ c.released = r.released
         /\ c.timer = r.timer /\ c.timerOn = r.timerOn /\ c.stamp = r.stamp
         /\ \A h \in Gens : h # g => c.dlv[h] = r.dlv[h]
         /\ c.dlv[g] = IF r.suppressed \/ r.watched \/ ~HasRow(r) THEN "none" ELSE "queued"
<1>1. CASE isDeliverySuppressed(r) \/ ~HasRow(r)
  BY <1>1 DEF enqueueDelivery, isDeliverySuppressed
<1>2. CASE ~(isDeliverySuppressed(r) \/ ~HasRow(r))
  <2>1. c = [r EXCEPT !.dlv[g] = "queued"]
    BY <1>2 DEF enqueueDelivery, FieldsType
  <2> QED
    BY <1>2, <2>1 DEF isDeliverySuppressed, FieldsType, Pcs
<1> QED
  BY <1>1, <1>2

(* A result that came while its job was watched.                             *)
Missed(r, js) ==
    /\ r.watched /\ HasRow(r) /\ js[r.row].status = "done"
    /\ ~r.suppressed /\ ~r.consumed
    /\ \A h \in Gens : r.dlv[h] = "none"

LEMMA UnwatchFacts ==
  ASSUME NEW r \in FieldsType, NEW js, NEW c, c = unwatchJobs(r, js)
  PROVE  /\ c \in FieldsType
         /\ c.row = r.row /\ c.suppressed = r.suppressed /\ ~c.watched
         /\ c.consumed = r.consumed /\ c.released = r.released
         /\ c.timer = r.timer /\ c.timerOn = r.timerOn /\ c.stamp = r.stamp
         /\ \A h \in Gens : h # r.row => c.dlv[h] = r.dlv[h]
         /\ HasRow(r) =>
               c.dlv[r.row] = IF Missed(r, js) THEN "queued" ELSE r.dlv[r.row]
<1> DEFINE u == [r EXCEPT !.watched = FALSE]
           quiet == \A h \in Gens : r.dlv[h] = "none"
<1>1. /\ u \in FieldsType /\ u.row = r.row /\ u.suppressed = r.suppressed /\ ~u.watched
      /\ u.consumed = r.consumed /\ u.released = r.released
      /\ u.timer = r.timer /\ u.timerOn = r.timerOn /\ u.stamp = r.stamp
      /\ u.dlv = r.dlv
  BY DEF FieldsType
<1>2. Queued(r) \cup InFlight(r) = {} <=> quiet
  BY DEF Queued, InFlight, FieldsType, Pcs
<1>3. c = IF \/ ~r.watched \/ ~HasRow(r) \/ js[r.row].status # "done"
             \/ r.suppressed \/ r.consumed \/ ~quiet
          THEN u ELSE enqueueDelivery(u, r.row)
  BY <1>1, <1>2 DEF unwatchJobs, isDeliverySuppressed
<1>4. HasRow(r) => r.row \in Gens
  BY Bounds DEF HasRow, FieldsType
<1> HIDE DEF u
<1>5. CASE Missed(r, js)
  <2>1. c = enqueueDelivery(u, r.row)
    BY <1>3, <1>5 DEF Missed
  <2> QED
    BY <1>1, <1>4, <1>5, <2>1, EnqueueFacts DEF Missed, HasRow
<1>6. CASE ~Missed(r, js)
  BY <1>1, <1>3, <1>6 DEF Missed
<1> QED
  BY <1>5, <1>6

LEMMA ClaimFacts ==
  ASSUME NEW r \in FieldsType, NEW g \in Gens, NEW fg \in BOOLEAN,
         NEW c, c = claimJobId(r, g, fg)
  PROVE  /\ c \in FieldsType
         /\ c.row = g /\ c.suppressed = fg /\ c.watched = r.watched
         /\ ~c.consumed /\ ~c.released
         /\ c.timer = r.timer /\ c.timerOn = r.timerOn
         /\ c.stamp = r.stamp /\ c.dlv = r.dlv
BY Bounds DEF claimJobId, FieldsType

LEMMA DiscardFacts ==
  ASSUME NEW r \in FieldsType, NEW c, c = discardForegroundJob(r)
  PROVE  /\ c \in FieldsType
         /\ c.row = 0 /\ ~c.suppressed /\ ~c.watched /\ ~c.consumed /\ ~c.released
         /\ c.timer = "off" /\ c.timerOn = r.timerOn /\ c.dlv = r.dlv /\ c.stamp = r.stamp
<1> DEFINE u == [r EXCEPT !.released = FALSE]
<1>1. u \in FieldsType /\ ~u.released /\ u.timerOn = r.timerOn /\ u.dlv = r.dlv /\ u.stamp = r.stamp
  BY DEF FieldsType
<1>2. c = evictJob(u)
  BY DEF discardForegroundJob
<1> HIDE DEF u
<1> QED
  BY <1>1, <1>2, EvictFacts

(* A foreground row that is given back goes at once, or when it settles.     *)
LEMMA ReleaseFacts ==
  ASSUME NEW r \in FieldsType, NEW js, NEW c, c = releaseForegroundJob(r, js)
  PROVE  \/ c = r /\ (~HasRow(r) \/ ~js[r.row].fg)
         \/ /\ HasRow(r) /\ js[r.row].fg /\ ~js[r.row].settled
            /\ c \in FieldsType /\ c.released
            /\ c.row = r.row /\ c.suppressed = r.suppressed /\ c.watched = r.watched
            /\ c.consumed = r.consumed /\ c.timer = r.timer /\ c.timerOn = r.timerOn
            /\ c.dlv = r.dlv /\ c.stamp = r.stamp
         \/ /\ HasRow(r) /\ js[r.row].fg /\ js[r.row].settled
            /\ c \in FieldsType
            /\ c.row = 0 /\ ~c.suppressed /\ ~c.watched /\ ~c.consumed /\ ~c.released
            /\ c.timer = "off" /\ c.timerOn = r.timerOn /\ c.dlv = r.dlv /\ c.stamp = r.stamp
<1>1. CASE ~HasRow(r) \/ ~js[r.row].fg
  BY <1>1 DEF releaseForegroundJob
<1>2. CASE HasRow(r) /\ js[r.row].fg /\ js[r.row].settled
  <2>1. c = discardForegroundJob(r)
    BY <1>2 DEF releaseForegroundJob
  <2> QED
    BY <1>2, <2>1, DiscardFacts
<1>3. CASE HasRow(r) /\ js[r.row].fg /\ ~js[r.row].settled
  <2>1. c = [r EXCEPT !.released = TRUE]
    BY <1>3 DEF releaseForegroundJob
  <2> QED
    BY <1>3, <2>1 DEF FieldsType
<1> QED
  BY <1>1, <1>2, <1>3
LEMMA AttemptFacts ==
  ASSUME NEW r \in FieldsType, NEW gs, NEW c, c = AfterAttempts(r, gs)
  PROVE  \/ c = r
         \/ /\ r.timer = "waiting"
            /\ c \in FieldsType
            /\ c.row = 0 /\ ~c.suppressed /\ ~c.watched /\ ~c.consumed
            /\ c.timer = "off" /\ c.timerOn = r.timerOn
            /\ c.released = r.released /\ c.dlv = r.dlv /\ c.stamp = r.stamp
<1>1. c = r \/ (r.timer = "waiting" /\ c = evictJob(r))
  BY DEF AfterAttempts
<1> QED
  BY <1>1, EvictFacts

(* A delivered result is consumed if there is a row to mark, and the row     *)
(* goes with the attempt only where an eviction waited for it.               *)
LEMMA DeliveredFacts ==
  ASSUME NEW r \in FieldsType, NEW js, NEW g \in Gens,
         NEW c, c = Delivered(r, js, g)
  PROVE  /\ c \in FieldsType
         /\ c.dlv[g] = "none" /\ \A h \in Gens : h # g => c.dlv[h] = r.dlv[h]
         /\ c.stamp = r.stamp /\ c.released = r.released
         /\ \/ /\ c.row = r.row /\ c.suppressed = r.suppressed /\ c.watched = r.watched
               /\ r.consumed => c.consumed
               /\ HasRow(r) /\ js[r.row].status # "running" /\ js[r.row].settled
                     => c.consumed
               /\ c.consumed => r.consumed \/ (HasRow(r) /\ js[r.row].settled)
               /\ \/ c.timer = r.timer
                  \/ c.timer = "armed" /\ HasRow(r) /\ (r.consumed \/ js[r.row].settled)
            \/ /\ r.timer = "waiting"
               /\ c.row = 0 /\ ~c.suppressed /\ ~c.watched /\ ~c.consumed
               /\ c.timer = "off"
<1> DEFINE re == IF r.consumed /\ HasRow(r) THEN scheduleEviction(r) ELSE r
           out == [re EXCEPT !.dlv[g] = "none"]
           fin == IF out.consumed THEN out ELSE consumeJobResult(out, js)
<1>1. /\ re \in FieldsType
      /\ re.row = r.row /\ re.suppressed = r.suppressed /\ re.watched = r.watched
      /\ re.consumed = r.consumed /\ re.released = r.released
      /\ re.dlv = r.dlv /\ re.stamp = r.stamp
      /\ \/ re.timer = r.timer
         \/ re.timer = "armed" /\ HasRow(r) /\ r.consumed
  BY ArmFacts
<1> HIDE DEF re
<1>2. /\ out \in FieldsType
      /\ out.row = r.row /\ out.suppressed = r.suppressed /\ out.watched = r.watched
      /\ out.consumed = r.consumed /\ out.released = r.released
      /\ out.stamp = r.stamp /\ out.timer = re.timer
      /\ out.dlv[g] = "none" /\ \A h \in Gens : h # g => out.dlv[h] = r.dlv[h]
  BY <1>1 DEF FieldsType, Pcs
<1> HIDE DEF out
<1>3. /\ fin \in FieldsType
      /\ fin.row = r.row /\ fin.suppressed = r.suppressed /\ fin.watched = r.watched
      /\ fin.released = r.released /\ fin.stamp = r.stamp /\ fin.dlv = out.dlv
      /\ r.consumed => fin.consumed
      /\ HasRow(r) /\ js[r.row].status # "running" /\ js[r.row].settled => fin.consumed
      /\ fin.consumed => r.consumed \/ (HasRow(r) /\ js[r.row].settled)
      /\ \/ fin.timer = r.timer
         \/ fin.timer = "armed" /\ HasRow(r) /\ (r.consumed \/ js[r.row].settled)
  <2>1. CASE out.consumed
    BY <1>1, <1>2, <2>1
  <2>2. CASE ~out.consumed
    <3>1. fin = consumeJobResult(out, js)
      BY <2>2
    <3> HIDE DEF fin
    <3> QED
      BY <1>1, <1>2, <2>2, <3>1, ConsumeFacts DEF HasRow
  <2> QED
    BY <2>1, <2>2
<1>4. c = AfterAttempts(fin, {g})
  BY Zenon DEF Delivered, fin, out, re
<1> HIDE DEF fin
<1>5. CASE c = fin
  BY <1>2, <1>3, <1>5
<1>6. CASE c # fin
  BY <1>2, <1>3, <1>4, <1>6, AttemptFacts
<1> QED
  BY <1>5, <1>6

(* A failed delivery is queued again only where it is still wanted.          *)
LEMMA FailedFacts ==
  ASSUME NEW r \in FieldsType, NEW gs, NEW c, c = Failed(r, gs)
  PROVE  /\ c \in FieldsType
         /\ \A h \in Gens : c.dlv[h] =
               IF h \notin gs THEN r.dlv[h]
               ELSE IF ~r.suppressed /\ ~r.watched /\ HasRow(r) THEN "retry" ELSE "none"
         /\ c.stamp = r.stamp /\ c.released = r.released
         /\ \/ /\ c.row = r.row /\ c.suppressed = r.suppressed /\ c.watched = r.watched
               /\ c.consumed = r.consumed /\ c.timer = r.timer
            \/ /\ r.timer = "waiting"
               /\ c.row = 0 /\ ~c.suppressed /\ ~c.watched /\ ~c.consumed
               /\ c.timer = "off"
<1> DEFINE again == ~isDeliverySuppressed(r) /\ HasRow(r)
           d == [h \in Gens |->
                   IF h \notin gs THEN r.dlv[h] ELSE IF again THEN "retry" ELSE "none"]
           f == [r EXCEPT !.dlv = d]
<1>1. c = AfterAttempts(f, gs)
  BY DEF Failed
<1>2. d \in [Gens -> Pcs]
  BY DEF FieldsType, Pcs
<1>3. \A h \in Gens : d[h] =
         IF h \notin gs THEN r.dlv[h]
         ELSE IF ~r.suppressed /\ ~r.watched /\ HasRow(r) THEN "retry" ELSE "none"
  BY DEF isDeliverySuppressed
<1> HIDE DEF d
<1>4. /\ f \in FieldsType /\ f.dlv = d
      /\ f.row = r.row /\ f.suppressed = r.suppressed /\ f.watched = r.watched
      /\ f.consumed = r.consumed /\ f.released = r.released /\ f.timer = r.timer
      /\ f.stamp = r.stamp
  BY <1>2 DEF FieldsType
<1> HIDE DEF f
<1> QED
  BY <1>1, <1>3, <1>4, AttemptFacts

LEMMA CompletedFacts ==
  ASSUME NEW r \in FieldsType, NEW c, c = evictCompletedJobs(r)
  PROVE  \/ c = r /\ (HasRow(r) => Status(r.row) # "done")
         \/ /\ HasRow(r) /\ Status(r.row) = "done"
            /\ c \in FieldsType
            /\ c.row = 0 /\ ~c.suppressed /\ ~c.watched /\ ~c.consumed
            /\ c.timer = "off" /\ c.released = r.released /\ c.stamp = r.stamp
            /\ \A g \in Gens : c.dlv[g] =
                  IF r.dlv[g] \in {"queued", "retry"} THEN "none" ELSE r.dlv[g]
<1> DEFINE a == acknowledgeDeliveries(r)
<1>1. CASE HasRow(r) /\ Status(r.row) = "done"
  <2>1. c = evictJob(a)
    BY <1>1 DEF evictCompletedJobs
  <2>2. /\ a \in FieldsType /\ a.released = r.released /\ a.stamp = r.stamp
        /\ \A g \in Gens : a.dlv[g] =
              IF r.dlv[g] \in {"queued", "retry"} THEN "none" ELSE r.dlv[g]
    BY AcknowledgeFacts
  <2> HIDE DEF a
  <2> QED
    BY <1>1, <2>1, <2>2, EvictFacts
<1>2. CASE ~(HasRow(r) /\ Status(r.row) = "done")
  BY <1>2 DEF evictCompletedJobs
<1> QED
  BY <1>1, <1>2

(* What the history of showings can become.                                  *)
LEMMA ShowFacts ==
  ASSUME shown \in [Gens -> ShownType], epoch \in Epochs, NEW g \in Gens,
         NEW new, new = Show(g)
  PROVE  /\ new \in [Gens -> ShownType]
         /\ \A h \in Gens : h # g => new[h] = shown[h]
         /\ new[g] # << >>
         /\ shown[g] = << >> => Len(new[g]) = 1
<1> DEFINE old == shown[g]
           on == IF Len(old) < 2 THEN Append(old, epoch) ELSE old
<1>1. new = [shown EXCEPT ![g] = on]
  BY DEF Show
<1>2. PICK n \in 0..2 : old \in [1..n -> Epochs]
  BY DEF ShownType
<1> HIDE DEF old
<1>3. old \in Seq(Epochs) /\ Len(old) = n
  <2> DEFINE l == Len(old)
  <2>1. n \in Nat /\ old \in Seq(Epochs)
    BY <1>2, SeqDef
  <2>2. Len(old) \in Nat /\ DOMAIN old = 1..Len(old)
    BY <2>1, LenProperties
  <2>3. 1..Len(old) = 1..n
    BY <1>2, <2>2
  <2>4. l \in Nat /\ n \in Nat /\ 1..l = 1..n
    BY <2>1, <2>2, <2>3
  <2> HIDE DEF l
  <2>5. l = n
    <3>1. l < n => n \in 1..n /\ n \notin 1..l
      BY <2>4
    <3>2. n < l => l \in 1..l /\ l \notin 1..n
      BY <2>4
    <3>3. ~(l < n) /\ ~(n < l)
      BY <2>4, <3>1, <3>2, Zenon
    <3> QED
      BY <2>4, <3>3
  <2> QED
    BY <2>1, <2>5 DEF l
<1>4. CASE Len(old) < 2
  <2>0. on = Append(old, epoch)
    BY <1>4
  <2>1. /\ on \in Seq(Epochs) /\ Len(on) = n + 1 /\ on # << >>
    BY <1>3, <2>0, AppendProperties
  <2> HIDE DEF on
  <2>2. n + 1 \in 0..2 /\ on \in [1..(n + 1) -> Epochs]
    BY <1>3, <1>4, <2>1, LenProperties
  <2>3. on \in ShownType
    BY <2>2 DEF ShownType
  <2>4. old = << >> => Len(on) = 1
    BY <1>3, <2>1, EmptySeq
  <2> QED
    BY <1>1, <2>1, <2>3, <2>4 DEF old
<1>5. CASE ~(Len(old) < 2)
  <2>1. old # << >> /\ on = old
    BY <1>3, <1>5, EmptySeq
  <2> QED
    BY <1>1, <2>1 DEF old
<1> QED
  BY <1>4, <1>5
-----------------------------------------------------------------------------
Types ==
    /\ jobs \in [Gens -> JobType] /\ m \in FieldsType
    /\ epoch \in Epochs /\ turn \in {"idle", "work", "boundary"}
    /\ wait \in 0..MaxGen /\ call \in 0..MaxGen /\ reap \in 0..MaxGen
    /\ shown \in [Gens -> ShownType]

LEMMA TypesAgree == (TypeOK <=> Types) /\ (TypeOK' <=> Types')
BY DEF TypeOK, Types, JobType, FieldsType, ShownType

(* The next job has left no trace yet.                                       *)
LEMMA NextIsNew ==
  ASSUME JobsInv, NextGen \in Gens
  PROVE  /\ Status(NextGen) = "none" /\ ~jobs[NextGen].settled
         /\ ~jobs[NextGen].fg /\ ~jobs[NextGen].cut /\ ~Seen(NextGen)
         /\ m.dlv[NextGen] = "none"
         /\ \A new \in JobType : jobs' = [jobs EXCEPT ![NextGen] = new] /\ new.status # "none"
               => Made' = 1..Cardinality(Made')
<1>1. IsFiniteSet(Gens) /\ Made \subseteq Gens
  BY FS_Interval, Bounds DEF Gens, Made
<1>2. Cardinality(Made) \in Nat
  BY <1>1, FS_Subset, FS_CardinalityType
<1> DEFINE n == Cardinality(Made)
<1>3. n \in Nat /\ Made = 1..n /\ NextGen = n + 1
  BY <1>2 DEF JobsInv, MadeInOrder, NextGen
<1> HIDE DEF n
<1>4. NextGen \notin Made
  BY <1>3
<1>5. Status(NextGen) = "none"
  BY <1>4 DEF Made
<1>6. ASSUME NEW new \in JobType, jobs' = [jobs EXCEPT ![NextGen] = new], new.status # "none"
      PROVE  Made' = 1..Cardinality(Made')
  <2>1. jobs \in [Gens -> JobType]
    BY TypesAgree DEF JobsInv, Types
  <2>2. Made' = Made \cup {NextGen}
    BY <1>6, <2>1 DEF Made, Status
  <2>3. Made' = 1..(n + 1)
    BY <1>3, <2>2
  <2>4. Cardinality(1..(n + 1)) = n + 1
    BY <1>3, FS_Interval
  <2> QED
    BY <2>3, <2>4
<1> QED
  BY <1>5, <1>6 DEF JobsInv, MadeInOrder

LEMMA JobsInit == Init => JobsInv
<1> SUFFICES ASSUME Init PROVE JobsInv
  OBVIOUS
<1>1. NoJob \in JobType /\ NoJob.status = "none" /\ ~NoJob.settled /\ ~NoJob.fg /\ ~NoJob.cut
  BY Bounds DEF NoJob, JobType
<1>2. << >> \in ShownType
  <2>1. << >> \in [1..0 -> Epochs] /\ 0 \in 0..2
    BY EmptySeq, LenProperties
  <2> QED
    BY <2>1 DEF ShownType
<1>3. Types
  BY <1>1, <1>2, Bounds DEF Init, Types, FieldsType, Pcs
<1>4. Made = 1..Cardinality(Made)
  <2>1. Made = {} /\ Cardinality({}) = 0
    BY <1>1, FS_EmptySet DEF Init, Made, Status
  <2> QED
    BY <2>1
<1>5. RunningHasRow /\ MadeInOrder
  BY <1>1, <1>4 DEF Init, RunningHasRow, MadeInOrder, HasRow, Status, Seen
<1>6. Marked /\ Tools /\ Places /\ CutOff
  BY <1>1, Bounds DEF Init, Marked, Tools, Tooling, Places, CutOff, HasRow, Status
<1> QED
  BY <1>3, <1>5, <1>6, TypesAgree DEF JobsInv

LEMMA RegisterKeeps ==
  ASSUME JobsInv, NEW fg \in BOOLEAN, Register(fg) PROVE JobsInv'
<1> USE Bounds, TypesAgree DEF JobsInv
<1> DEFINE n == NextGen
           new == NewJob("running", fg)
<1>1. /\ new \in JobType /\ new.status = "running" /\ new.fg = fg
      /\ ~new.settled /\ ~new.cut
  BY DEF Types, NewJob, JobType
<1>2. /\ n \in Gens /\ ~HasRow(m) /\ turn = "work" /\ (fg => call = 0)
      /\ jobs' = [jobs EXCEPT ![n] = new]
      /\ m' = claimJobId(m, n, fg)
      /\ call' = IF fg THEN n ELSE call
      /\ UNCHANGED <<epoch, turn, wait, reap, shown>>
  BY DEF Register
<1>3. /\ Status(n) = "none" /\ ~jobs[n].settled
      /\ ~jobs[n].fg /\ ~jobs[n].cut /\ ~Seen(n) /\ m.dlv[n] = "none"
      /\ Made' = 1..Cardinality(Made')
  BY <1>1, <1>2, NextIsNew
<1> HIDE DEF n, new
<1>4. /\ m' \in FieldsType /\ m'.row = n /\ m'.suppressed = fg /\ m'.watched = m.watched
      /\ ~m'.consumed /\ ~m'.released /\ m'.timer = m.timer
      /\ m'.stamp = m.stamp /\ m'.dlv = m.dlv
  BY <1>2, ClaimFacts DEF Types
<1>5. /\ jobs' \in [Gens -> JobType] /\ jobs'[n] = new
      /\ \A g \in Gens : g # n => jobs'[g] = jobs[g]
  BY <1>1, <1>2 DEF Types
<1>6. wait = 0 /\ call = 0 /\ m.timer = "off" /\ ~m.watched
  BY <1>2 DEF Tools, Marked, HasRow, Types
<1>7. Types'
  BY <1>2, <1>4, <1>5 DEF Types
<1>8. RunningHasRow' /\ MadeInOrder'
  BY <1>1, <1>2, <1>3, <1>4, <1>5 DEF Types, RunningHasRow, MadeInOrder, HasRow, Status, Seen
<1>9. Marked'
  BY <1>1, <1>2, <1>4, <1>5, <1>6 DEF Marked, HasRow, Status
<1>10. Tools'
  BY <1>1, <1>2, <1>4, <1>5, <1>6 DEF Tools, Tooling, HasRow
<1>11. Places'
  BY <1>2, <1>3, <1>4, <1>5 DEF Places, HasRow, Behind
<1>12. CutOff'
  BY <1>1, <1>2, <1>4, <1>5, <1>6 DEF CutOff, Gone, HasRow, Status
<1> QED
  BY <1>7, <1>8, <1>9, <1>10, <1>11, <1>12
LEMMA PublishKeeps == ASSUME JobsInv, publishCompleted PROVE JobsInv'
<1> USE Bounds, TypesAgree DEF JobsInv
<1> DEFINE n == NextGen
           new == NewJob("done", FALSE)
           c == claimJobId(m, n, FALSE)
           e == enqueueDelivery(c, n)
<1>1. /\ new \in JobType /\ new.status = "done" /\ ~new.fg
      /\ new.settled /\ ~new.cut
  BY DEF Types, NewJob, JobType
<1>2. /\ n \in Gens /\ ~HasRow(m)
      /\ jobs' = [jobs EXCEPT ![n] = new]
      /\ m' = scheduleEviction(e)
      /\ UNCHANGED <<epoch, turn, wait, call, reap, shown>>
  BY DEF publishCompleted
<1>3. /\ Status(n) = "none" /\ ~jobs[n].settled
      /\ ~jobs[n].fg /\ ~jobs[n].cut /\ ~Seen(n) /\ m.dlv[n] = "none"
      /\ Made' = 1..Cardinality(Made')
  BY <1>1, <1>2, NextIsNew
<1>4. wait = 0 /\ call = 0 /\ m.timer = "off" /\ ~m.watched
  BY <1>2 DEF Tools, Marked, HasRow, Types
<1> HIDE DEF n, new
<1>5. /\ c \in FieldsType /\ c.row = n /\ ~c.suppressed /\ c.watched = m.watched
      /\ ~c.consumed /\ ~c.released /\ c.stamp = m.stamp /\ c.dlv = m.dlv
  BY <1>2 DEF claimJobId, Types, FieldsType
<1> HIDE DEF c
<1>6. /\ e \in FieldsType /\ e.row = n /\ ~e.suppressed /\ ~e.watched
      /\ ~e.consumed /\ ~e.released /\ e.stamp = m.stamp /\ e.dlv[n] = "queued"
      /\ \A h \in Gens : h # n => e.dlv[h] = m.dlv[h]
  <2>1. c.dlv[n] = "none" /\ ~c.watched /\ c.row # 0
    BY <1>2, <1>3, <1>4, <1>5
  <2> QED
    BY ONLY <1>2, <1>5, <2>1, EnqueueFacts DEF HasRow
<1> HIDE DEF e
<1>7. /\ m' \in FieldsType /\ m'.row = n /\ ~m'.suppressed /\ ~m'.watched
      /\ ~m'.consumed /\ ~m'.released /\ m'.timer = "armed"
      /\ m'.stamp = m.stamp /\ m'.dlv[n] = "queued"
      /\ \A h \in Gens : h # n => m'.dlv[h] = m.dlv[h]
  BY <1>2, <1>6, ArmFacts
<1>8. /\ jobs' \in [Gens -> JobType] /\ jobs'[n] = new
      /\ \A g \in Gens : g # n => jobs'[g] = jobs[g]
  BY <1>1, <1>2 DEF Types
<1>9. Types'
  BY <1>2, <1>7, <1>8 DEF Types
<1>10. RunningHasRow' /\ MadeInOrder'
  BY <1>1, <1>2, <1>3, <1>7, <1>8 DEF Types, RunningHasRow, MadeInOrder, HasRow, Status, Seen
<1>11. Marked' /\ Tools'
  BY <1>1, <1>2, <1>4, <1>7, <1>8 DEF Marked, Tools, Tooling, HasRow, Status
<1>12. Places'
  BY <1>2, <1>3, <1>7, <1>8 DEF Places, HasRow, Behind
<1>13. CutOff'
  BY <1>1, <1>2, <1>4, <1>7, <1>8 DEF CutOff, Gone, HasRow, Status
<1> QED
  BY <1>9, <1>10, <1>11, <1>12, <1>13

(* A run that ends acts on the row, which is its job's.                      *)
SettlesTo(g) ==
    /\ Status(g) \in {"running", "cancelled"} /\ ~jobs[g].settled
    /\ UNCHANGED <<epoch, turn, wait, call, reap, shown>>
    /\ jobs' \in [Gens -> JobType]
    /\ \A h \in Gens : h # g => jobs'[h] = jobs[h]
    /\ jobs'[g].settled /\ jobs'[g].fg = jobs[g].fg /\ jobs'[g].cut = jobs[g].cut
    /\ jobs'[g].over = jobs[g].over
    /\ jobs'[g].status = IF Status(g) = "running" THEN "done" ELSE Status(g)
    /\ m.row = g /\ HasRow(m) /\ m.timer = "off" /\ ~m.consumed /\ m.dlv[g] = "none"
    /\ m' \in FieldsType /\ m'.stamp = m.stamp
    /\ \A h \in Gens : h # g => m'.dlv[h] = m.dlv[h]
    /\ m'.dlv[g] = IF Status(g) # "running" \/ m.suppressed \/ m.watched
                   THEN "none" ELSE "queued"
    /\ \/ /\ m.released /\ m'.row = 0 /\ ~m'.suppressed /\ ~m'.watched
          /\ ~m'.consumed /\ ~m'.released /\ m'.timer = "off"
       \/ /\ ~m.released /\ m'.row = g /\ m'.suppressed = m.suppressed
          /\ m'.watched = m.watched /\ ~m'.consumed /\ ~m'.released
          /\ m'.timer = "armed"

LEMMA SettleFacts == ASSUME JobsInv, NEW g \in Gens, Settle(g) PROVE SettlesTo(g)
<1> USE Bounds, TypesAgree DEF JobsInv
<1> DEFINE d == IF Status(g) = "running" THEN enqueueDelivery(m, g) ELSE m
<1>1. /\ Status(g) \in {"running", "cancelled"} /\ ~jobs[g].settled
      /\ m' = IF d.released THEN discardForegroundJob(d) ELSE scheduleEviction(d)
      /\ UNCHANGED <<epoch, turn, wait, call, reap, shown>>
  BY DEF Settle
<1>2. /\ jobs' \in [Gens -> JobType]
      /\ \A h \in Gens : h # g => jobs'[h] = jobs[h]
      /\ jobs'[g].settled /\ jobs'[g].fg = jobs[g].fg /\ jobs'[g].cut = jobs[g].cut
      /\ jobs'[g].over = jobs[g].over
      /\ jobs'[g].status = IF Status(g) = "running" THEN "done" ELSE Status(g)
  <2> DEFINE s == IF jobs[g].status = "running" THEN "done" ELSE jobs[g].status
  <2>1. jobs' = [jobs EXCEPT ![g] = [jobs[g] EXCEPT !.settled = TRUE, !.status = s]]
    BY DEF Settle, Types, JobType
  <2>2. s \in {"none", "running", "done", "cancelled"}
    BY DEF Types, JobType
  <2> HIDE DEF s
  <2> DEFINE new == [jobs[g] EXCEPT !.settled = TRUE, !.status = s]
  <2>3. /\ new \in JobType /\ new.status = s
        /\ new.settled /\ new.fg = jobs[g].fg /\ new.cut = jobs[g].cut
        /\ new.over = jobs[g].over
    <3>1. jobs[g] \in JobType
      BY DEF Types
    <3> QED
      BY <2>2, <3>1 DEF JobType
  <2>4. jobs' = [jobs EXCEPT ![g] = new]
    BY <2>1
  <2> HIDE DEF new
  <2> QED
    BY <2>3, <2>4 DEF Types, s, Status
<1>3. m.row = g /\ HasRow(m) /\ m.timer = "off" /\ ~m.consumed /\ m.dlv[g] = "none"
  BY <1>1 DEF RunningHasRow, HasRow, Marked, MadeInOrder, Status, Types, FieldsType
<1>4. /\ d \in FieldsType
      /\ d.row = g /\ d.suppressed = m.suppressed /\ d.watched = m.watched
      /\ ~d.consumed /\ d.released = m.released
      /\ d.timer = "off" /\ d.stamp = m.stamp
      /\ \A h \in Gens : h # g => d.dlv[h] = m.dlv[h]
      /\ d.dlv[g] = IF Status(g) # "running" \/ m.suppressed \/ m.watched
                    THEN "none" ELSE "queued"
  <2>1. CASE Status(g) = "running"
    BY <1>3, <2>1, EnqueueFacts DEF Types
  <2>2. CASE Status(g) # "running"
    BY <1>3, <2>2 DEF Types
  <2> QED
    BY <2>1, <2>2
<1> HIDE DEF d
<1>5. /\ m' \in FieldsType /\ m'.dlv = d.dlv /\ m'.stamp = m.stamp
      /\ \/ /\ m.released /\ m'.row = 0 /\ ~m'.suppressed /\ ~m'.watched
            /\ ~m'.consumed /\ ~m'.released /\ m'.timer = "off"
         \/ /\ ~m.released /\ m'.row = g /\ m'.suppressed = m.suppressed
            /\ m'.watched = m.watched /\ ~m'.consumed /\ ~m'.released
            /\ m'.timer = "armed"
  <2>1. CASE d.released
    BY <1>1, <1>4, <2>1, DiscardFacts
  <2>2. CASE ~d.released
    BY <1>1, <1>4, <2>2, ArmFacts
  <2> QED
    BY <2>1, <2>2
<1> QED
  BY <1>1, <1>2, <1>3, <1>4, <1>5 DEF SettlesTo

LEMMA SettleKeeps ==
  ASSUME JobsInv, NEW g \in Gens, Settle(g) PROVE JobsInv'
<1> USE Bounds, TypesAgree DEF JobsInv
<1>1. SettlesTo(g)
  BY SettleFacts
<1>2. Types'
  BY <1>1 DEF SettlesTo, Types
<1>3. Made' = Made
  BY <1>1 DEF SettlesTo, Made, Status
<1>4. RunningHasRow'
  BY <1>1 DEF SettlesTo, RunningHasRow, Status
<1>5. MadeInOrder'
  BY <1>1, <1>3 DEF SettlesTo, MadeInOrder, Tools, HasRow, Status, Seen
<1>6. Marked'
  BY <1>1 DEF SettlesTo, Marked, HasRow, Status
<1>7. Tools'
  BY <1>1 DEF SettlesTo, Tools, Tooling, HasRow
<1>8. Places'
  BY <1>1 DEF SettlesTo, Places, HasRow, Behind
<1>9. CutOff'
  BY <1>1 DEF SettlesTo, CutOff, Gone, HasRow, Status
<1> QED
  BY <1>2, <1>4, <1>5, <1>6, <1>7, <1>8, <1>9
(* A tool call that reports the row and leaves the jobs alone.               *)
LEMMA ReadKeeps ==
  ASSUME JobsInv, HasRow(m), Status(m.row) # "running", ~jobs[m.row].fg,
         m' = consumeJobResults(m, jobs),
         shown' \in [Gens -> ShownType],
         \A g \in Gens : g # m.row => shown'[g] = shown[g],
         UNCHANGED <<jobs, epoch, turn, wait, call, reap>>
  PROVE  JobsInv'
<1> USE Bounds, TypesAgree DEF JobsInv
<1>1. /\ m' \in FieldsType
      /\ m'.row = m.row /\ m'.suppressed /\ m'.watched = m.watched
      /\ m'.released = m.released /\ m'.stamp = m.stamp
      /\ \A g \in Gens : m'.dlv[g] =
            IF m.dlv[g] \in {"queued", "retry"} THEN "none" ELSE m.dlv[g]
      /\ \/ m'.consumed = m.consumed /\ m'.timer = m.timer
         \/ m'.consumed /\ m'.timer \in {m.timer, "armed"} /\ jobs[m.row].settled
  BY ReportedFacts DEF Types
<1>2. Types'
  BY <1>1 DEF Types
<1>3. RunningHasRow' /\ Made' = Made
  BY <1>1 DEF RunningHasRow, Made, Status
<1>4. m.row \in Gens
  BY DEF HasRow, Types, FieldsType
<1>5. MadeInOrder'
  BY <1>1, <1>3, <1>4 DEF MadeInOrder, HasRow, Status, Seen
<1>6. Marked' /\ Tools'
  BY <1>1 DEF Marked, Tools, Tooling, HasRow, Status, Types
<1>7. Places'
  BY <1>1, <1>4 DEF Places, HasRow, Behind
<1>8. CutOff'
  BY <1>1 DEF CutOff, Gone, Status
<1> QED
  BY <1>2, <1>3, <1>5, <1>6, <1>7, <1>8

(* Reporting a job shows it if its row is one to be read.                    *)
LEMMA ReportFacts ==
  ASSUME JobsInv, NEW g \in Gens, Report(g)
  PROVE  /\ shown' \in [Gens -> ShownType]
         /\ \A h \in Gens : h # g => shown'[h] = shown[h]
         /\ Seen(g) => Seen(g)'
         /\ Status(g) = "done" /\ ~m.consumed =>
               Seen(g)' /\ (~Seen(g) => Len(shown'[g]) = 1)
         /\ Status(g) # "done" \/ m.consumed => shown' = shown
<1>1. shown \in [Gens -> ShownType] /\ epoch \in Epochs
  BY TypesAgree DEF JobsInv, Types
<1>2. CASE Status(g) = "done" /\ ~m.consumed
  <2>1. shown' = Show(g)
    BY <1>2 DEF Report
  <2> QED
    BY <1>1, <1>2, <2>1, ShowFacts DEF Seen
<1>3. CASE ~(Status(g) = "done" /\ ~m.consumed)
  BY <1>1, <1>3 DEF Report, Seen
<1> QED
  BY <1>2, <1>3

LEMMA SnapshotKeeps == ASSUME JobsInv, Snapshot PROVE JobsInv'
<1>1. m.row \in Gens
  BY Bounds, TypesAgree DEF Snapshot, JobsInv, HasRow, Types, FieldsType
<1>2. shown' \in [Gens -> ShownType] /\ \A g \in Gens : g # m.row => shown'[g] = shown[g]
  BY <1>1, ReportFacts DEF Snapshot
<1> QED
  BY <1>2, ReadKeeps DEF Snapshot

(* A cancelled job keeps its row until it settles.                           *)
LEMMA CancelKeeps == ASSUME JobsInv, cancel PROVE JobsInv'
<1> USE Bounds, TypesAgree DEF JobsInv
<1>1. /\ HasRow(m) /\ Status(m.row) = "running" /\ m.row \in Gens
      /\ jobs' = [jobs EXCEPT ![m.row].status = "cancelled"]
      /\ m' = m \/ m' = consumeJobResults(m, jobs')
      /\ UNCHANGED <<epoch, turn, wait, call, reap, shown>>
  BY DEF cancel, SetStatus, HasRow, Types, FieldsType
<1>2. /\ jobs' \in [Gens -> JobType]
      /\ \A g \in Gens : g # m.row => jobs'[g] = jobs[g]
      /\ jobs'[m.row].status = "cancelled"
      /\ \A g \in Gens : /\ jobs'[g].settled = jobs[g].settled
                         /\ jobs'[g].fg = jobs[g].fg /\ jobs'[g].cut = jobs[g].cut
  <2>1. jobs[m.row] \in JobType
    BY <1>1 DEF Types
  <2> DEFINE new == [jobs[m.row] EXCEPT !.status = "cancelled"]
  <2>2. /\ new \in JobType /\ new.status = "cancelled" /\ new.settled = jobs[m.row].settled
        /\ new.fg = jobs[m.row].fg /\ new.cut = jobs[m.row].cut
    BY <2>1 DEF JobType
  <2>3. jobs' = [jobs EXCEPT ![m.row] = new]
    BY <1>1
  <2> HIDE DEF new
  <2> QED
    BY <1>1, <2>2, <2>3 DEF Types
<1>3. /\ m' \in FieldsType
      /\ m'.row = m.row /\ m'.watched = m.watched
      /\ m'.released = m.released /\ m'.stamp = m.stamp
      /\ m.suppressed => m'.suppressed
      /\ m'.suppressed = m.suppressed \/ m'.suppressed
      /\ \A g \in Gens : m'.dlv[g] \in {m.dlv[g], "none"}
      /\ \/ m'.consumed = m.consumed /\ m'.timer = m.timer
         \/ m'.consumed /\ m'.timer \in {m.timer, "armed"} /\ jobs'[m.row].settled
  <2>1. CASE m' = m
    BY <2>1 DEF Types
  <2>2. CASE m' = consumeJobResults(m, jobs')
    <3>1. m \in FieldsType
      BY DEF Types
    <3>2. /\ m' \in FieldsType
          /\ m'.row = m.row /\ m'.suppressed /\ m'.watched = m.watched
          /\ m'.released = m.released /\ m'.stamp = m.stamp
          /\ \A g \in Gens : m'.dlv[g] =
                IF m.dlv[g] \in {"queued", "retry"} THEN "none" ELSE m.dlv[g]
          /\ \/ m'.consumed = m.consumed /\ m'.timer = m.timer
             \/ m'.consumed /\ m'.timer \in {m.timer, "armed"} /\ jobs'[m.row].settled
      BY <2>2, <3>1, ReportedFacts
    <3> QED
      BY <3>2
  <2> QED
    BY <1>1, <2>1, <2>2
<1>4. Types'
  BY <1>1, <1>2, <1>3 DEF Types
<1>5. RunningHasRow' /\ Made' = Made
  BY <1>1, <1>2, <1>3 DEF RunningHasRow, Made, Status
<1>6. m.dlv[m.row] = "none" /\ m'.dlv[m.row] = "none"
  BY <1>1, <1>3 DEF MadeInOrder
<1>7. MadeInOrder'
  BY <1>1, <1>2, <1>3, <1>5, <1>6 DEF MadeInOrder, HasRow, Status, Seen
<1>8. Marked'
  BY <1>1, <1>2, <1>3 DEF Marked, HasRow, Status
<1>9. Tools'
  BY <1>1, <1>2, <1>3 DEF Tools, Tooling, HasRow, Types
<1>10. Places'
  BY <1>1, <1>3 DEF Places, HasRow, Behind
<1>11. CutOff'
  BY <1>1, <1>2, <1>3 DEF CutOff, Gone, Status
<1> QED
  BY <1>4, <1>5, <1>7, <1>8, <1>9, <1>10, <1>11
LEMMA WaitStartKeeps == ASSUME JobsInv, WaitStart PROVE JobsInv'
<1> USE Bounds, TypesAgree DEF JobsInv
<1> DEFINE r == m.row
<1>1. /\ turn = "work" /\ wait = 0 /\ HasRow(m) /\ ~jobs[r].fg /\ r \in Gens
      /\ UNCHANGED <<jobs, epoch, turn, call, reap>>
  BY DEF WaitStart, HasRow, Types, FieldsType
<1>2. CASE /\ Status(r) = "done" /\ Report(r) /\ m' = consumeJobResults(m, jobs)
           /\ UNCHANGED wait
  <2>1. shown' \in [Gens -> ShownType] /\ \A g \in Gens : g # r => shown'[g] = shown[g]
    BY <1>1, <1>2, ReportFacts
  <2> QED
    BY <1>1, <1>2, <2>1, ReadKeeps
<1>3. CASE /\ Status(r) = "running" /\ wait' = r /\ m' = watchJobs(m)
           /\ UNCHANGED shown
  <2>1. m' = [m EXCEPT !.watched = TRUE]
    BY <1>3 DEF watchJobs
  <2>2. /\ m' \in FieldsType /\ m'.watched
        /\ m'.row = r /\ m'.suppressed = m.suppressed /\ m'.consumed = m.consumed
        /\ m'.released = m.released /\ m'.timer = m.timer
        /\ m'.dlv = m.dlv /\ m'.stamp = m.stamp
    BY <2>1 DEF Types, FieldsType
  <2>3. m.dlv[r] = "none" /\ m.timer = "off" /\ call = 0
    BY <1>1, <1>3 DEF MadeInOrder, Marked, Tools, Types, FieldsType
  <2> HIDE DEF r
  <2>4. Types'
    BY <1>1, <1>3, <2>2 DEF Types
  <2>5. RunningHasRow' /\ Made' = Made
    BY <1>1, <2>2 DEF RunningHasRow, Made, Status, r
  <2>6. MadeInOrder'
    BY <1>1, <1>3, <2>2, <2>5 DEF MadeInOrder, HasRow, Status, Seen, r
  <2>7. Marked'
    BY <1>1, <1>3, <2>2 DEF Marked, HasRow, Status, r
  <2>8. Tools'
    BY <1>1, <1>3, <2>2, <2>3 DEF Tools, Tooling, HasRow, r
  <2>9. Places' /\ CutOff'
    BY <1>1, <1>3, <2>2 DEF Places, CutOff, Gone, HasRow, Status, r
  <2> QED
    BY <2>4, <2>5, <2>6, <2>7, <2>8, <2>9
<1> QED
  BY <1>2, <1>3 DEF WaitStart

(* A wait that ends lets go of its row, having reported it or not, and       *)
(* enqueues what settled meanwhile.                                          *)
LEMMA WaitEndKeeps ==
  ASSUME JobsInv, wait # 0,
         NEW c, c = m \/ (Status(wait) # "running" /\ c = consumeJobResults(m, jobs)),
         m' = unwatchJobs(c, jobs), wait' = 0,
         shown' \in [Gens -> ShownType],
         \A g \in Gens : g # wait => shown'[g] = shown[g],
         UNCHANGED <<jobs, epoch, turn, call, reap>>
  PROVE  JobsInv'
<1> USE Bounds, TypesAgree DEF JobsInv
<1>1. /\ m.row = wait /\ wait \in Gens /\ HasRow(m) /\ ~jobs[wait].fg /\ call = 0
      /\ m \in FieldsType /\ ~m.released /\ m.timer # "waiting"
  BY DEF Tools, Tooling, HasRow, Types
<1>2. /\ c \in FieldsType
      /\ c.row = wait /\ c.watched = m.watched
      /\ c.released = m.released /\ c.stamp = m.stamp
      /\ c.suppressed = m.suppressed \/ (c.suppressed /\ Status(wait) # "running")
      /\ \A g \in Gens : c.dlv[g] \in {m.dlv[g], "none"}
      /\ \/ c.consumed = m.consumed /\ c.timer = m.timer
         \/ c.consumed /\ c.timer \in {m.timer, "armed"} /\ jobs[wait].settled
  <2>1. CASE c = m
    BY <1>1, <2>1
  <2>2. CASE Status(wait) # "running" /\ c = consumeJobResults(m, jobs)
    BY <1>1, <2>2, ReportedFacts
  <2> QED
    BY <2>1, <2>2
<1>3. /\ m' \in FieldsType
      /\ m'.row = wait /\ ~m'.watched
      /\ ~m'.released /\ m'.stamp = m.stamp
      /\ m'.suppressed = m.suppressed \/ (m'.suppressed /\ Status(wait) # "running")
      /\ \A g \in Gens : g # wait => m'.dlv[g] \in {m.dlv[g], "none"}
      /\ \/ m'.dlv[wait] \in {m.dlv[wait], "none"}
         \/ m'.dlv[wait] = "queued" /\ Status(wait) = "done"
      /\ \/ m'.consumed = m.consumed /\ m'.timer = m.timer
         \/ m'.consumed /\ m'.timer \in {m.timer, "armed"} /\ jobs[wait].settled
  <2>1. /\ m' \in FieldsType
        /\ m'.row = wait /\ m'.suppressed = c.suppressed /\ ~m'.watched
        /\ m'.consumed = c.consumed /\ m'.released = c.released
        /\ m'.timer = c.timer /\ m'.stamp = c.stamp
        /\ \A h \in Gens : h # wait => m'.dlv[h] = c.dlv[h]
        /\ m'.dlv[wait] = c.dlv[wait]
           \/ (m'.dlv[wait] = "queued" /\ Status(wait) = "done")
    <3>1. HasRow(c) /\ (Missed(c, jobs) => Status(wait) = "done")
      BY <1>1, <1>2 DEF HasRow, Missed, Status
    <3> QED
      BY <1>2, <3>1, UnwatchFacts
  <2> QED
    BY <1>1, <1>2, <2>1
<1>4. Types'
  BY <1>3 DEF Types
<1>5. RunningHasRow' /\ Made' = Made
  BY <1>1, <1>3 DEF RunningHasRow, Made, Status
<1>6. MadeInOrder'
  BY <1>1, <1>3, <1>5 DEF MadeInOrder, HasRow, Status, Seen
<1>7. Marked'
  BY <1>1, <1>3 DEF Marked, HasRow, Status
<1>8. Tools'
  BY <1>1, <1>3 DEF Tools, Tooling, HasRow
<1>9. Places'
  BY <1>1, <1>3 DEF Places, HasRow, Behind
<1>10. CutOff'
  BY <1>1, <1>3 DEF CutOff, Gone, Status
<1> QED
  BY <1>4, <1>5, <1>6, <1>7, <1>8, <1>9, <1>10

LEMMA WaitReportKeeps == ASSUME JobsInv, WaitReport PROVE JobsInv'
<1> DEFINE c == IF Status(wait) = "running" THEN m ELSE consumeJobResults(m, jobs)
<1>1. m.row = wait /\ wait \in Gens /\ wait # 0
  BY Bounds, TypesAgree DEF JobsInv, Tools, WaitReport, Types
<1>2. /\ Report(wait) /\ m' = unwatchJobs(c, jobs) /\ wait' = 0
      /\ UNCHANGED <<jobs, epoch, turn, call, reap>>
  BY <1>1 DEF WaitReport, HasRow
<1>3. shown' \in [Gens -> ShownType] /\ \A g \in Gens : g # wait => shown'[g] = shown[g]
  BY <1>1, <1>2, ReportFacts
<1>4. c = m \/ (Status(wait) # "running" /\ c = consumeJobResults(m, jobs))
  OBVIOUS
<1> HIDE DEF c
<1> QED
  BY <1>1, <1>2, <1>3, <1>4, WaitEndKeeps

LEMMA WaitInterruptedKeeps == ASSUME JobsInv, WaitInterrupted PROVE JobsInv'
BY WaitEndKeeps, TypesAgree DEF WaitInterrupted, JobsInv, Types
(* A foreground call that ends gives its row back.                           *)
LEMMA CallEndKeeps ==
  ASSUME JobsInv, call # 0, call' = 0,
         m' = releaseForegroundJob(m, jobs'),
         jobs' \in [Gens -> JobType],
         \A g \in Gens : g # call => jobs'[g] = jobs[g],
         /\ jobs'[call].settled = jobs[call].settled
         /\ jobs'[call].fg = jobs[call].fg /\ jobs'[call].cut = jobs[call].cut,
         \/ jobs'[call].status = jobs[call].status
         \/ jobs[call].status = "running" /\ jobs'[call].status = "cancelled",
         shown' \in [Gens -> ShownType],
         \A g \in Gens : g # call => shown'[g] = shown[g],
         UNCHANGED <<epoch, turn, wait, reap>>
  PROVE  JobsInv'
<1> USE Bounds, TypesAgree DEF JobsInv
<1>1. /\ m.row = call /\ call \in Gens /\ HasRow(m) /\ jobs[call].fg /\ wait = 0
      /\ m \in FieldsType /\ ~m.released /\ m.timer # "waiting" /\ ~m.watched
      /\ m.suppressed /\ m.dlv[call] = "none"
  BY DEF Tools, Tooling, HasRow, Types, MadeInOrder
<1>2. /\ m' \in FieldsType /\ ~m'.watched /\ m'.dlv = m.dlv /\ m'.stamp = m.stamp
      /\ \/ /\ ~jobs[call].settled /\ m'.row = call /\ m'.suppressed /\ m'.released
            /\ m'.consumed = m.consumed /\ m'.timer = m.timer
         \/ /\ jobs[call].settled /\ m'.row = 0 /\ ~m'.suppressed /\ ~m'.released
            /\ ~m'.consumed /\ m'.timer = "off"
  <2>1. HasRow(m) /\ jobs'[m.row].fg /\ jobs'[m.row].settled = jobs[call].settled
    BY <1>1
  <2> QED
    BY <1>1, <2>1, ReleaseFacts
<1>3. Types'
  BY <1>2 DEF Types
<1>4. RunningHasRow'
  BY <1>1, <1>2 DEF RunningHasRow, Status
<1>5. Made' = Made
  BY <1>1 DEF Made, Status
<1>6. MadeInOrder'
  BY <1>1, <1>2, <1>5 DEF MadeInOrder, HasRow, Status, Seen
<1>7. Marked'
  BY <1>1, <1>2 DEF Marked, HasRow, Status
<1>8. Tools'
  BY <1>1, <1>2 DEF Tools, Tooling, HasRow
<1>9. Places'
  BY <1>1, <1>2 DEF Places, HasRow, Behind
<1>10. CutOff'
  BY <1>1, <1>2 DEF CutOff, Gone, Status
<1> QED
  BY <1>3, <1>4, <1>6, <1>7, <1>8, <1>9, <1>10

LEMMA CallReturnsKeeps == ASSUME JobsInv, CallReturns PROVE JobsInv'
<1>1. Types /\ call \in Gens
  BY Bounds, TypesAgree DEF JobsInv, CallReturns, Types
<1>2. /\ call # 0 /\ call' = 0 /\ m' = releaseForegroundJob(m, jobs')
      /\ UNCHANGED <<jobs, epoch, turn, wait, reap>>
  BY DEF CallReturns
<1>3. shown' = Show(call)
  BY DEF CallReturns
<1>4. shown' \in [Gens -> ShownType] /\ \A g \in Gens : g # call => shown'[g] = shown[g]
  BY <1>1, <1>3, ShowFacts DEF Types
<1> QED
  BY <1>1, <1>2, <1>4, CallEndKeeps DEF Types

LEMMA CallAbortedKeeps == ASSUME JobsInv, CallAborted PROVE JobsInv'
<1>1. Types /\ call \in Gens /\ m.row = call
  BY Bounds, TypesAgree DEF JobsInv, CallAborted, Types, Tools
<1>2. /\ call # 0 /\ call' = 0 /\ m' = releaseForegroundJob(m, jobs')
      /\ UNCHANGED <<epoch, turn, wait, reap, shown>>
  BY DEF CallAborted
<1>3. jobs' = IF Status(call) = "running"
              THEN [jobs EXCEPT ![call].status = "cancelled"] ELSE jobs
  BY <1>1, <1>2 DEF CallAborted, HasRow, SetStatus
<1>4. CASE Status(call) = "running"
  <2> DEFINE new == [jobs[call] EXCEPT !.status = "cancelled"]
  <2>1. jobs[call] \in JobType /\ jobs \in [Gens -> JobType]
    BY <1>1 DEF Types
  <2>2. /\ new \in JobType /\ new.status = "cancelled"
        /\ new.settled = jobs[call].settled
        /\ new.fg = jobs[call].fg /\ new.cut = jobs[call].cut
    BY <2>1 DEF JobType
  <2>3. jobs' = [jobs EXCEPT ![call] = new]
    BY <1>3, <1>4
  <2> HIDE DEF new
  <2>4. /\ jobs' \in [Gens -> JobType] /\ jobs'[call] = new
        /\ \A g \in Gens : g # call => jobs'[g] = jobs[g]
    BY <1>1, <2>1, <2>2, <2>3
  <2> QED
    BY <1>1, <1>2, <1>4, <2>2, <2>4, CallEndKeeps DEF Types, Status
<1>5. CASE Status(call) # "running"
  <2>1. jobs' = jobs
    BY <1>3, <1>5
  <2> QED
    BY <1>1, <1>2, <2>1, CallEndKeeps DEF Types
<1> QED
  BY <1>4, <1>5

(* A foreground job sent to the background is delivered like any other.      *)
BackgroundsTo ==
    /\ call # 0 /\ call' = 0 /\ call \in Gens
    /\ m.row = call /\ HasRow(m) /\ jobs[call].fg /\ wait = 0
    /\ m \in FieldsType /\ ~m.released /\ m.timer # "waiting" /\ ~m.watched
    /\ m.dlv[call] = "none"
    /\ UNCHANGED <<epoch, turn, wait, reap, shown>>
    /\ jobs' \in [Gens -> JobType]
    /\ \A g \in Gens : g # call => jobs'[g] = jobs[g]
    /\ jobs'[call].status = jobs[call].status
    /\ jobs'[call].settled = jobs[call].settled
    /\ ~jobs'[call].fg /\ jobs'[call].cut = jobs[call].cut
    /\ jobs'[call].over = jobs[call].over
    /\ m' \in FieldsType
    /\ m'.row = call /\ ~m'.suppressed /\ ~m'.watched /\ m'.consumed = m.consumed
    /\ ~m'.released /\ m'.timer = m.timer /\ m'.stamp = m.stamp
    /\ \A g \in Gens : g # call => m'.dlv[g] = m.dlv[g]
    /\ m'.dlv[call] = IF Status(call) = "done" THEN "queued" ELSE "none"

LEMMA BackgroundFacts == ASSUME JobsInv, CallBackgrounds PROVE BackgroundsTo
<1> USE Bounds, TypesAgree DEF JobsInv
<1> DEFINE b == [m EXCEPT !.suppressed = FALSE]
<1>1. /\ call # 0 /\ call' = 0 /\ call \in Gens
      /\ m.row = call /\ HasRow(m) /\ jobs[call].fg /\ wait = 0
      /\ m \in FieldsType /\ ~m.released /\ m.timer # "waiting" /\ ~m.watched
      /\ m.dlv[call] = "none"
      /\ UNCHANGED <<epoch, turn, wait, reap, shown>>
  BY DEF CallBackgrounds, Tools, Tooling, HasRow, Types, MadeInOrder
<1>2. /\ jobs' = [jobs EXCEPT ![call].fg = FALSE]
      /\ m' = IF Status(call) = "done" THEN enqueueDelivery(b, call) ELSE b
  BY <1>1 DEF CallBackgrounds
<1>3. /\ jobs' \in [Gens -> JobType]
      /\ \A g \in Gens : g # call => jobs'[g] = jobs[g]
      /\ jobs'[call].status = jobs[call].status
      /\ jobs'[call].settled = jobs[call].settled
      /\ ~jobs'[call].fg /\ jobs'[call].cut = jobs[call].cut
      /\ jobs'[call].over = jobs[call].over
  <2> DEFINE new == [jobs[call] EXCEPT !.fg = FALSE]
  <2>1. jobs[call] \in JobType /\ jobs \in [Gens -> JobType]
    BY <1>1 DEF Types
  <2>2. /\ new \in JobType /\ new.status = jobs[call].status
        /\ new.settled = jobs[call].settled
        /\ ~new.fg /\ new.cut = jobs[call].cut /\ new.over = jobs[call].over
    BY <2>1 DEF JobType
  <2>3. jobs' = [jobs EXCEPT ![call] = new]
    BY <1>2
  <2> HIDE DEF new
  <2> QED
    BY <1>1, <2>1, <2>2, <2>3
<1>4. /\ b \in FieldsType
      /\ b.row = call /\ ~b.suppressed /\ b.watched = m.watched /\ b.consumed = m.consumed
      /\ b.released = m.released /\ b.timer = m.timer /\ b.stamp = m.stamp /\ b.dlv = m.dlv
  BY <1>1 DEF FieldsType
<1> HIDE DEF b
<1>5. /\ m' \in FieldsType
      /\ m'.row = call /\ ~m'.suppressed /\ ~m'.watched /\ m'.consumed = m.consumed
      /\ ~m'.released /\ m'.timer = m.timer /\ m'.stamp = m.stamp
      /\ \A g \in Gens : g # call => m'.dlv[g] = m.dlv[g]
      /\ m'.dlv[call] = IF Status(call) = "done" THEN "queued" ELSE "none"
  <2>1. CASE Status(call) = "done"
    BY <1>1, <1>2, <1>4, <2>1, EnqueueFacts DEF HasRow
  <2>2. CASE Status(call) # "done"
    BY <1>1, <1>2, <1>4, <2>2
  <2> QED
    BY <2>1, <2>2
<1> QED
  BY <1>1, <1>3, <1>5 DEF BackgroundsTo

LEMMA CallBackgroundsKeeps == ASSUME JobsInv, CallBackgrounds PROVE JobsInv'
<1> USE Bounds, TypesAgree DEF JobsInv
<1>1. BackgroundsTo
  BY BackgroundFacts
<1>2. Types'
  BY <1>1 DEF BackgroundsTo, Types
<1>3. RunningHasRow'
  BY <1>1 DEF BackgroundsTo, RunningHasRow, Status
<1>4. Made' = Made
  BY <1>1 DEF BackgroundsTo, Made, Status
<1>5. MadeInOrder'
  BY <1>1, <1>4 DEF BackgroundsTo, MadeInOrder, HasRow, Status, Seen
<1>6. Marked'
  BY <1>1 DEF BackgroundsTo, Marked, HasRow, Status
<1>7. Tools'
  BY <1>1 DEF BackgroundsTo, Tools, Tooling, HasRow
<1>8. Places'
  BY <1>1 DEF BackgroundsTo, Places, HasRow, Behind
<1>9. CutOff'
  BY <1>1 DEF BackgroundsTo, CutOff, Gone, Status
<1> QED
  BY <1>2, <1>3, <1>5, <1>6, <1>7, <1>8, <1>9
-----------------------------------------------------------------------------
(* A step that moves deliveries on, and nothing else of the manager's.       *)
Moves ==
    /\ m' \in FieldsType
    /\ m'.row = m.row /\ m'.suppressed = m.suppressed /\ m'.watched = m.watched
    /\ m'.consumed = m.consumed /\ m'.released = m.released /\ m'.timer = m.timer
    /\ \A h \in Gens : m'.dlv[h] # "none" => m.dlv[h] # "none"
    /\ turn' \in {"idle", "work", "boundary"} /\ (Tooling => turn' = turn)
    /\ UNCHANGED <<jobs, epoch, wait, call, reap, shown>>

LEMMA RowIn == ASSUME JobsInv, HasRow(m) PROVE m.row \in Gens
BY Bounds, TypesAgree DEF JobsInv, Types, FieldsType, HasRow

LEMMA MovesKeep == ASSUME JobsInv, Moves, Places', CutOff' PROVE JobsInv'
<1> USE Bounds, TypesAgree DEF JobsInv, Moves
<1>1. Types'
  BY DEF Types
<1>2. RunningHasRow' /\ Made' = Made
  BY DEF RunningHasRow, Made, Status
<1>3. MadeInOrder'
  BY <1>2 DEF MadeInOrder, HasRow, Status, Seen
<1>4. Marked'
  BY DEF Marked, HasRow, Status
<1>5. Tools'
  BY DEF Tools, Tooling, HasRow, Types
<1> QED
  BY <1>1, <1>2, <1>3, <1>4, <1>5

LEMMA DeliverKeeps == ASSUME JobsInv, NEW g \in Gens, Deliver(g) PROVE JobsInv'
<1>1. /\ m.dlv[g] \in {"queued", "retry"} /\ m \in FieldsType /\ epoch \in Epochs /\ epoch \in Nat
      /\ UNCHANGED <<jobs, epoch, turn, wait, call, reap, shown>>
  BY Bounds, TypesAgree DEF Deliver, Queued, JobsInv, Types
<1>2. \/ m' = [m EXCEPT !.dlv[g] = "none"]
      \/ m' = [m EXCEPT !.dlv[g] = "format", !.stamp[g] = epoch]
  BY DEF Deliver
<1>3. /\ m' \in FieldsType
      /\ m'.row = m.row /\ m'.suppressed = m.suppressed /\ m'.watched = m.watched
      /\ m'.consumed = m.consumed /\ m'.released = m.released /\ m'.timer = m.timer
      /\ \A h \in Gens : h # g => m'.dlv[h] = m.dlv[h] /\ m'.stamp[h] = m.stamp[h]
      /\ \/ m'.dlv[g] = "none" /\ m'.stamp[g] = m.stamp[g]
         \/ m'.dlv[g] = "format" /\ m'.stamp[g] = epoch
  <2>1. CASE m' = [m EXCEPT !.dlv[g] = "none"]
    BY <1>1, <2>1 DEF FieldsType, Pcs
  <2>2. CASE m' = [m EXCEPT !.dlv[g] = "format", !.stamp[g] = epoch]
    BY <1>1, <2>2 DEF FieldsType, Pcs
  <2> QED
    BY <1>2, <2>1, <2>2
<1>4. Moves
  BY <1>1, <1>3, TypesAgree DEF Moves, JobsInv, Types
<1>5. Places'
  BY <1>1, <1>3, RowIn DEF JobsInv, Places, HasRow, Behind
<1>6. CutOff'
  <2>1. ~jobs[g].cut
    BY <1>1 DEF JobsInv, CutOff, Gone, MadeInOrder
  <2> QED
    BY <1>1, <1>3, <2>1 DEF JobsInv, CutOff, Gone, Status
<1> QED
  BY <1>4, <1>5, <1>6, MovesKeep

(* An attempt that passes one more place.                                    *)
LEMMA PassKeeps ==
  ASSUME JobsInv, NEW g \in Gens, NEW to \in Behind,
         m.dlv[g] \in Behind, ~jobs[g].cut,
         to \in {"drained", "built"} => turn' = "boundary",
         \A h \in Gens : h # g /\ m.dlv[h] \in {"drained", "built"} => turn' = "boundary",
         m' = [m EXCEPT !.dlv[g] = to],
         turn' \in {"idle", "work", "boundary"}, Tooling => turn' = turn,
         UNCHANGED <<jobs, epoch, wait, call, reap, shown>>
  PROVE  JobsInv'
<1>1. m \in FieldsType
  BY TypesAgree DEF JobsInv, Types
<1>2. /\ m' \in FieldsType
      /\ m'.row = m.row /\ m'.suppressed = m.suppressed /\ m'.watched = m.watched
      /\ m'.consumed = m.consumed /\ m'.released = m.released /\ m'.timer = m.timer
      /\ m'.stamp = m.stamp /\ m'.dlv[g] = to
      /\ \A h \in Gens : h # g => m'.dlv[h] = m.dlv[h]
  BY <1>1 DEF FieldsType, Pcs, Behind
<1>3. Moves
  BY <1>2 DEF Moves, Behind
<1>4. Places'
  BY <1>2 DEF JobsInv, Places, HasRow, Behind
<1>5. CutOff'
  BY <1>2 DEF JobsInv, CutOff, Gone, Status
<1> QED
  BY <1>3, <1>4, <1>5, MovesKeep

(* What is not stale belongs to no job that was cut off.                     *)
LEMMA FreshIsKept ==
  ASSUME JobsInv, NEW g \in Gens, m.dlv[g] # "none",
         m.dlv[g] # "format" \/ ~isStale(m, g)
  PROVE  ~jobs[g].cut
<1>1. /\ m.dlv[g] = "format" => m.stamp[g] = epoch
      /\ epoch \in Nat
      /\ Status(g) = "done"
  BY Bounds, TypesAgree DEF isStale, JobsInv, MadeInOrder, Types
<1> QED
  BY <1>1 DEF JobsInv, CutOff, Gone, Status

(* The end of an attempt that the sink accepted, or dropped.                 *)
LEMMA AcceptKeeps ==
  ASSUME JobsInv, NEW g \in Gens, m.dlv[g] # "none",
         m' = Delivered(m, jobs, g),
         shown' \in [Gens -> ShownType],
         \A h \in Gens : h # g => shown'[h] = shown[h],
         UNCHANGED <<jobs, epoch, turn, wait, call, reap>>
  PROVE  JobsInv'
<1> USE Bounds, TypesAgree DEF JobsInv
<1>1. /\ m' \in FieldsType
      /\ m'.dlv[g] = "none" /\ \A h \in Gens : h # g => m'.dlv[h] = m.dlv[h]
      /\ m'.stamp = m.stamp /\ m'.released = m.released
      /\ \/ /\ m'.row = m.row /\ m'.suppressed = m.suppressed /\ m'.watched = m.watched
            /\ m'.consumed => m.consumed \/ (HasRow(m) /\ jobs[m.row].settled)
            /\ \/ m'.timer = m.timer
               \/ m'.timer = "armed" /\ HasRow(m) /\ (m.consumed \/ jobs[m.row].settled)
         \/ /\ m.timer = "waiting"
            /\ m'.row = 0 /\ ~m'.suppressed /\ ~m'.watched /\ ~m'.consumed
            /\ m'.timer = "off"
  BY DeliveredFacts DEF Types
<1>2. m.timer = "waiting" => /\ wait = 0 /\ call = 0
                             /\ HasRow(m) /\ jobs[m.row].settled /\ ~m.released
  BY DEF Tools, Tooling, Marked
<1>3. Types'
  BY <1>1 DEF Types
<1>4. RunningHasRow' /\ Made' = Made
  BY <1>1, <1>2 DEF RunningHasRow, Made, Status, HasRow
<1>5. MadeInOrder'
  BY <1>1, <1>4 DEF MadeInOrder, HasRow, Status, Seen
<1>6. Marked'
  BY <1>1, <1>2 DEF Marked, HasRow, Status
<1>7. Tools'
  BY <1>1, <1>2 DEF Tools, Tooling, HasRow, Types
<1>8. Places'
  BY <1>1, <1>2, RowIn DEF Places, HasRow, Behind
<1>9. CutOff'
  BY <1>1, <1>2 DEF CutOff, Gone, Status, MadeInOrder
<1> QED
  BY <1>3, <1>4, <1>5, <1>6, <1>7, <1>8, <1>9

(* The end of an attempt that failed.                                        *)
LEMMA FailKeeps ==
  ASSUME JobsInv, NEW g \in Gens, m.dlv[g] \in Behind, ~jobs[g].cut,
         m' = Failed(m, {g}),
         UNCHANGED <<jobs, epoch, turn, wait, call, reap, shown>>
  PROVE  JobsInv'
<1> USE Bounds, TypesAgree DEF JobsInv
<1>1. /\ m' \in FieldsType
      /\ m'.dlv[g] \in {"retry", "none"} /\ \A h \in Gens : h # g => m'.dlv[h] = m.dlv[h]
      /\ m'.stamp = m.stamp /\ m'.released = m.released
      /\ \/ /\ m'.row = m.row /\ m'.suppressed = m.suppressed /\ m'.watched = m.watched
            /\ m'.consumed = m.consumed /\ m'.timer = m.timer
         \/ /\ m.timer = "waiting"
            /\ m'.row = 0 /\ ~m'.suppressed /\ ~m'.watched /\ ~m'.consumed
            /\ m'.timer = "off"
  BY FailedFacts DEF Types
<1>2. m.timer = "waiting" => /\ wait = 0 /\ call = 0
                             /\ HasRow(m) /\ jobs[m.row].settled /\ ~m.released
  BY DEF Tools, Tooling, Marked
<1>3. m.dlv[g] # "none"
  BY DEF Behind
<1>4. Types'
  BY <1>1 DEF Types
<1>5. RunningHasRow' /\ Made' = Made
  BY <1>1, <1>2 DEF RunningHasRow, Made, Status, HasRow
<1>6. MadeInOrder'
  BY <1>1, <1>3, <1>5 DEF MadeInOrder, HasRow, Status, Seen
<1>7. Marked'
  BY <1>1, <1>2 DEF Marked, HasRow, Status
<1>8. Tools'
  <2>1. m.watched => wait \in Gens /\ m'.dlv[wait] = "none"
    BY <1>1, <1>3 DEF Tools, Types
  <2> QED
    BY <1>1, <1>2, <2>1 DEF Tools, Tooling, HasRow
<1>9. Places'
  BY <1>1, <1>2, <1>3, RowIn DEF Places, HasRow, Behind
<1>10. CutOff'
  <2> SUFFICES ASSUME NEW h \in Gens, jobs[h].cut
               PROVE  (Gone(h) \/ (m.row = h /\ Status(h) = "cancelled" /\ call # h))'
    BY <1>1 DEF CutOff
  <2>1. h # g /\ m'.dlv[h] = m.dlv[h]
    BY <1>1
  <2>2. Status(h) = "cancelled" => m.dlv[h] = "none"
    BY DEF MadeInOrder
  <2> QED
    BY <1>1, <1>2, <2>1, <2>2, Bounds DEF CutOff, Gone, Status
<1> QED
  BY <1>4, <1>5, <1>6, <1>7, <1>8, <1>9, <1>10
LEMMA AttemptsKeep ==
  ASSUME JobsInv, NEW g \in Gens,
         Deliver(g) \/ Formatted(g) \/ Build(g) \/ Commit(g) \/ Discard(g) \/ IdleFlush(g)
  PROVE  JobsInv'
<1>1. Types /\ (m.dlv[g] \in {"drained", "built"} => turn = "boundary")
  BY TypesAgree DEF JobsInv, Types, Places
<1>2. \A h \in Gens : m.dlv[h] \in {"drained", "built"} => turn = "boundary"
  BY DEF JobsInv, Places
<1>3. m.dlv[g] = "built" \/ m.dlv[g] = "parked" \/ m.dlv[g] = "drained" => ~jobs[g].cut
  BY FreshIsKept
<1>4. ASSUME Formatted(g) PROVE JobsInv'
  <2>1. CASE isStale(m, g)
    BY <1>1, <1>4, <2>1, AcceptKeeps DEF Formatted, Types
  <2>2. CASE ~isStale(m, g)
    <3>1. m' = [m EXCEPT !.dlv[g] = "parked"] /\ m.dlv[g] = "format" /\ ~jobs[g].cut
      BY <1>4, <2>2, FreshIsKept DEF Formatted
    <3> QED
      BY <1>1, <1>2, <1>4, <3>1, PassKeeps DEF Formatted, Types, Behind
  <2> QED
    BY <2>1, <2>2
<1>5. ASSUME Build(g) PROVE JobsInv'
  <2>1. CASE isStale(m, g)
    BY <1>3, <1>5, <2>1, FailKeeps DEF Build, Behind
  <2>2. CASE ~isStale(m, g)
    BY <1>1, <1>2, <1>3, <1>5, <2>2, PassKeeps DEF Build, Types, Behind
  <2> QED
    BY <2>1, <2>2
<1>6. ASSUME Commit(g) PROVE JobsInv'
  <2>1. shown' \in [Gens -> ShownType] /\ \A h \in Gens : h # g => shown'[h] = shown[h]
    BY <1>1, <1>6, ShowFacts DEF Commit, Types
  <2> QED
    BY <1>6, <2>1, AcceptKeeps DEF Commit
<1>7. ASSUME Discard(g) PROVE JobsInv'
  BY <1>3, <1>7, FailKeeps DEF Discard, Behind
<1>8. ASSUME IdleFlush(g) PROVE JobsInv'
  <2>1. CASE m' = Failed(m, {g}) /\ UNCHANGED <<turn, shown>>
    BY <1>3, <1>8, <2>1, FailKeeps DEF IdleFlush, Behind
  <2>2. CASE m' = [m EXCEPT !.dlv[g] = "built"] /\ turn' = "boundary" /\ UNCHANGED shown
    <3>1. ~Tooling
      BY <1>8 DEF IdleFlush, JobsInv, Tools
    <3> QED
      BY <1>3, <1>8, <2>2, <3>1, PassKeeps DEF IdleFlush, Behind
  <2>3. CASE m' = Delivered(m, jobs, g) /\ shown' = Show(g) /\ UNCHANGED turn
    <3>1. shown' \in [Gens -> ShownType] /\ \A h \in Gens : h # g => shown'[h] = shown[h]
      BY <1>1, <2>3, ShowFacts DEF Types
    <3> QED
      BY <1>8, <2>3, <3>1, AcceptKeeps DEF IdleFlush
  <2> QED
    BY <1>8, <2>1, <2>2, <2>3 DEF IdleFlush
<1> QED
  BY <1>4, <1>5, <1>6, <1>7, <1>8, DeliverKeeps

(* The steps of the run between its tools.                                   *)
LEMMA TurnsKeep ==
  ASSUME JobsInv, StartRun \/ Boundary \/ LeaveBoundary \/ Abort PROVE JobsInv'
<1>1. m \in FieldsType
  BY TypesAgree DEF JobsInv, Types
<1>2. ASSUME StartRun \/ LeaveBoundary \/ Abort PROVE JobsInv'
  <2>1. Moves
    BY <1>1, <1>2 DEF Moves, StartRun, LeaveBoundary, Abort, JobsInv, Tools
  <2>2. Places'
    BY <1>2 DEF JobsInv, Places, HasRow, StartRun, LeaveBoundary, Abort
  <2>3. CutOff'
    BY <1>2 DEF JobsInv, CutOff, Gone, Status, StartRun, LeaveBoundary, Abort
  <2> QED
    BY <2>1, <2>2, <2>3, MovesKeep
<1>3. ASSUME Boundary PROVE JobsInv'
  <2> DEFINE d == [h \in Gens |-> IF m.dlv[h] = "parked" THEN "drained" ELSE m.dlv[h]]
  <2>1. /\ turn' = "boundary" /\ ~Tooling
        /\ m' = [m EXCEPT !.dlv = d]
        /\ UNCHANGED <<jobs, epoch, wait, call, reap, shown>>
    BY <1>3 DEF Boundary
  <2>2. d \in [Gens -> Pcs]
    BY <1>1 DEF FieldsType, Pcs
  <2>3. \A h \in Gens : d[h] = IF m.dlv[h] = "parked" THEN "drained" ELSE m.dlv[h]
    OBVIOUS
  <2> HIDE DEF d
  <2>4. /\ m' \in FieldsType
        /\ m'.row = m.row /\ m'.suppressed = m.suppressed /\ m'.watched = m.watched
        /\ m'.consumed = m.consumed /\ m'.released = m.released /\ m'.timer = m.timer
        /\ m'.stamp = m.stamp /\ m'.dlv = d
    BY <1>1, <2>1, <2>2 DEF FieldsType
  <2>5. Moves
    BY <2>1, <2>3, <2>4 DEF Moves
  <2>6. Places'
    BY <2>1, <2>3, <2>4, RowIn DEF JobsInv, Places, HasRow, Behind
  <2>7. CutOff'
    BY <2>1, <2>3, <2>4 DEF JobsInv, CutOff, Gone, Status
  <2> QED
    BY <2>5, <2>6, <2>7, MovesKeep
<1> QED
  BY <1>2, <1>3

(* The retention takes the row of a job that has settled, and that no tool   *)
(* call holds.                                                               *)
LEMMA TimerKeeps == ASSUME JobsInv, TimerFires PROVE JobsInv'
<1> USE Bounds, TypesAgree DEF JobsInv
<1>1. /\ m.timer = "armed" /\ ~Waking /\ m \in FieldsType
      /\ UNCHANGED <<jobs, epoch, turn, wait, call, reap, shown>>
  BY DEF TimerFires, Types
<1>2. /\ HasRow(m) /\ m.row \in Gens /\ jobs[m.row].settled
      /\ wait = 0 /\ call = 0 /\ ~m.watched /\ ~m.released
  <2>1. HasRow(m) /\ m.row \in Gens /\ jobs[m.row].settled
    BY <1>1, RowIn DEF Marked
  <2> QED
    BY <1>1, <2>1 DEF Tools, Waking
<1>3. CASE m' = evictJob(m)
  <2>1. /\ m' \in FieldsType
        /\ m'.row = 0 /\ ~m'.suppressed /\ ~m'.watched /\ ~m'.consumed
        /\ m'.timer = "off" /\ m'.released = m.released /\ m'.dlv = m.dlv /\ m'.stamp = m.stamp
    BY <1>1, <1>3, EvictFacts
  <2>2. Types'
    BY <1>1, <2>1 DEF Types
  <2>3. RunningHasRow' /\ Made' = Made
    BY <1>1, <1>2, <2>1 DEF RunningHasRow, Made, Status
  <2>4. MadeInOrder'
    BY <1>1, <2>1, <2>3 DEF MadeInOrder, HasRow, Status, Seen
  <2>5. Marked' /\ Tools' /\ Places'
    BY <1>1, <1>2, <2>1 DEF Marked, Tools, Tooling, Places, HasRow, Status
  <2>6. CutOff'
    BY <1>1, <1>2, <2>1 DEF CutOff, Gone, Status, MadeInOrder
  <2> QED
    BY <2>2, <2>3, <2>4, <2>5, <2>6
<1>4. ASSUME NEW g \in Gens, m' = [m EXCEPT !.timer = "waiting", !.timerOn = g]
      PROVE  JobsInv'
  <2>1. /\ m' \in FieldsType
        /\ m'.row = m.row /\ m'.suppressed = m.suppressed /\ m'.watched = m.watched
        /\ m'.consumed = m.consumed /\ m'.released = m.released /\ m'.timer = "waiting"
        /\ m'.dlv = m.dlv /\ m'.stamp = m.stamp
    BY <1>1, <1>4 DEF FieldsType
  <2>2. Types'
    BY <1>1, <2>1 DEF Types
  <2>3. RunningHasRow' /\ Made' = Made
    BY <1>1, <2>1 DEF RunningHasRow, Made, Status
  <2>4. MadeInOrder'
    BY <1>1, <2>1, <2>3 DEF MadeInOrder, HasRow, Status, Seen
  <2>5. Marked' /\ Tools' /\ Places'
    BY <1>1, <1>2, <2>1 DEF Marked, Tools, Tooling, Places, HasRow, Status
  <2>6. CutOff'
    BY <1>1, <2>1 DEF CutOff, Gone, Status
  <2> QED
    BY <2>2, <2>3, <2>4, <2>5, <2>6
<1>5. InFlight(m) \subseteq Gens
  BY DEF InFlight
<1> QED
  BY <1>3, <1>4, <1>5 DEF TimerFires

(* What a transition does to the jobs, to the fields when it evicts the      *)
(* finished job, and to those when it clears the yield queue.                *)
LeavesJobs ==
    /\ jobs' \in [Gens -> JobType]
    /\ \A g \in Gens :
          /\ g # m.row => jobs'[g] = jobs[g]
          /\ g = m.row => /\ jobs'[g].cut
                          /\ jobs'[g].status = IF Status(g) = "running" THEN "cancelled"
                                               ELSE Status(g)
          /\ jobs'[g].fg = jobs[g].fg /\ jobs'[g].settled = jobs[g].settled
          /\ jobs'[g].over = jobs[g].over

Evicts(e) ==
    /\ e \in FieldsType /\ ~e.watched /\ e.stamp = m.stamp /\ e.released = m.released
    /\ \/ /\ e.row = m.row /\ e.suppressed = m.suppressed /\ e.consumed = m.consumed
          /\ e.timer = m.timer /\ e.dlv = m.dlv
          /\ HasRow(m) => Status(m.row) # "done"
       \/ /\ HasRow(m) /\ Status(m.row) = "done"
          /\ e.row = 0 /\ ~e.suppressed /\ ~e.consumed /\ e.timer = "off"
          /\ \A g \in Gens : e.dlv[g] =
                IF m.dlv[g] \in {"queued", "retry"} THEN "none" ELSE m.dlv[g]

Clears(e) ==
    /\ m' \in FieldsType /\ ~m'.watched /\ m'.stamp = m.stamp /\ m'.released = m.released
    /\ \A g \in Gens : m.dlv[g] = "parked" /\ e.row = 0 => m'.dlv[g] = "none"
    /\ \A g \in Gens : m.dlv[g] # "parked" => m'.dlv[g] = e.dlv[g]
    /\ \A g \in Gens : m'.dlv[g] # e.dlv[g] => e.dlv[g] # "none" /\ m'.dlv[g] \in {"retry", "none"}
    /\ \/ /\ m'.row = e.row /\ m'.suppressed = e.suppressed
          /\ m'.consumed = e.consumed /\ m'.timer = e.timer
       \/ /\ m.timer = "waiting" /\ e.row = m.row
          /\ m'.row = 0 /\ ~m'.suppressed /\ ~m'.consumed /\ m'.timer = "off"

LEMMA TransitionFacts ==
  ASSUME JobsInv, Transition
  PROVE  /\ wait = 0 /\ call = 0 /\ turn = "idle" /\ epoch \in Nat
         /\ epoch' = epoch + 1 /\ epoch' \in Epochs /\ UNCHANGED <<turn, wait, call, reap, shown>>
         /\ LeavesJobs /\ \E e : Evicts(e) /\ Clears(e)
<1> USE Bounds, TypesAgree DEF JobsInv
<1> DEFINE parked == {g \in Gens : m.dlv[g] = "parked"}
           e == evictCompletedJobs(m)
<1>1. /\ turn = "idle" /\ epoch < MaxEpoch /\ epoch' = epoch + 1
      /\ m' = Failed(e, parked) /\ m \in FieldsType
      /\ UNCHANGED <<turn, wait, call, reap, shown>>
  BY DEF Transition, Types
<1>2. wait = 0 /\ call = 0 /\ ~m.watched /\ epoch \in Nat /\ epoch' \in Epochs
  BY <1>1 DEF Tools, Tooling, Types, Epochs
<1>4. LeavesJobs
  <2> DEFINE s(g) == IF jobs[g].status = "running" THEN "cancelled" ELSE jobs[g].status
             new(g) == [jobs[g] EXCEPT !.cut = TRUE, !.status = s(g)]
  <2>1. \A g \in Gens : /\ new(g) \in JobType /\ new(g).cut /\ new(g).status = s(g)
                        /\ new(g).fg = jobs[g].fg /\ new(g).settled = jobs[g].settled
                        /\ new(g).over = jobs[g].over
    <3>1. \A g \in Gens : jobs[g] \in JobType
      BY DEF Types
    <3> QED
      BY <3>1 DEF JobType
  <2>2. jobs' = [g \in Gens |-> IF m.row # g THEN jobs[g] ELSE new(g)]
    BY DEF Transition
  <2>3. \A g \in Gens : s(g) = IF Status(g) = "running" THEN "cancelled" ELSE Status(g)
    BY DEF Status
  <2> HIDE DEF new, s
  <2> QED
    BY <2>1, <2>2, <2>3 DEF LeavesJobs, Types
<1>5. Evicts(e)
  BY <1>1, <1>2, CompletedFacts DEF Evicts
<1> HIDE DEF e
<1>6. Clears(e)
  <2> USE DEF Evicts, Clears
  <2>1. /\ m' \in FieldsType
        /\ \A h \in Gens : m'.dlv[h] =
              IF h \notin parked THEN e.dlv[h]
              ELSE IF ~e.suppressed /\ ~e.watched /\ HasRow(e) THEN "retry" ELSE "none"
        /\ m'.stamp = e.stamp /\ m'.released = e.released
        /\ \/ /\ m'.row = e.row /\ m'.suppressed = e.suppressed /\ m'.watched = e.watched
              /\ m'.consumed = e.consumed /\ m'.timer = e.timer
           \/ /\ e.timer = "waiting"
              /\ m'.row = 0 /\ ~m'.suppressed /\ ~m'.watched /\ ~m'.consumed
              /\ m'.timer = "off"
    BY <1>1, <1>5, FailedFacts
  <2>2. \A h \in parked : e.dlv[h] = "parked"
    BY <1>5
  <2> QED
    <3>1. \A g \in Gens : g \in parked <=> m.dlv[g] = "parked"
      OBVIOUS
    <3> HIDE DEF parked
    <3> QED
      BY <1>5, <2>1, <2>2, <3>1 DEF HasRow
<1> QED
  BY <1>1, <1>2, <1>4, <1>5, <1>6

(* A transition finds no tool call; what it cancels or evicts is cut off.    *)
LEMMA TransitionKeeps == ASSUME JobsInv, Transition PROVE JobsInv'
<1> USE Bounds, TypesAgree DEF JobsInv
<1>1. /\ turn = "idle" /\ epoch' = epoch + 1 /\ m \in FieldsType
      /\ UNCHANGED <<turn, wait, call, reap, shown>>
  BY TransitionFacts DEF Types
<1>2. wait = 0 /\ call = 0 /\ ~m.watched /\ epoch \in Nat /\ epoch' \in Epochs
  BY TransitionFacts DEF Tools, Types
<1>3. \A g \in Gens : m.stamp[g] \in Nat /\ m.stamp[g] <= epoch
  BY <1>1 DEF Places, FieldsType
<1>4. LeavesJobs
  BY TransitionFacts
<1>5. PICK e : Evicts(e) /\ Clears(e)
  BY TransitionFacts
<1>6. Clears(e)
  BY <1>5
<1> USE DEF LeavesJobs, Evicts, Clears
<1>7. Types'
  BY <1>1, <1>2, <1>4, <1>6 DEF Types
<1>8. \A g \in Gens : m'.dlv[g] # "none" => m.dlv[g] # "none" /\ Status(g) = "done" /\ ~jobs[g].fg
  BY <1>5, <1>6 DEF MadeInOrder
<1>9. m.timer = "waiting" => HasRow(m) /\ jobs[m.row].settled
  BY DEF Marked
<1>10. m.released => /\ HasRow(m) /\ jobs[m.row].fg /\ ~jobs[m.row].settled
                    /\ m'.row = m.row
  <2>1. ASSUME m.released PROVE HasRow(m) /\ jobs[m.row].fg /\ ~jobs[m.row].settled
    BY <2>1 DEF Tools
  <2>2. ASSUME m.released PROVE Status(m.row) # "done" /\ m.timer # "waiting"
    BY <2>1, <2>2, <1>9, RowIn DEF MadeInOrder
  <2> QED
    BY <1>5, <1>6, <2>1, <2>2
<1>11. RunningHasRow'
  <2> SUFFICES ASSUME NEW g \in Gens, (Status(g) # "none" /\ ~jobs[g].settled)'
               PROVE  m'.row = g
    BY DEF RunningHasRow
  <2>1. Status(g) # "none" /\ ~jobs[g].settled
    BY <1>4 DEF Status
  <2>2. m.row = g /\ HasRow(m) /\ Status(g) # "done"
    BY <2>1 DEF RunningHasRow, MadeInOrder, HasRow
  <2> QED
    BY <1>5, <1>6, <1>9, <2>1, <2>2
<1>12. Made' = Made
  BY <1>4 DEF Made, Status
<1>13. HasRow(m)' => m'.row = m.row /\ HasRow(m) /\ m'.row \in Gens /\ Status(m.row) \notin {"none", "done"}
  BY <1>5, <1>6, RowIn DEF HasRow, MadeInOrder
<1>14. MadeInOrder'
  <2>1. \A g \in Gens : jobs'[g].status = "none" => Status(g) = "none" /\ jobs'[g] = jobs[g]
    BY <1>4, RowIn DEF MadeInOrder, HasRow, Status
  <2>2. \A g \in Gens : jobs'[g].status = "done" <=> Status(g) = "done"
    BY <1>4 DEF Status
  <2>3. \A g \in Gens : jobs'[g].status = "running" => Status(g) = "running"
    BY <1>4 DEF Status
  <2>4. HasRow(m)' => jobs'[m'.row].status # "none"
    BY <1>4, <1>13
  <2>5. \A g \in Gens : m'.dlv[g] # "none" => jobs'[g].status = "done" /\ ~jobs'[g].fg
    BY <1>4, <1>8, <2>2
  <2>6. \A g \in Gens : jobs'[g].status = "done" => jobs'[g].settled
    BY <1>4, <2>2 DEF MadeInOrder
  <2>7. \A g \in Gens : jobs'[g].status = "running" => ~jobs'[g].settled
    BY <1>4, <2>3 DEF MadeInOrder
  <2>8. \A g \in Gens : jobs'[g].status = "none" =>
           ~jobs'[g].settled /\ ~jobs'[g].fg /\ ~jobs'[g].cut /\ shown'[g] = << >>
    BY <1>1, <2>1 DEF MadeInOrder, Seen
  <2>9. Made' = 1..Cardinality(Made')
    BY <1>12 DEF MadeInOrder
  <2> QED
    BY <2>4, <2>5, <2>6, <2>7, <2>8, <2>9 DEF MadeInOrder, Status, Seen
<1>15. Marked'
  <2>1. m'.timer # "off" \/ m'.consumed => HasRow(m)' /\ jobs'[m'.row].settled
    BY <1>4, <1>5, <1>6, <1>13, RowIn DEF Marked, HasRow
  <2>2. HasRow(m)' => jobs'[m'.row].status # "running"
    BY <1>4, <1>13
  <2>3. ~HasRow(m)' => ~m'.suppressed
    BY <1>5, <1>6 DEF Marked, HasRow
  <2>4. ~HasRow(m)' => ~m'.released
    BY <1>6, <1>10 DEF HasRow
  <2> QED
    BY <1>6, <2>1, <2>2, <2>3, <2>4 DEF Marked, Status
<1>16. Tools'
  <2>1. ASSUME HasRow(m)', jobs'[m'.row].fg PROVE m'.suppressed /\ m'.released
    <3>1. HasRow(m) /\ m'.row = m.row /\ jobs[m.row].fg
      BY <1>4, <1>13, <2>1
    <3> QED
      BY <1>2, <1>5, <1>6, <3>1 DEF Tools, HasRow
  <2>2. m'.released => HasRow(m)' /\ jobs'[m'.row].fg /\ ~jobs'[m'.row].settled
    BY <1>4, <1>6, <1>10, RowIn DEF HasRow
  <2> QED
    BY <1>1, <1>2, <1>6, <2>1, <2>2 DEF Tools, Tooling
<1>17. \A g \in Gens : m.dlv[g] \notin {"drained", "built"}
  BY <1>1 DEF Places
<1>18. Places'
  <2>1. \A g \in Gens : m'.dlv[g] \notin {"drained", "built"}
    BY <1>5, <1>6, <1>17
  <2>2. \A g \in Gens : m'.stamp[g] <= epoch'
    <3>1. m'.stamp = m.stamp /\ epoch' = epoch + 1 /\ epoch \in Nat
      BY <1>1, <1>2, <1>6
    <3> QED
      BY <1>3, <3>1
  <2>3. HasRow(m)' => m'.dlv[m'.row] = "none"
    BY <1>8, <1>13
  <2> QED
    BY <2>1, <2>2, <2>3 DEF Places, Behind
<1>19. CutOff'
  <2> SUFFICES ASSUME NEW g \in Gens, jobs'[g].cut
               PROVE  (Gone(g) \/ (m.row = g /\ Status(g) = "cancelled" /\ call # g))'
    BY DEF CutOff
  <2>1. CASE g # m.row
    <3>1. Gone(g)
      BY <1>4, <2>1 DEF CutOff
    <3>2. m'.dlv[g] # "none" => m'.dlv[g] = "format" /\ m.stamp[g] < epoch
      <4>1. e.dlv[g] = m.dlv[g] \/ e.dlv[g] = "none"
        BY <1>5
      <4>2. m.dlv[g] # "parked" /\ (m.dlv[g] # "none" => m.dlv[g] = "format" /\ m.stamp[g] < epoch)
        BY <3>1 DEF Gone
      <4>3. m'.dlv[g] = e.dlv[g]
        BY <1>6, <4>2
      <4> QED
        BY <4>1, <4>2, <4>3
    <3>3. m.stamp[g] < epoch => m'.stamp[g] < epoch'
      BY <1>1, <1>2, <1>6, <1>3
    <3>4. m'.row # g /\ call' # g
      BY <1>1, <1>2, <1>5, <1>6, <2>1
    <3> QED
      BY <3>2, <3>3, <3>4 DEF Gone
  <2>2. CASE g = m.row /\ Status(g) = "done"
    <3>1. HasRow(m) /\ e.row = 0
      BY <1>5, <2>2 DEF HasRow
    <3>2. m'.row = 0
      BY <1>5, <1>6, <3>1
    <3>3. m'.dlv[g] # "none" => m'.dlv[g] = "format"
      <4>1. CASE m.dlv[g] = "parked"
        BY <1>6, <3>1, <4>1
      <4>2. CASE m.dlv[g] # "parked"
        <5>1. m'.dlv[g] \in {m.dlv[g], "none"} \ {"queued", "retry"}
          BY <1>5, <1>6, <2>2, <3>1, <4>2 DEF HasRow
        <5> QED
          BY <1>1, <1>17, <4>2, <5>1 DEF FieldsType, Pcs
      <4> QED
        BY <4>1, <4>2
    <3>4. m'.stamp[g] < epoch'
      BY <1>1, <1>2, <1>6, <1>3
    <3> QED
      BY <1>1, <1>2, <3>2, <3>3, <3>4 DEF Gone
  <2>3. CASE g = m.row /\ Status(g) # "done"
    <3>1. HasRow(m) /\ Status(g) \in {"running", "cancelled"}
      BY <2>3 DEF HasRow, MadeInOrder, Types, JobType, Status
    <3>2. jobs'[g].status = "cancelled" /\ m'.dlv[g] = "none"
      BY <1>4, <1>8, <2>3, <3>1
    <3>3. m'.row = g \/ m'.row = 0
      BY <1>5, <1>6, <2>3
    <3> QED
      BY <1>1, <1>2, <3>2, <3>3 DEF Gone, Status
  <2> QED
    BY <2>1, <2>2, <2>3
<1> QED
  BY <1>7, <1>11, <1>14, <1>15, <1>16, <1>18, <1>19
-----------------------------------------------------------------------------
LEMMA JobsStep == JobsInv /\ [Next]_vars => JobsInv'
<1> SUFFICES ASSUME JobsInv, [Next]_vars PROVE JobsInv'
  OBVIOUS
<1>1. CASE UNCHANGED vars
  <2>1. UNCHANGED <<TypeOK, RunningHasRow, MadeInOrder, Marked>>
    BY <1>1 DEF vars, TypeOK, RunningHasRow, MadeInOrder, Made, Marked, HasRow, Status, Seen
  <2>2. UNCHANGED <<Tools, Places, CutOff>>
    BY <1>1 DEF vars, Tools, Tooling, Places, CutOff, Gone, HasRow, Status
  <2> QED
    BY <2>1, <2>2 DEF JobsInv
<1>2. CASE Owner
  <2>1. Register(FALSE) => JobsInv'
    BY RegisterKeeps
  <2> QED
    BY <1>2, <2>1, CancelKeeps, SnapshotKeeps, WaitStartKeeps, WaitReportKeeps,
       WaitInterruptedKeeps, TurnsKeep, TransitionKeeps DEF Owner
<1>3. CASE Deliveries
  BY <1>3, AttemptsKeep DEF Deliveries
<1>4. CASE TimerFires
  BY <1>4, TimerKeeps
<1>5. CASE \E g \in Gens : Settle(g)
  BY <1>5, SettleKeeps
<1>6. CASE Register(TRUE)
  BY <1>6, RegisterKeeps
<1>7. CASE CallReturns \/ CallAborted \/ CallBackgrounds
  BY <1>7, CallReturnsKeeps, CallAbortedKeeps, CallBackgroundsKeeps
<1>8. CASE publishCompleted
  BY <1>8, PublishKeeps
<1> QED
  BY <1>1, <1>2, <1>3, <1>4, <1>5, <1>6, <1>7, <1>8 DEF Next

LEMMA JobsAlways == Spec => []JobsInv
BY JobsInit, JobsStep, PTL DEF Spec

(* Type correctness: no generation has two deliveries at once, also where    *)
(* backgroundJob enqueues without looking.                                   *)
THEOREM JobsTyped == Spec => []TypeOK
<1>1. JobsInv => TypeOK
  BY DEF JobsInv
<1> QED
  BY <1>1, JobsAlways, PTL

(* An unsettled job keeps its row, whatever its deliveries, an earlier job's *)
(* eviction timer and the transitions of the session do.                     *)
THEOREM JobsKeepRows == Spec => []RunningHasRow
<1>1. JobsInv => RunningHasRow
  BY DEF JobsInv
<1> QED
  BY <1>1, JobsAlways, PTL

(* No transition lets the result of a job whose row it found into a later    *)
(* transcript (evictCompletedJobs).                                          *)
THEOREM OldResultsOut == Spec => OldResultsStayOut
<1>1. ASSUME JobsInv, [Next]_vars, NEW g \in Gens, jobs[g].cut
      PROVE  shown'[g] = shown[g]
  <2>1. Types /\ m.dlv[g] \notin {"parked", "drained", "built"}
    BY <1>1, TypesAgree, FreshIsKept DEF JobsInv
  <2>2. /\ call # g
        /\ m.row = g => Status(g) = "cancelled"
    BY <1>1 DEF JobsInv, CutOff, Gone
  <2>3. ASSUME NEW h \in Gens, h # g, shown' = Show(h) PROVE shown'[g] = shown[g]
    BY <2>1, <2>3, ShowFacts DEF Types
  <2>4. ASSUME NEW h \in Gens, Report(h), h = g => Status(g) # "done"
        PROVE  shown'[g] = shown[g]
    BY <1>1, <2>1, <2>4, ReportFacts DEF Types
  <2>5. CASE Snapshot \/ WaitStart
    <3>1. m.row \in Gens /\ (Report(m.row) \/ UNCHANGED shown)
      BY <1>1, <2>5, RowIn DEF Snapshot, WaitStart
    <3> QED
      BY <2>2, <2>4, <3>1
  <2>6. CASE WaitReport
    <3>1. m.row \in Gens /\ Report(m.row)
      BY <1>1, <2>6, RowIn DEF WaitReport, JobsInv, Tools, HasRow
    <3> QED
      BY <2>2, <2>4, <3>1
  <2>7. CASE CallReturns
    <3>1. call \in Gens
      BY <2>1, <2>7, Bounds DEF CallReturns, Types
    <3> QED
      BY <2>2, <2>3, <2>7, <3>1 DEF CallReturns
  <2>8. ASSUME NEW h \in Gens, Commit(h) \/ IdleFlush(h) PROVE shown'[g] = shown[g]
    <3>1. m.dlv[h] \in {"parked", "built"} /\ (shown' = Show(h) \/ UNCHANGED shown)
      BY <2>8 DEF Commit, IdleFlush
    <3> QED
      BY <2>1, <2>3, <3>1
  <2>9. CASE UNCHANGED shown
    BY <2>9
  <2>10. \/ UNCHANGED shown
         \/ Snapshot \/ WaitStart \/ WaitReport \/ CallReturns
         \/ \E h \in Gens : Commit(h) \/ IdleFlush(h)
    <3>1. CASE Owner
      BY <3>1 DEF Owner, Register, cancel, WaitInterrupted, StartRun, Boundary,
                  LeaveBoundary, Abort, Transition
    <3>2. CASE Deliveries
      BY <3>2 DEF Deliveries, Deliver, Formatted, Build, Discard
    <3> QED
      BY <1>1, <3>1, <3>2 DEF Next, vars, TimerFires, Settle, Register, CallAborted,
                              CallBackgrounds, publishCompleted
  <2> QED
    BY <2>5, <2>6, <2>7, <2>8, <2>9, <2>10
<1>2. JobsInv /\ [Next]_vars => [\A g \in Gens : jobs[g].cut => shown'[g] = shown[g]]_vars
  BY <1>1
<1> QED
  BY <1>2, JobsAlways, PTL DEF Spec, OldResultsStayOut
-----------------------------------------------------------------------------
(* What is still on its way to the model has not been shown.                 *)
LEMMA NotSeenYet ==
  ASSUME JobsInv, OnceEach, NEW g \in Gens, Clean(g),
         \/ m.dlv[g] \in {"queued", "retry", "built"}
         \/ m.dlv[g] # "none" /\ ~isStale(m, g)
         \/ call = g
         \/ m.row = g /\ Status(g) = "done" /\ ~m.consumed /\ ~jobs[g].fg
  PROVE  ~Seen(g)
<1> SUFFICES ASSUME Seen(g) PROVE FALSE
  OBVIOUS
<1>1. Silenced(g)
  BY DEF OnceEach
<1>2. m.stamp[g] \in Nat /\ epoch \in Nat
  BY Bounds, TypesAgree DEF JobsInv, Types, FieldsType
<1>3. isStale(m, g) <=> m.stamp[g] # epoch \/ m.suppressed \/ m.watched
  BY DEF isStale, isDeliverySuppressed
<1>4. jobs[g].fg => m.dlv[g] = "none"
  BY DEF JobsInv, MadeInOrder
<1>5. call = g => m.row = g /\ jobs[g].fg /\ ~m.released
  BY Bounds DEF JobsInv, Tools
<1> QED
  BY <1>1, <1>2, <1>3, <1>4, <1>5 DEF Silenced, Gone, Behind

LEMMA HeardInit == Init => Heard
BY Bounds DEF Init, Heard, Alone, Spoken, OnceEach, NotLost, HasRow, Seen

(* A job that takes the id: nothing was shown of it, and if it is clean no   *)
(* other job has a delivery.                                                 *)
LEMMA ClaimHeard ==
  ASSUME JobsInv, Heard, NEW n \in Gens, NEW new \in JobType,
         ~HasRow(m), ~Seen(n), shown' = shown, epoch' = epoch, call' \in {call, n},
         jobs' = [jobs EXCEPT ![n] = new],
         ~new.over => Queued(m) \cup InFlight(m) = {},
         m'.row = n, ~m'.consumed, m'.stamp = m.stamp,
         \A h \in Gens : h # n => m'.dlv[h] = m.dlv[h],
         \/ new.status = "running"
         \/ new.status = "done" /\ ~m'.suppressed /\ m'.dlv[n] = "queued"
  PROVE  Heard'
<1> USE Bounds, TypesAgree DEF Heard
<1>1. /\ jobs \in [Gens -> JobType] /\ m \in FieldsType
      /\ jobs'[n] = new /\ \A h \in Gens : h # n => jobs'[h] = jobs[h]
  BY DEF JobsInv, Types
<1>2. ~new.over => \A h \in Gens : m.dlv[h] = "none"
  BY <1>1 DEF Queued, InFlight, FieldsType, Pcs
<1>3. Alone' /\ Spoken' /\ NotLost'
  BY <1>1, <1>2 DEF Alone, Spoken, NotLost, HasRow, Status, Clean
<1>4. OnceEach'
  <2> SUFFICES ASSUME NEW g \in Gens, Clean(g)', Seen(g)'
               PROVE  Len(shown'[g]) = 1 /\ Silenced(g)'
    BY DEF OnceEach
  <2>1. g # n /\ Clean(g) /\ Seen(g)
    BY <1>1 DEF Clean, Seen
  <2>2. Len(shown[g]) = 1 /\ Gone(g)
    BY <2>1 DEF OnceEach, Silenced, HasRow
  <2> QED
    BY <1>1, <2>1, <2>2 DEF Silenced, Gone
<1> QED
  BY <1>3, <1>4

LEMMA RegisterHeard ==
  ASSUME JobsInv, Heard, NEW fg \in BOOLEAN, Register(fg) PROVE Heard'
<1> USE Bounds, TypesAgree
<1> DEFINE n == NextGen
           new == NewJob("running", fg)
<1>1. /\ new \in JobType /\ new.status = "running"
      /\ ~new.over => Queued(m) \cup InFlight(m) = {}
  BY DEF JobsInv, Types, NewJob, JobType
<1>2. /\ n \in Gens /\ ~HasRow(m)
      /\ jobs' = [jobs EXCEPT ![n] = new]
      /\ m' = claimJobId(m, n, fg)
      /\ call' \in {call, n}
      /\ UNCHANGED <<epoch, turn, wait, reap, shown>>
  BY DEF Register
<1>3. ~Seen(n)
  BY <1>2, NextIsNew
<1> HIDE DEF n, new
<1>4. /\ m'.row = n /\ ~m'.consumed /\ m'.stamp = m.stamp /\ m'.dlv = m.dlv
  BY <1>2, ClaimFacts DEF JobsInv, Types
<1> QED
  BY <1>1, <1>2, <1>3, <1>4, ClaimHeard

LEMMA PublishHeard == ASSUME JobsInv, Heard, publishCompleted PROVE Heard'
<1> USE Bounds, TypesAgree
<1> DEFINE n == NextGen
           new == NewJob("done", FALSE)
           c == claimJobId(m, n, FALSE)
           e == enqueueDelivery(c, n)
<1>1. /\ new \in JobType /\ new.status = "done"
      /\ ~new.over => Queued(m) \cup InFlight(m) = {}
  BY DEF JobsInv, Types, NewJob, JobType
<1>2. /\ n \in Gens /\ ~HasRow(m)
      /\ jobs' = [jobs EXCEPT ![n] = new]
      /\ m' = scheduleEviction(e)
      /\ UNCHANGED <<epoch, turn, wait, call, reap, shown>>
  BY DEF publishCompleted
<1>3. ~Seen(n) /\ m.dlv[n] = "none" /\ ~m.watched
  BY <1>2, NextIsNew DEF JobsInv, Marked
<1> HIDE DEF n, new
<1>4. /\ c \in FieldsType /\ c.row = n /\ ~c.suppressed /\ c.watched = m.watched
      /\ ~c.consumed /\ ~c.released /\ c.stamp = m.stamp /\ c.dlv = m.dlv
  BY <1>2 DEF claimJobId, JobsInv, Types, FieldsType
<1> HIDE DEF c
<1>5. /\ e \in FieldsType /\ e.row = n /\ ~e.suppressed
      /\ ~e.consumed /\ e.stamp = m.stamp /\ e.dlv[n] = "queued"
      /\ \A h \in Gens : h # n => e.dlv[h] = m.dlv[h]
  <2>1. c.dlv[n] = "none" /\ ~c.watched /\ c.row # 0
    BY <1>2, <1>3, <1>4
  <2> QED
    BY ONLY <1>2, <1>4, <2>1, EnqueueFacts DEF HasRow
<1> HIDE DEF e
<1>6. /\ m'.row = n /\ ~m'.suppressed
      /\ ~m'.consumed /\ m'.stamp = m.stamp /\ m'.dlv[n] = "queued"
      /\ \A h \in Gens : h # n => m'.dlv[h] = m.dlv[h]
  BY <1>2, <1>5, ArmFacts
<1>7. shown' = shown /\ epoch' = epoch /\ call' \in {call, n}
  BY <1>2
<1> QED
  BY <1>1, <1>2, <1>3, <1>6, <1>7, ClaimHeard
(* The result of a run is queued, watched or raced, or thrown away with a    *)
(* row that was given back.                                                  *)
LEMMA SettleHeard ==
  ASSUME JobsInv, Heard, NEW g \in Gens, Settle(g) PROVE Heard'
<1> USE Bounds, TypesAgree DEF JobsInv, Heard
<1>1. SettlesTo(g)
  BY SettleFacts
<1>2. \A h \in Gens : jobs'[h].over = jobs[h].over /\ jobs'[h].fg = jobs[h].fg
  BY <1>1 DEF SettlesTo
<1>3. \A h \in Gens : h # g /\ Silenced(h) => Gone(h)
  BY <1>1 DEF SettlesTo, Silenced
<1>4. CASE m.released
  <2>1. m'.row = 0 /\ call = 0 /\ m.suppressed
    BY <1>1, <1>4 DEF SettlesTo, Tools
  <2>2. Alone' /\ Spoken' /\ NotLost'
    BY <2>1 DEF Alone, Spoken, NotLost, HasRow
  <2>3. \A h \in Gens : Silenced(h) => Gone(h)'
    BY <1>1, <1>3, <2>1 DEF SettlesTo, Gone
  <2>4. OnceEach'
    BY <1>1, <1>2, <2>3 DEF SettlesTo, OnceEach, Clean, Seen, Silenced
  <2> QED
    BY <2>2, <2>4
<1>5. CASE ~m.released
  <2>1. m'.row = g /\ ~m'.consumed /\ m'.suppressed = m.suppressed /\ m'.watched = m.watched
    BY <1>1, <1>5 DEF SettlesTo
  <2>2. ~Silenced(g) /\ \A h \in Gens : h # g /\ Silenced(h) => Gone(h)'
    BY <1>1, <1>3, <1>5, <2>1 DEF SettlesTo, Gone, Silenced
  <2>3. OnceEach'
    BY <1>1, <1>2, <2>2 DEF SettlesTo, OnceEach, Clean, Seen, Silenced
  <2>4. Alone'
    BY <1>1, <1>2, <2>1 DEF SettlesTo, Alone, Clean
  <2>5. m.suppressed => Status(g) # "running" \/ jobs[g].fg
    BY <1>1 DEF SettlesTo, Marked
  <2>6. Spoken' /\ NotLost'
    BY <1>1, <1>2, <2>1, <2>5 DEF SettlesTo, Spoken, NotLost, Tools, HasRow, Status
  <2> QED
    BY <2>3, <2>4, <2>6
<1> QED
  BY <1>4, <1>5
(* What Heard says of a clean job in the row, and a job a step leaves alone. *)
Accounted(r) ==
    /\ Seen(r) => Len(shown[r]) = 1 /\ Silenced(r)
    /\ jobs[r].fg => ~m.consumed
    /\ Status(r) = "done" /\ ~jobs[r].fg /\ (m.suppressed \/ m.consumed) => Seen(r)
    /\ Status(r) = "done" /\ ~Seen(r) =>
          m.dlv[r] # "none" \/ (m.watched /\ wait = r) \/ jobs[r].fg

Quiet(h) == shown'[h] = shown[h] /\ m'.dlv[h] \in {m.dlv[h], "none"} /\ m'.stamp[h] = m.stamp[h]

LEMMA RowAccounted ==
  ASSUME Heard, NEW r \in Gens, m.row = r, Clean(r) PROVE Accounted(r)
BY Bounds DEF Heard, Spoken, OnceEach, NotLost, Accounted, HasRow, Seen

(* The steps that do not give the id to a new job: the row stays or goes.    *)
LEMMA StillHeard ==
  ASSUME JobsInv, Heard, NEW r, NEW s \in {r, 0}, m.row = r, m'.row = s,
         \A h \in Gens : jobs'[h].over = jobs[h].over,
         epoch' = epoch \/ epoch' = epoch + 1, call' \in {call, 0},
         \A h \in Gens \ {s} :
            \/ h # r /\ Quiet(h)
            \/ Clean(h) /\ Seen(h)' => Len(shown'[h]) = 1 /\ Gone(h)',
         s \in Gens /\ Clean(s) => Accounted(s)' /\ \A h \in Gens \ {s} : Quiet(h)
  PROVE  Heard'
<1> USE Bounds DEF Heard
<1>1. s # 0 => s = r /\ s \in Gens
  BY TypesAgree DEF JobsInv, Types, FieldsType
<1>2. Alone' /\ Spoken' /\ NotLost'
  BY <1>1 DEF Alone, Spoken, NotLost, HasRow, Clean, Accounted, Quiet, Seen, Status
<1>3. ASSUME NEW h \in Gens, Clean(h)', Seen(h)' PROVE Len(shown'[h]) = 1 /\ Silenced(h)'
  <2>1. Clean(h)
    BY <1>3 DEF Clean
  <2>2. CASE h = s
    BY <1>3, <2>1, <2>2 DEF Accounted
  <2>3. CASE h # s /\ h # r /\ Quiet(h)
    <3>1. Len(shown[h]) = 1 /\ Gone(h)
      BY <1>3, <2>1, <2>3 DEF OnceEach, Silenced, Quiet, Seen
    <3>2. m.stamp[h] \in Nat /\ epoch \in Nat
      BY TypesAgree DEF JobsInv, Types, FieldsType
    <3>3. Gone(h)'
      BY <1>1, <2>3, <3>1, <3>2 DEF Gone, Quiet
    <3> QED
      BY <2>3, <3>1, <3>3 DEF Silenced, Quiet
  <2> QED
    BY <1>3, <2>1, <2>2, <2>3 DEF Silenced
<1> QED
  BY <1>2, <1>3 DEF OnceEach

(* A cancelled job has nothing to tell.                                      *)
LEMMA CancelHeard == ASSUME JobsInv, Heard, cancel PROVE Heard'
<1> USE Bounds, TypesAgree
<1> DEFINE r == m.row
<1>1. /\ r \in Gens /\ HasRow(m) /\ Status(r) = "running" /\ m \in FieldsType
      /\ jobs' = [jobs EXCEPT ![r].status = "cancelled"]
      /\ m' = m \/ m' = consumeJobResults(m, jobs')
      /\ UNCHANGED <<epoch, turn, wait, call, reap, shown>>
  BY RowIn DEF cancel, SetStatus, JobsInv, Types
<1>2. /\ jobs'[r].status = "cancelled" /\ ~jobs'[r].settled
      /\ \A h \in Gens : jobs'[h].over = jobs[h].over /\ jobs'[h].fg = jobs[h].fg
  BY <1>1 DEF JobsInv, Types, JobType, MadeInOrder, Status
<1>3. /\ m'.row = r /\ m'.consumed = m.consumed
      /\ m'.released = m.released /\ m'.stamp = m.stamp
      /\ \A g \in Gens : m'.dlv[g] \in {m.dlv[g], "none"}
  <2>1. CASE m' = m
    BY <2>1
  <2>2. CASE m' = consumeJobResults(m, jobs')
    <3>1. m \in FieldsType
      BY <1>1
    <3>2. /\ m'.row = m.row
          /\ m'.released = m.released /\ m'.stamp = m.stamp
          /\ \A g \in Gens : m'.dlv[g] =
                IF m.dlv[g] \in {"queued", "retry"} THEN "none" ELSE m.dlv[g]
          /\ \/ m'.consumed = m.consumed
             \/ m'.consumed /\ m'.timer \in {m.timer, "armed"} /\ jobs'[m.row].settled
      BY ONLY <2>2, <3>1, ReportedFacts
    <3> QED
      BY <1>2, <3>2
  <2> QED
    BY <1>1, <2>1, <2>2
<1> HIDE DEF r
<1>4. \A h \in Gens : Quiet(h)
  BY <1>1, <1>3 DEF Quiet
<1>5. Clean(r) => Accounted(r)'
  BY <1>1, <1>2, <1>3, RowAccounted DEF Accounted, Silenced, Gone, Status, Seen, r
<1> QED
  BY <1>1, <1>2, <1>3, <1>4, <1>5, StillHeard DEF r
(* A report shows what nobody consumed, and consumes it; what the boundary   *)
(* already built cannot be there while a tool runs.                          *)
LEMMA ReadHeard ==
  ASSUME JobsInv, Heard, NEW r \in Gens, m.row = r, turn = "work",
         Status(r) # "running", ~jobs[r].fg,
         Report(r), NEW c, c = consumeJobResults(m, jobs),
         m'.row = c.row, m'.suppressed = c.suppressed, m'.consumed = c.consumed,
         m'.released = c.released, m'.dlv = c.dlv, m'.stamp = c.stamp,
         UNCHANGED <<jobs, epoch, call>>
  PROVE  Heard'
<1> USE Bounds, TypesAgree
<1>1. m \in FieldsType /\ HasRow(m)
  BY DEF JobsInv, Types, HasRow
<1>2. /\ m'.row = m.row /\ m'.suppressed
      /\ m'.released = m.released /\ m'.stamp = m.stamp
      /\ \A g \in Gens : m'.dlv[g] =
            IF m.dlv[g] \in {"queued", "retry"} THEN "none" ELSE m.dlv[g]
      /\ \/ m'.consumed = m.consumed
            /\ (~HasRow(m) \/ m.consumed \/ jobs[m.row].status = "running"
                \/ ~jobs[m.row].settled)
         \/ m'.consumed
  BY <1>1, ReportedFacts
<1>3. Status(r) = "done" => m'.consumed
  BY <1>1, <1>2 DEF JobsInv, MadeInOrder, Status
<1>4. m.dlv[r] # "built" /\ m.dlv[r] \in Pcs
  BY <1>1 DEF JobsInv, Places, FieldsType
<1>5. /\ \A h \in Gens : h # r => shown'[h] = shown[h]
      /\ Seen(r) => Seen(r)'
      /\ Status(r) = "done" /\ ~m.consumed => Seen(r)' /\ (~Seen(r) => Len(shown'[r]) = 1)
      /\ Status(r) # "done" \/ m.consumed => shown' = shown
  BY ReportFacts
<1>6. \A h \in Gens : h # r => Quiet(h)
  BY <1>2, <1>5 DEF Quiet
<1>7. ASSUME Clean(r) PROVE Accounted(r)'
  <2>1. Accounted(r)
    BY <1>7, RowAccounted
  <2>2. Seen(r) => Status(r) = "done" /\ m.consumed
    BY <2>1 DEF Accounted, Silenced, Gone
  <2>3. /\ Status(r)' = Status(r) /\ jobs'[r].fg = jobs[r].fg
        /\ m'.row = r /\ m'.suppressed
        /\ m'.dlv[r] # "none" => m'.dlv[r] # "built" /\ m'.dlv[r] \in Behind
    BY <1>2, <1>4 DEF Status, Pcs, Behind
  <2>4. Seen(r)' <=> Status(r) = "done"
    BY <1>5, <2>1, <2>2 DEF Accounted, Seen
  <2>5. Seen(r)' => Len(shown'[r]) = 1
    BY <1>5, <2>1, <2>2, <2>4 DEF Accounted
  <2> QED
    BY <1>3, <2>3, <2>4, <2>5 DEF Accounted, Silenced
<1> QED
  BY <1>2, <1>6, <1>7, StillHeard

LEMMA SnapshotHeard == ASSUME JobsInv, Heard, Snapshot PROVE Heard'
BY RowIn, ReadHeard DEF Snapshot

(* A wait reports at once, or watches a job that runs.                       *)
LEMMA WaitStartHeard == ASSUME JobsInv, Heard, WaitStart PROVE Heard'
<1> DEFINE r == m.row
<1>1. /\ turn = "work" /\ HasRow(m) /\ ~jobs[r].fg /\ r \in Gens
      /\ UNCHANGED <<jobs, epoch, call>>
  BY RowIn DEF WaitStart
<1>2. CASE /\ Status(r) = "done" /\ Report(r) /\ m' = consumeJobResults(m, jobs)
           /\ UNCHANGED wait
  BY <1>1, <1>2, ReadHeard
<1>3. CASE /\ Status(r) = "running" /\ m' = watchJobs(m) /\ UNCHANGED shown
  <2>1. /\ m'.row = r /\ m'.suppressed = m.suppressed /\ m'.consumed = m.consumed
        /\ m'.released = m.released /\ m'.dlv = m.dlv /\ m'.stamp = m.stamp
    BY <1>3, TypesAgree DEF watchJobs, JobsInv, Types, FieldsType
  <2> HIDE DEF r
  <2>2. \A h \in Gens : Quiet(h)
    BY <1>3, <2>1 DEF Quiet
  <2>3. Clean(r) => Accounted(r)'
    BY <1>1, <1>3, <2>1, RowAccounted DEF Accounted, Silenced, Gone, Status, Seen, r
  <2> QED
    BY <1>1, <2>1, <2>2, <2>3, Bounds, StillHeard DEF r
<1> QED
  BY <1>2, <1>3 DEF WaitStart
(* A wait that ends: what settled while the job was watched is enqueued, and *)
(* while a clean job has the row no other delivery keeps it from that.       *)
LEMMA UnwatchHeard ==
  ASSUME JobsInv, Heard, NEW r \in Gens, wait = r,
         m' = unwatchJobs(m, jobs), UNCHANGED <<jobs, epoch, call, shown>>
  PROVE  Heard'
<1> USE Bounds, TypesAgree
<1>1. m \in FieldsType /\ HasRow(m) /\ m.row = r /\ ~jobs[r].fg
      /\ (m.watched => m.dlv[r] = "none")
  BY DEF JobsInv, Types, Tools, HasRow
<1>2. /\ m'.row = m.row /\ m'.suppressed = m.suppressed
      /\ m'.consumed = m.consumed /\ m'.released = m.released /\ m'.stamp = m.stamp
      /\ \A h \in Gens : h # m.row => m'.dlv[h] = m.dlv[h]
      /\ m'.dlv[m.row] = IF Missed(m, jobs) THEN "queued" ELSE m.dlv[m.row]
  BY <1>1, UnwatchFacts
<1>3. \A h \in Gens : h # r => Quiet(h)
  BY <1>1, <1>2 DEF Quiet
<1>4. ASSUME Clean(r) PROVE Accounted(r)'
  <2>1. Accounted(r)
    BY <1>1, <1>4, RowAccounted
  <2>2. m.watched /\ Status(r) = "done" /\ ~m.suppressed /\ ~m.consumed => Missed(m, jobs)
    BY <1>1, <1>4 DEF Heard, Alone, Missed, Status
  <2>3. m.consumed => m'.dlv[r] = m.dlv[r]
    BY <1>1, <1>2 DEF Missed
  <2>4. Seen(r)' => Len(shown'[r]) = 1 /\ Silenced(r)'
    BY <1>1, <1>2, <2>1, <2>3 DEF Accounted, Silenced, Gone, Seen, Status
  <2>5. Status(r) = "done" /\ ~Seen(r) => m'.dlv[r] # "none"
    BY <1>1, <1>2, <2>1, <2>2 DEF Accounted
  <2> QED
    BY <1>1, <1>2, <2>1, <2>4, <2>5 DEF Accounted, Seen, Status
<1> QED
  BY <1>1, <1>2, <1>3, <1>4, StillHeard

LEMMA WaitEndHeard ==
  ASSUME JobsInv, Heard, WaitReport \/ WaitInterrupted PROVE Heard'
<1> USE Bounds, TypesAgree
<1>1. /\ wait \in Gens /\ m.row = wait /\ HasRow(m) /\ turn = "work" /\ ~jobs[wait].fg
      /\ m \in FieldsType
      /\ UNCHANGED <<jobs, epoch, call>>
  BY DEF WaitReport, WaitInterrupted, JobsInv, Types, Tools, Tooling, HasRow
<1>2. CASE m' = unwatchJobs(m, jobs) /\ UNCHANGED shown
  BY <1>1, <1>2, UnwatchHeard
<1>3. CASE WaitReport
  <2>1. Report(wait)
        /\ m' = unwatchJobs(IF Status(wait) = "running" THEN m
                            ELSE consumeJobResults(m, jobs), jobs)
    BY <1>1, <1>3 DEF WaitReport
  <2>2. CASE Status(wait) = "running"
    BY <1>2, <2>1, <2>2 DEF Report
  <2>3. CASE Status(wait) # "running"
    <3> DEFINE c == consumeJobResults(m, jobs)
    <3>1. c \in FieldsType /\ c.suppressed /\ c.row = m.row /\ HasRow(c)
      BY <1>1, ReportedFacts DEF HasRow
    <3>2. m' = unwatchJobs(c, jobs) /\ c = consumeJobResults(m, jobs)
      BY <2>1, <2>3
    <3> HIDE DEF c
    <3>0. c \in FieldsType
      BY <3>1
    <3>u. PICK u : u = unwatchJobs(c, jobs)
      OBVIOUS
    <3>3. /\ u \in FieldsType
          /\ u.row = c.row /\ u.suppressed = c.suppressed /\ ~u.watched
          /\ u.consumed = c.consumed /\ u.released = c.released
          /\ u.timer = c.timer /\ u.timerOn = c.timerOn /\ u.stamp = c.stamp
          /\ \A h \in Gens : h # c.row => u.dlv[h] = c.dlv[h]
          /\ HasRow(c) =>
                u.dlv[c.row] = IF Missed(c, jobs) THEN "queued" ELSE c.dlv[c.row]
      BY ONLY <3>0, <3>u, UnwatchFacts
    <3>4. m' = u
      BY <3>u, <3>2
    <3>5. \A h \in Gens : u.dlv[h] = c.dlv[h]
      BY <3>1, <3>3 DEF Missed
    <3>6. u.dlv \in [Gens -> Pcs] /\ c.dlv \in [Gens -> Pcs]
      BY ONLY <3>1, <3>3 DEF FieldsType
    <3>7. u.dlv = c.dlv
      BY ONLY <3>5, <3>6
    <3> QED
      BY <1>1, <2>1, <2>3, <3>2, <3>3, <3>4, <3>7, ReadHeard
  <2> QED
    BY <2>2, <2>3
<1> QED
  BY <1>2, <1>3 DEF WaitInterrupted
(* A foreground call that ends shows the result or drops it, and its job     *)
(* brings it no more.                                                        *)
LEMMA CallEndHeard ==
  ASSUME JobsInv, Heard, NEW r \in Gens, call = r, call' = 0, epoch' = epoch,
         m' = releaseForegroundJob(m, jobs'),
         \A g \in Gens : jobs'[g].over = jobs[g].over,
         jobs'[r].fg = jobs[r].fg, jobs'[r].settled = jobs[r].settled,
         \A g \in Gens : g # r => shown'[g] = shown[g],
         ~Seen(r) /\ Seen(r)' => Len(shown'[r]) = 1
  PROVE  Heard'
<1> USE Bounds, TypesAgree
<1>1. /\ m.row = r /\ HasRow(m) /\ jobs[r].fg /\ m \in FieldsType /\ ~m.released
      /\ m.dlv[r] = "none"
  BY DEF JobsInv, Tools, HasRow, Types, MadeInOrder
<1>2. Clean(r) => ~Seen(r) /\ ~m.consumed
  BY <1>1, RowAccounted DEF Accounted, Silenced, Gone
<1>3. /\ m'.dlv = m.dlv /\ m'.stamp = m.stamp
      /\ m'.row = 0 \/ (m'.row = r /\ m'.released /\ m'.consumed = m.consumed)
  <2>1. HasRow(m) /\ jobs'[m.row].fg /\ jobs'[m.row].settled = jobs[r].settled
    BY <1>1
  <2> QED
    BY <1>1, <2>1, ReleaseFacts
<1>4. \A h \in Gens : h # r => Quiet(h)
  BY <1>3 DEF Quiet
<1>5. CASE m'.row = 0
  <2>1. Clean(r) /\ Seen(r)' => Len(shown'[r]) = 1 /\ Gone(r)'
    BY <1>1, <1>2, <1>3, <1>5 DEF Gone
  <2> QED
    BY <1>1, <1>4, <1>5, <2>1, StillHeard
<1>6. CASE m'.row = r /\ m'.released /\ m'.consumed = m.consumed
  <2>1. Clean(r) => Accounted(r)'
    BY <1>1, <1>2, <1>6 DEF Accounted, Silenced
  <2> QED
    BY <1>1, <1>4, <1>6, <2>1, StillHeard
<1> QED
  BY <1>3, <1>5, <1>6

LEMMA CallReturnsHeard == ASSUME JobsInv, Heard, CallReturns PROVE Heard'
<1>1. Types /\ call \in Gens
  BY Bounds, TypesAgree DEF JobsInv, CallReturns, Types
<1>2. /\ call' = 0 /\ m' = releaseForegroundJob(m, jobs')
      /\ UNCHANGED <<jobs, epoch>> /\ shown' = Show(call)
  BY DEF CallReturns
<1>3. /\ \A g \in Gens : g # call => shown'[g] = shown[g]
      /\ ~Seen(call) => Len(shown'[call]) = 1
  BY <1>1, <1>2, ShowFacts DEF Types, Seen
<1> QED
  BY <1>1, <1>2, <1>3, CallEndHeard

LEMMA CallAbortedHeard == ASSUME JobsInv, Heard, CallAborted PROVE Heard'
<1>1. Types /\ call \in Gens
  BY Bounds, TypesAgree DEF JobsInv, CallAborted, Types
<1>2. /\ call' = 0 /\ m' = releaseForegroundJob(m, jobs') /\ UNCHANGED <<epoch, shown>>
      /\ jobs' = jobs \/ jobs' = [jobs EXCEPT ![m.row].status = "cancelled"]
  BY DEF CallAborted, SetStatus
<1>3. \A g \in Gens : /\ jobs'[g].over = jobs[g].over /\ jobs'[g].fg = jobs[g].fg
                      /\ jobs'[g].settled = jobs[g].settled
  BY <1>1, <1>2 DEF Types, JobType
<1> QED
  BY <1>1, <1>2, <1>3, CallEndHeard DEF Seen

LEMMA CallBackgroundsHeard == ASSUME JobsInv, Heard, CallBackgrounds PROVE Heard'
<1>1. BackgroundsTo
  BY BackgroundFacts
<1> PICK r \in Gens : r = call
  BY <1>1 DEF BackgroundsTo
<1>2. Clean(r) => ~Seen(r) /\ ~m.consumed
  BY <1>1, RowAccounted DEF BackgroundsTo, Accounted, Silenced, Gone
<1>3. \A h \in Gens : /\ jobs'[h].over = jobs[h].over
                      /\ h # r => Quiet(h)
  BY <1>1 DEF BackgroundsTo, Quiet
<1>4. /\ r \in Gens /\ m.row = r /\ m'.row = r /\ call' = 0 /\ epoch' = epoch
      /\ ~m'.suppressed /\ m'.consumed = m.consumed /\ ~jobs'[r].fg /\ shown' = shown
      /\ jobs'[r].status = "done" => m'.dlv[r] = "queued"
  BY <1>1 DEF BackgroundsTo, Status
<1>5. Clean(r) => Accounted(r)'
  BY <1>2, <1>4 DEF Accounted, Seen, Status
<1> QED
  BY <1>3, <1>4, <1>5, StillHeard
-----------------------------------------------------------------------------
(* A delivery that moves on.  It stays somewhere as long as the result of    *)
(* the job in the row was not shown.                                         *)
LEMMA MoveHeard ==
  ASSUME JobsInv, Heard, NEW g \in Gens, m.dlv[g] # "none",
         m'.row = m.row, m'.suppressed = m.suppressed, m'.consumed = m.consumed,
         m'.released = m.released,
         \A h \in Gens : h # g => m'.dlv[h] = m.dlv[h] /\ m'.stamp[h] = m.stamp[h],
         UNCHANGED <<jobs, epoch, call, shown>>,
         Clean(g) /\ Seen(g) => Silenced(g)',
         Clean(g) /\ ~Seen(g) /\ m.row = g => m'.dlv[g] # "none"
  PROVE  Heard'
<1> USE Bounds
<1> PICK r : r = m.row
  OBVIOUS
<1>1. \A h \in Gens : h # g => Quiet(h)
  BY DEF Quiet
<1>2. Clean(g) /\ Seen(g)' => Len(shown'[g]) = 1 /\ Silenced(g)'
  BY DEF Heard, OnceEach, Seen
<1>3. g # r /\ Clean(g) /\ Seen(g)' => Gone(g)'
  BY <1>2 DEF Silenced
<1>4. ASSUME r \in Gens, Clean(r) PROVE r = g /\ Accounted(r)'
  <2>1. r = g
    BY <1>4 DEF Heard, Alone, HasRow
  <2>2. Accounted(g)
    BY <1>4, <2>1, RowAccounted
  <2> QED
    BY <1>2, <1>4, <2>1, <2>2 DEF Accounted, Seen, Status
<1> QED
  BY <1>1, <1>2, <1>3, <1>4, StillHeard

(* What a delivery in the row says of the row.                               *)
LEMMA InRow ==
  ASSUME JobsInv, Heard, NEW g \in Gens, m.dlv[g] # "none"
  PROVE  /\ Status(g) = "done" /\ jobs[g].settled /\ ~jobs[g].fg
         /\ m.row = g => ~m.watched /\ (Clean(g) /\ m.suppressed => Seen(g))
         /\ HasRow(m) /\ Clean(m.row) => m.row = g
         /\ call # g
<1>1. Status(g) = "done" /\ jobs[g].settled /\ ~jobs[g].fg
  BY DEF JobsInv, MadeInOrder
<1> QED
  BY <1>1, Bounds, RowIn DEF JobsInv, Tools, Heard, Alone, Spoken, HasRow

LEMMA DeliverHeard ==
  ASSUME JobsInv, Heard, NEW g \in Gens, Deliver(g) PROVE Heard'
<1>1. m.dlv[g] \in {"queued", "retry"} /\ m \in FieldsType /\ epoch \in Epochs
  BY TypesAgree DEF Deliver, Queued, JobsInv, Types
<1>2. Clean(g) => ~Seen(g)
  BY <1>1, NotSeenYet DEF Heard
<1>3. /\ m'.row = m.row /\ m'.suppressed = m.suppressed /\ m'.consumed = m.consumed
      /\ m'.released = m.released
      /\ \A h \in Gens : h # g => m'.dlv[h] = m.dlv[h] /\ m'.stamp[h] = m.stamp[h]
      /\ ~isDeliverySuppressed(m) => m'.dlv[g] = "format"
  <2>1. CASE m' = [m EXCEPT !.dlv[g] = "none"] /\ isDeliverySuppressed(m)
    BY <1>1, <2>1 DEF FieldsType, Pcs
  <2>2. CASE m' = [m EXCEPT !.dlv[g] = "format", !.stamp[g] = epoch]
    BY <1>1, <2>2 DEF FieldsType, Pcs
  <2> QED
    BY <2>1, <2>2 DEF Deliver
<1>4. Clean(g) /\ m.row = g => ~isDeliverySuppressed(m)
  BY <1>1, <1>2, InRow DEF isDeliverySuppressed
<1>5. UNCHANGED <<jobs, epoch, call, shown>>
  BY DEF Deliver
<1> QED
  BY <1>1, <1>2, <1>3, <1>4, <1>5, MoveHeard

(* An attempt that passes one more place is of a job nobody has shown.       *)
LEMMA PassHeard ==
  ASSUME JobsInv, Heard, NEW g \in Gens, NEW to \in Behind, m.dlv[g] # "none",
         ~isStale(m, g), m' = [m EXCEPT !.dlv[g] = to],
         UNCHANGED <<jobs, epoch, call, shown>>
  PROVE  Heard'
<1>1. m \in FieldsType
  BY TypesAgree DEF JobsInv, Types
<1>2. Clean(g) => ~Seen(g)
  BY NotSeenYet DEF Heard
<1>3. /\ m'.row = m.row /\ m'.suppressed = m.suppressed /\ m'.consumed = m.consumed
      /\ m'.released = m.released /\ m'.dlv[g] # "none"
      /\ \A h \in Gens : h # g => m'.dlv[h] = m.dlv[h] /\ m'.stamp[h] = m.stamp[h]
  BY <1>1 DEF FieldsType, Pcs, Behind
<1> QED
  BY <1>2, <1>3, MoveHeard
(* Before an attempt's end takes the row of a clean job away, the attempt is *)
(* its own: nobody else's was in flight.                                     *)
LEMMA AttemptEnds ==
  ASSUME JobsInv, Heard, NEW g \in Gens, m.dlv[g] # "none",
         NEW s, m'.row = s, s = m.row \/ (s = 0 /\ m.timer = "waiting"),
         \A h \in Gens : h # g => m'.dlv[h] = m.dlv[h] /\ shown'[h] = shown[h],
         m'.stamp = m.stamp, UNCHANGED <<jobs, epoch, call>>,
         Clean(g) /\ Seen(g)' => Len(shown'[g]) = 1,
         Clean(g) /\ Seen(g)' /\ m'.row # g => Gone(g)',
         Clean(g) /\ s = g => Accounted(g)'
  PROVE  Heard'
<1> USE Bounds
<1> PICK r : r = m.row
  OBVIOUS
<1>1. \A h \in Gens : h # g => Quiet(h)
  BY DEF Quiet
<1>2. r \in Gens /\ Clean(r) => r = g
  BY InRow DEF HasRow
<1>3. s \in {r, 0}
  OBVIOUS
<1>4. \A h \in Gens \ {s} : \/ h # r /\ Quiet(h)
                            \/ Clean(h) /\ Seen(h)' => Len(shown'[h]) = 1 /\ Gone(h)'
  BY <1>1, <1>2
<1>5. s \in Gens /\ Clean(s) => Accounted(s)' /\ \A h \in Gens \ {s} : Quiet(h)
  BY <1>1, <1>2, <1>3
<1> QED
  BY <1>3, <1>4, <1>5, StillHeard

(* The end of an attempt that the sink accepted, or dropped as stale.        *)
LEMMA AcceptHeard ==
  ASSUME JobsInv, Heard, NEW g \in Gens, m.dlv[g] # "none",
         m' = Delivered(m, jobs, g),
         \A h \in Gens : h # g => shown'[h] = shown[h],
         Clean(g) /\ Seen(g)' => Len(shown'[g]) = 1,
         Clean(g) /\ m.row = g => Seen(g)',
         UNCHANGED <<jobs, epoch, call>>
  PROVE  Heard'
<1>1. m \in FieldsType /\ HasRow(m) => m.row \in Gens
  BY RowIn
<1>2. /\ m'.dlv[g] = "none" /\ \A h \in Gens : h # g => m'.dlv[h] = m.dlv[h]
      /\ m'.stamp = m.stamp
      /\ \/ /\ m'.row = m.row
            /\ HasRow(m) /\ jobs[m.row].status # "running" /\ jobs[m.row].settled
                  => m'.consumed
         \/ m.timer = "waiting" /\ m'.row = 0
  BY DeliveredFacts, TypesAgree DEF JobsInv, Types
<1>3. /\ Status(g) = "done" /\ jobs[g].settled /\ ~jobs[g].fg /\ call # g
  BY InRow
<1>4. m'.row # g => Gone(g)'
  BY <1>2, <1>3 DEF Gone
<1>5. Clean(g) /\ m'.row = g => Accounted(g)'
  BY <1>2, <1>3, Bounds DEF Accounted, Silenced, Status, HasRow
<1> QED
  BY <1>2, <1>4, <1>5, AttemptEnds

(* The end of an attempt that failed past its sink.                          *)
LEMMA FailHeard ==
  ASSUME JobsInv, Heard, NEW g \in Gens, m.dlv[g] \in Behind \ {"format"},
         m' = Failed(m, {g}), UNCHANGED <<jobs, epoch, wait, call, shown>>
  PROVE  Heard'
<1>1. /\ m'.dlv[g] = IF ~m.suppressed /\ ~m.watched /\ HasRow(m) THEN "retry" ELSE "none"
      /\ \A h \in Gens : h # g => m'.dlv[h] = m.dlv[h]
      /\ m'.stamp = m.stamp /\ m'.released = m.released
      /\ \/ /\ m'.row = m.row /\ m'.suppressed = m.suppressed /\ m'.watched = m.watched
            /\ m'.consumed = m.consumed
         \/ m.timer = "waiting" /\ m'.row = 0
  BY FailedFacts, TypesAgree DEF JobsInv, Types
<1>2. /\ m.dlv[g] # "none" /\ Status(g) = "done" /\ ~jobs[g].fg /\ call # g
      /\ m.row = g => ~m.watched /\ (Clean(g) /\ m.suppressed => Seen(g))
  BY InRow DEF Behind
<1>3. Clean(g) /\ Seen(g) => /\ Len(shown[g]) = 1 /\ m.row = g /\ m.consumed
                             /\ m'.dlv[g] = "none"
  BY <1>1, <1>2 DEF Heard, OnceEach, Silenced, Gone, Behind
<1>4. Clean(g) /\ Seen(g)' => Len(shown'[g]) = 1 /\ (m'.row # g => Gone(g)')
  BY <1>1, <1>2, <1>3 DEF Gone, Seen
<1>5. ASSUME Clean(g), m'.row = g PROVE Accounted(g)'
  <2>1. m.row = g /\ m'.consumed = m.consumed /\ m'.suppressed = m.suppressed
    BY <1>1, <1>5, Bounds
  <2>2. Accounted(g)
    BY <1>5, <2>1, RowAccounted
  <2>3. ~Seen(g) => m'.dlv[g] = "retry"
    BY <1>1, <1>2, <1>5, <2>1, Bounds DEF HasRow
  <2> QED
    BY <1>2, <1>3, <1>5, <2>1, <2>2, <2>3 DEF Accounted, Silenced, Seen, Status
<1> QED
  BY <1>1, <1>2, <1>4, <1>5, AttemptEnds
(* The end of an attempt that shows the result: nobody did before.           *)
LEMMA ShowHeard ==
  ASSUME JobsInv, Heard, NEW g \in Gens,
         m.dlv[g] = "built" \/ (m.dlv[g] # "none" /\ ~isStale(m, g)),
         m' = Delivered(m, jobs, g), shown' = Show(g),
         UNCHANGED <<jobs, epoch, call>>
  PROVE  Heard'
<1>1. m.dlv[g] # "none" /\ (Clean(g) => ~Seen(g))
  BY NotSeenYet DEF Heard
<1>2. /\ \A h \in Gens : h # g => shown'[h] = shown[h]
      /\ Seen(g)' /\ (~Seen(g) => Len(shown'[g]) = 1)
  BY ShowFacts, TypesAgree DEF JobsInv, Types, Seen
<1> QED
  BY <1>1, <1>2, AcceptHeard

(* What is stale at the sink, in the row, was reported there.                *)
LEMMA StaleHeard ==
  ASSUME JobsInv, Heard, NEW g \in Gens, Formatted(g), isStale(m, g) PROVE Heard'
<1>1. /\ m.dlv[g] = "format" /\ m' = Delivered(m, jobs, g)
      /\ UNCHANGED <<jobs, epoch, call, shown>>
  BY DEF Formatted
<1>2. m.row = g => ~m.watched /\ (Clean(g) /\ m.suppressed => Seen(g))
  BY <1>1, InRow
<1>3. m.row = g => m.stamp[g] = epoch
  BY <1>1, Bounds DEF JobsInv, Places, Behind, HasRow
<1>4. Clean(g) /\ m.row = g => Seen(g)
  BY <1>2, <1>3 DEF isStale, isDeliverySuppressed
<1>5. Clean(g) /\ Seen(g) => Len(shown[g]) = 1
  BY DEF Heard, OnceEach
<1> QED
  BY <1>1, <1>4, <1>5, AcceptHeard DEF Seen

LEMMA AttemptsHeard ==
  ASSUME JobsInv, Heard, NEW g \in Gens,
         Deliver(g) \/ Formatted(g) \/ Build(g) \/ Commit(g) \/ Discard(g) \/ IdleFlush(g)
  PROVE  Heard'
<1>1. ASSUME Formatted(g) PROVE Heard'
  <2>1. CASE isStale(m, g)
    BY <1>1, <2>1, StaleHeard
  <2>2. CASE ~isStale(m, g)
    BY <1>1, <2>2, PassHeard DEF Formatted, Behind
  <2> QED
    BY <2>1, <2>2
<1>2. ASSUME Build(g) PROVE Heard'
  <2>1. CASE isStale(m, g)
    BY <1>2, <2>1, FailHeard DEF Build, Behind
  <2>2. CASE ~isStale(m, g)
    BY <1>2, <2>2, PassHeard DEF Build, Behind
  <2> QED
    BY <2>1, <2>2
<1>3. ASSUME Commit(g) PROVE Heard'
  BY <1>3, ShowHeard DEF Commit
<1>4. ASSUME Discard(g) PROVE Heard'
  BY <1>4, FailHeard DEF Discard, Behind
<1>5. ASSUME IdleFlush(g) PROVE Heard'
  <2>1. m.dlv[g] = "parked" /\ UNCHANGED <<jobs, epoch, wait, call>>
    BY <1>5 DEF IdleFlush
  <2>2. CASE m' = Failed(m, {g}) /\ UNCHANGED <<turn, shown>>
    BY <2>1, <2>2, FailHeard DEF Behind
  <2>3. CASE ~isStale(m, g) /\ m' = [m EXCEPT !.dlv[g] = "built"] /\ UNCHANGED shown
    BY <2>1, <2>3, PassHeard DEF Behind
  <2>4. CASE ~isStale(m, g) /\ m' = Delivered(m, jobs, g) /\ shown' = Show(g)
    BY <2>1, <2>4, ShowHeard
  <2> QED
    BY <1>5, <2>2, <2>3, <2>4 DEF IdleFlush
<1> QED
  BY <1>1, <1>2, <1>3, <1>4, <1>5, DeliverHeard

(* The steps of the run between its tools: a boundary moves what is parked,  *)
(* and nothing that is parked was shown.                                     *)
LEMMA TurnsHeard ==
  ASSUME JobsInv, Heard, StartRun \/ Boundary \/ LeaveBoundary \/ Abort PROVE Heard'
<1> USE Bounds
<1> PICK r : r = m.row
  OBVIOUS
<1>1. m \in FieldsType /\ UNCHANGED <<jobs, epoch, wait, call, shown>>
  BY TypesAgree DEF JobsInv, Types, StartRun, Boundary, LeaveBoundary, Abort
<1>2. CASE UNCHANGED m
  <2>1. \A h \in Gens : Quiet(h)
    BY <1>1, <1>2 DEF Quiet
  <2>2. r \in Gens /\ Clean(r) => Accounted(r)'
    BY <1>1, <1>2, RowAccounted DEF Accounted, Silenced, Gone, Seen, Status
  <2> QED
    BY <1>1, <1>2, <2>1, <2>2, StillHeard
<1>3. CASE Boundary
  <2> DEFINE d == [h \in Gens |-> IF m.dlv[h] = "parked" THEN "drained" ELSE m.dlv[h]]
  <2>1. m' = [m EXCEPT !.dlv = d]
    BY <1>3 DEF Boundary
  <2>2. \A h \in Gens : d[h] = IF m.dlv[h] = "parked" THEN "drained" ELSE m.dlv[h]
    OBVIOUS
  <2> HIDE DEF d
  <2>3. /\ m'.row = m.row /\ m'.suppressed = m.suppressed /\ m'.watched = m.watched
        /\ m'.consumed = m.consumed /\ m'.released = m.released
        /\ m'.stamp = m.stamp /\ m'.dlv = d
    BY <1>1, <2>1 DEF FieldsType
  <2>4. ASSUME NEW h \in Gens, h # r
        PROVE  Clean(h) /\ Seen(h)' => Len(shown'[h]) = 1 /\ Gone(h)'
    <3>1. Clean(h) /\ Seen(h) => Len(shown[h]) = 1 /\ Gone(h)
      BY <2>4 DEF Heard, OnceEach, Silenced
    <3> QED
      BY <1>1, <2>2, <2>3, <3>1 DEF Gone, Seen
  <2>5. ASSUME r \in Gens, Clean(r) PROVE Accounted(r)' /\ \A h \in Gens \ {r} : Quiet(h)
    <3>1. Accounted(r)
      BY <2>5, RowAccounted
    <3>2. Accounted(r)'
      BY <1>1, <2>2, <2>3, <2>5, <3>1 DEF Accounted, Silenced, Gone, Seen, Status, Behind
    <3>3. \A h \in Gens \ {r} : m.dlv[h] = "none"
      BY <2>5 DEF Heard, Alone, HasRow
    <3> QED
      BY <1>1, <2>2, <2>3, <3>2, <3>3 DEF Quiet
  <2> QED
    BY <1>1, <2>3, <2>4, <2>5, StillHeard
<1> QED
  BY <1>2, <1>3 DEF StartRun, LeaveBoundary, Abort
(* The retention takes the row of a result that was shown only when nothing  *)
(* of its delivery is left; otherwise it waits for the attempt.              *)
LEMMA TimerHeard == ASSUME JobsInv, Heard, TimerFires PROVE Heard'
<1> USE Bounds
<1> PICK r : r = m.row
  OBVIOUS
<1>1. /\ m.timer = "armed" /\ ~Waking /\ m \in FieldsType
      /\ UNCHANGED <<jobs, epoch, wait, call, shown>>
  BY TypesAgree DEF TimerFires, JobsInv, Types
<1>2. HasRow(m) /\ r \in Gens /\ jobs[r].settled /\ call = 0 /\ ~m.released
  <2>1. HasRow(m) /\ r \in Gens /\ jobs[r].settled
    BY <1>1, RowIn DEF JobsInv, Marked
  <2> QED
    BY <1>1, <2>1 DEF JobsInv, Tools, Waking
<1>3. CASE m' = evictJob(m) /\ ~(InFlight(m) # {} /\ isDeliverySuppressed(m))
  <2>1. m'.row = 0 /\ m'.dlv = m.dlv /\ m'.stamp = m.stamp
    BY <1>1, <1>3, EvictFacts
  <2>2. \A h \in Gens : Quiet(h)
    BY <1>1, <2>1 DEF Quiet
  <2>3. ASSUME Clean(r), Seen(r)' PROVE Len(shown'[r]) = 1 /\ Gone(r)'
    <3>1. Accounted(r) /\ Seen(r)
      BY <1>1, <1>2, <2>3, RowAccounted DEF Seen
    <3>2. m.dlv[r] # "none" => m.suppressed /\ m.dlv[r] \in Behind
      BY <1>2, <3>1 DEF Accounted, Silenced, Gone
    <3>3. m.dlv[r] = "none"
      BY <1>2, <1>3, <3>2 DEF InFlight, Behind, isDeliverySuppressed
    <3> QED
      BY <1>1, <1>2, <2>1, <3>1, <3>3 DEF Accounted, Gone
  <2> QED
    BY <1>1, <2>1, <2>2, <2>3, StillHeard
<1>4. ASSUME NEW g, m' = [m EXCEPT !.timer = "waiting", !.timerOn = g] PROVE Heard'
  <2>1. /\ m'.row = m.row /\ m'.suppressed = m.suppressed /\ m'.watched = m.watched
        /\ m'.consumed = m.consumed /\ m'.released = m.released
        /\ m'.dlv = m.dlv /\ m'.stamp = m.stamp
    BY <1>1, <1>4 DEF FieldsType
  <2>2. \A h \in Gens : Quiet(h)
    BY <1>1, <2>1 DEF Quiet
  <2>3. Clean(r) => Accounted(r)'
    BY <1>1, <1>2, <2>1, RowAccounted DEF Accounted, Silenced, Gone, Seen, Status
  <2> QED
    BY <1>1, <2>1, <2>2, <2>3, StillHeard
<1> QED
  BY <1>3, <1>4 DEF TimerFires

(* What a transition evicts or cuts off it also silences; what is parked was *)
(* not shown.                                                                *)
LEMMA TransitionHeard == ASSUME JobsInv, JobsInv', Heard, Transition PROVE Heard'
<1> USE Bounds
<1> PICK r : r = m.row
  OBVIOUS
<1> PICK s : s = m'.row
  OBVIOUS
<1>1. /\ call = 0 /\ call' = 0 /\ epoch \in Nat /\ epoch' = epoch + 1 /\ shown' = shown
      /\ LeavesJobs /\ \E e : Evicts(e) /\ Clears(e)
  BY TransitionFacts
<1>2. PICK e : Evicts(e) /\ Clears(e)
  BY <1>1
<1>3. /\ m'.stamp = m.stamp /\ m'.released = m.released
      /\ \A h \in Gens : m.dlv[h] = "format" => m'.dlv[h] = "format"
      /\ \A h \in Gens : m.dlv[h] = "none" => m'.dlv[h] = "none"
  BY <1>2 DEF Evicts, Clears
<1>4. \/ s = 0
      \/ s = r /\ HasRow(m) /\ Status(r) # "done" /\ m'.consumed = m.consumed
  BY <1>2 DEF Evicts, Clears, HasRow
<1>5. \A h \in Gens : /\ jobs'[h].over = jobs[h].over /\ jobs'[h].fg = jobs[h].fg
                      /\ h = r => jobs'[h].cut /\ jobs'[h].status \in {Status(h), "cancelled"}
  BY <1>1 DEF LeavesJobs
<1>6. ASSUME NEW h \in Gens, h # s, Clean(h), Seen(h)' PROVE Len(shown'[h]) = 1 /\ Gone(h)'
  <2>1. Len(shown[h]) = 1 /\ Silenced(h)
    BY <1>1, <1>6 DEF Heard, OnceEach, Seen
  <2>2. CASE h = r
    <3>1. Gone(h)'
      BY <1>5, <1>6, <2>2 DEF JobsInv, CutOff
    <3> QED
      BY <1>1, <2>1, <3>1
  <2>3. CASE h # r
    <3>1. Gone(h)
      BY <2>1, <2>3 DEF Silenced
    <3>2. m.stamp[h] \in Nat
      BY TypesAgree DEF JobsInv, Types, FieldsType
    <3>3. Gone(h)'
      BY <1>1, <1>3, <1>6, <3>1, <3>2 DEF Gone
    <3> QED
      BY <1>1, <2>1, <3>3
  <2> QED
    BY <2>2, <2>3
<1>7. ASSUME s \in Gens, Clean(s) PROVE Accounted(s)' /\ \A h \in Gens \ {s} : Quiet(h)
  <2>1. s = r /\ HasRow(m) /\ Status(r) # "done" /\ m'.consumed = m.consumed
    BY <1>4, <1>7
  <2>2. Accounted(s) /\ (Seen(s) => jobs[s].fg /\ m.released)
    BY <1>7, <2>1, RowAccounted DEF Accounted, Silenced, Gone
  <2>3. Accounted(s)'
    BY <1>1, <1>3, <1>5, <1>7, <2>1, <2>2 DEF Accounted, Silenced, Seen, Status
  <2>4. \A h \in Gens \ {s} : m.dlv[h] = "none"
    BY <1>7, <2>1 DEF Heard, Alone
  <2> QED
    BY <1>1, <1>3, <2>3, <2>4 DEF Quiet
<1>8. s \in {r, 0} /\ epoch' = epoch + 1 /\ call' \in {call, 0}
  BY <1>1, <1>4
<1> QED
  BY <1>5, <1>6, <1>7, <1>8, StillHeard
-----------------------------------------------------------------------------
LEMMA HeardStep == ToldInv /\ [Next]_vars => ToldInv'
<1> SUFFICES ASSUME JobsInv, Heard, [Next]_vars PROVE JobsInv' /\ Heard'
  BY DEF ToldInv
<1>1. JobsInv'
  BY JobsStep
<1>2. CASE UNCHANGED vars
  <2>1. UNCHANGED <<Alone, Spoken, NotLost>>
    BY <1>2 DEF vars, Alone, Spoken, NotLost, HasRow, Clean, Seen, Status
  <2>2. UNCHANGED OnceEach
    BY <1>2 DEF vars, OnceEach, Silenced, Gone, Clean, Seen, Status
  <2> QED
    BY <1>1, <2>1, <2>2 DEF Heard
<1>3. CASE Owner
  <2>1. Register(FALSE) => Heard'
    BY RegisterHeard
  <2> QED
    BY <1>1, <1>3, <2>1, CancelHeard, SnapshotHeard, WaitStartHeard, WaitEndHeard,
       TurnsHeard, TransitionHeard DEF Owner
<1>4. CASE Deliveries
  BY <1>1, <1>4, AttemptsHeard DEF Deliveries
<1>5. CASE TimerFires
  BY <1>1, <1>5, TimerHeard
<1>6. CASE \E g \in Gens : Settle(g)
  BY <1>1, <1>6, SettleHeard
<1>7. CASE Register(TRUE)
  BY <1>1, <1>7, RegisterHeard
<1>8. CASE CallReturns \/ CallAborted \/ CallBackgrounds
  BY <1>1, <1>8, CallReturnsHeard, CallAbortedHeard, CallBackgroundsHeard
<1>9. CASE publishCompleted
  BY <1>1, <1>9, PublishHeard
<1> QED
  BY <1>2, <1>3, <1>4, <1>5, <1>6, <1>7, <1>8, <1>9 DEF Next

LEMMA HeardAlways == Spec => []ToldInv
<1>1. Init => ToldInv
  BY JobsInit, HeardInit DEF ToldInv
<1> QED
  BY <1>1, HeardStep, PTL DEF Spec

(* A result reaches the model once, however tool calls, the yield queue,     *)
(* retries, evictions and transitions interleave.                            *)
THEOREM ResultsShownOnce == Spec => []ShownOnce
<1>1. ToldInv => ShownOnce
  <2> SUFFICES ASSUME ToldInv, NEW g \in Gens, Clean(g) PROVE Len(shown[g]) <= 1
    BY DEF ShownOnce
  <2>1. CASE Seen(g)
    <3>1. Len(shown[g]) = 1
      BY <2>1 DEF ToldInv, Heard, OnceEach
    <3> QED
      BY <3>1
  <2>2. CASE ~Seen(g)
    <3>1. Len(shown[g]) = 0
      BY <2>2, EmptySeq DEF Seen
    <3> QED
      BY <3>1
  <2> QED
    BY <2>1, <2>2
<1> QED
  BY <1>1, HeardAlways, PTL

(* No result is lost while its row is there: a delivery, a wait or a call    *)
(* is still to bring it.                                                     *)
THEOREM ResultsNotLost == Spec => []NotLost
<1>1. ToldInv => NotLost
  BY DEF ToldInv, Heard
<1> QED
  BY <1>1, HeardAlways, PTL

(* A result is consumed by whoever showed it, never by a call that only      *)
(* suppressed its delivery.                                                  *)
THEOREM ConsumedResultsSeen == Spec => []ConsumedWasSeen
<1>1. ToldInv => ConsumedWasSeen
  BY DEF ToldInv, Heard, Spoken, ConsumedWasSeen, Seen
<1> QED
  BY <1>1, HeardAlways, PTL
=============================================================================
