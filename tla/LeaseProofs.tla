----------------------------- MODULE LeaseProofs -----------------------------
(***************************************************************************)
(* What a worker id of its own buys.  The RPCs of a lease name the caller  *)
(* by its worker id alone (ControlPlane), so everything the lease is to    *)
(* fence off rests on hypotheses the deployment does not meet.  When no    *)
(* two processes state the same id and no lease_next is executed after its *)
(* caller gave up on it, an edition carries the content of its own lease,  *)
(* however late the other calls are executed.  When no call at all         *)
(* outlives its caller, no two ticks submit for one job and no tick fails  *)
(* the job of another.  Both hold for every number of processes, attempts, *)
(* slots and faults.                                                       *)
(***************************************************************************)
EXTENDS WorkerProofs, FiniteSetTheorems

USE DEF Slots, Attempts

DistinctIdentities ==
  \A p, q \in Procs : Identity(p) = Identity(q) => p = q

\* No lease_next awaits its execution without a caller.  One that does leases a
\* job to a process that may already work under an earlier lease of it.
NoLateLease == \A c \in late : c.op # "lease"

-----------------------------------------------------------------------------
(* The content of an edition, when no two processes share an id.           *)

\* A live lease in a process's name is the one its tick was handed.
HeldAsHanded ==
  \A p \in Procs :
    /\ proc[p].job # 0
    /\ Holds(Identity(p), proc[p].job)
    => jobs[proc[p].job].attempts = proc[p].att

LEMMA JobRow ==
  ASSUME CPInv, NEW j \in Slots
  PROVE  /\ jobs[j] \in JobRows
         /\ jobs[j].attempts \in Nat
         /\ jobs[j].status \in Statuses
BY ControlPlaneAssumption DEF CPInv, CPTypeOK, JobRows

MaterializeSteps == {"materialize", "rematerialize"}

\* The run a tick materializes, or has left a call to materialize, holds the
\* content of its own attempt.
NamedTrue ==
  /\ \A p \in Procs : proc[p].pc \in MaterializeSteps =>
       runs[proc[p].job][proc[p].run] = proc[p].run
  /\ \A c \in late : c.op = "materialize" => runs[c.job][c.arg] = c.arg

CInv == HeldAsHanded /\ NamedTrue /\ LeasedContent

\* Content once filed under an attempt stays.
LEMMA RunsSettle ==
  ASSUME CPInv, CPStep \/ UNCHANGED cpVars, NEW j \in Slots, NEW a \in Attempts,
         runs[j][a] # 0
  PROVE  runs'[j][a] = runs[j][a]
<1>1. ASSUME NEW w \in WorkerIds, NEW k \in Slots, NEW gen \in Attempts,
             SubmitRun(w, k, gen)
      PROVE  runs'[j][a] = runs[j][a]
  <2>1. PICK b \in Attempts : b = jobs[k].attempts
    BY <1>1 DEF SubmitRun, CanSubmit, Holds, CPInv, LeasesCounted
  <2>2. /\ runs' = [runs EXCEPT ![k][b] = gen] /\ runs[k][b] \in {0, gen}
        /\ runs \in [Slots -> [Attempts -> 0..MaxAttempts]]
    BY <1>1, <2>1 DEF SubmitRun, CanSubmit, CPInv, CPTypeOK
  <2> HIDE DEF Slots, Attempts
  <2>3. runs'[j][a] = IF j = k /\ a = b THEN gen ELSE runs[j][a]
    BY <2>2
  <2> QED BY <2>2, <2>3
<1>2. CASE UNCHANGED runs
  BY <1>2
<1> QED BY <1>1, <1>2
        DEF CPStep, cpVars, LeaseGranted, NoJobToLease, QueueStep, MaterializeEdition,
            FailJob, PublishNext, LeaseLapses, BackoffElapses, ClockAdvances

\* A live lease was live before, or is handed out by this very step.
LEMMA LeaseHandedOut ==
  ASSUME CPInv, CPStep \/ UNCHANGED cpVars, NEW w \in WorkerIds, NEW j \in Slots,
         Holds(w, j)'
  PROVE  \/ Holds(w, j) /\ jobs'[j].attempts = jobs[j].attempts
         \/ LeaseGranted(w, j) /\ jobs'[j].attempts # jobs[j].attempts
<1>1. ASSUME NEW v \in WorkerIds, NEW k \in Slots, LeaseGranted(v, k)
      PROVE  \/ Holds(w, j) /\ jobs'[j].attempts = jobs[j].attempts
             \/ LeaseGranted(w, j) /\ jobs'[j].attempts # jobs[j].attempts
  <2>1. /\ jobs'[k] = [status |-> "leased", attempts |-> jobs[k].attempts + 1, holder |-> v]
        /\ \A i \in Slots : i # k /\ jobs'[i].status = "leased" => jobs'[i] = jobs[i]
        /\ jobs[k].attempts \in Nat
    BY <1>1, LeaseGrantedEffect, JobRow
  <2> QED BY <1>1, <2>1 DEF Holds
<1>2. CASE UNCHANGED jobs
  BY <1>2 DEF Holds
<1>3. CASE NoJobToLease
  BY <1>3 DEF NoJobToLease, Swept, Holds, CPInv, CPTypeOK, JobRows
<1>4. ASSUME NEW v \in WorkerIds, NEW k \in Slots, NEW a \in Attempts,
             MaterializeEdition(v, k, a)
      PROVE  Holds(w, j) /\ jobs'[j].attempts = jobs[j].attempts
  BY <1>4 DEF MaterializeEdition, Holds, CPInv, CPTypeOK, JobRows
<1>5. ASSUME NEW v \in WorkerIds, NEW k \in Slots, NEW r \in BOOLEAN, FailJob(v, k, r)
      PROVE  Holds(w, j) /\ jobs'[j].attempts = jobs[j].attempts
  BY <1>5 DEF FailJob, Holds, CPInv, CPTypeOK, JobRows
<1>6. ASSUME NEW k \in Slots, LeaseLapses(k) \/ BackoffElapses(k)
      PROVE  Holds(w, j) /\ jobs'[j].attempts = jobs[j].attempts
  BY <1>6 DEF LeaseLapses, BackoffElapses, Holds, CPInv, CPTypeOK, JobRows
<1> QED BY <1>1, <1>2, <1>3, <1>4, <1>5, <1>6
        DEF CPStep, cpVars, SubmitRun, PublishNext, ClockAdvances

\* Only lease_next counts an attempt.
LEMMA AttemptsStand ==
  ASSUME CPInv,
         \/ NoJobToLease
         \/ \E w \in WorkerIds, k \in Slots, a \in Attempts : MaterializeEdition(w, k, a)
         \/ \E w \in WorkerIds, k \in Slots, r \in BOOLEAN : FailJob(w, k, r)
         \/ \E k \in Slots : LeaseLapses(k) \/ BackoffElapses(k)
         \/ UNCHANGED jobs,
         NEW j \in Slots
  PROVE  jobs'[j].attempts = jobs[j].attempts
<1>1. CASE NoJobToLease
  BY <1>1 DEF NoJobToLease, Swept, CPInv, CPTypeOK, JobRows
<1>2. ASSUME NEW w \in WorkerIds, NEW k \in Slots, NEW a \in Attempts,
             MaterializeEdition(w, k, a)
      PROVE  jobs'[j].attempts = jobs[j].attempts
  <2>1. CASE jobs' = [jobs EXCEPT ![k].status = "succeeded", ![k].holder = NoWorker]
    BY <2>1 DEF CPInv, CPTypeOK, JobRows
  <2> QED BY <1>2, <2>1 DEF MaterializeEdition
<1>3. ASSUME NEW w \in WorkerIds, NEW k \in Slots, NEW r \in BOOLEAN, FailJob(w, k, r)
      PROVE  jobs'[j].attempts = jobs[j].attempts
  BY <1>3 DEF FailJob, CPInv, CPTypeOK, JobRows
<1>4. ASSUME NEW k \in Slots, LeaseLapses(k) \/ BackoffElapses(k)
      PROVE  jobs'[j].attempts = jobs[j].attempts
  <2>1. PICK s \in Statuses : jobs' = [jobs EXCEPT ![k].status = s]
    BY <1>4 DEF LeaseLapses, BackoffElapses, Statuses
  <2> QED BY <2>1 DEF CPInv, CPTypeOK, JobRows
<1> QED BY <1>1, <1>2, <1>3, <1>4

LEMMA LeaseTaken ==
  ASSUME WInv, NoLateLease, [Next]_vars, NEW j \in Slots, jobs'[j].attempts # jobs[j].attempts
  PROVE  \E p \in Procs : TickLease(p) /\ LeaseGranted(Identity(p), j)
<1> SUFFICES ASSUME \A p \in Procs : ~(TickLease(p) /\ LeaseGranted(Identity(p), j))
             PROVE  FALSE
  OBVIOUS
<1>1. jobs' # jobs /\ ~NoJobToLease
  BY AttemptsStand DEF WInv
<1>2. ASSUME NEW w \in WorkerIds, NEW k \in Slots, NEW a \in Attempts,
             MaterializeEdition(w, k, a)
      PROVE  FALSE
  BY <1>2, AttemptsStand DEF WInv
<1>3. ASSUME NEW w \in WorkerIds, NEW k \in Slots, NEW r \in BOOLEAN, FailJob(w, k, r)
      PROVE  FALSE
  BY <1>3, AttemptsStand DEF WInv
<1>4. ASSUME NEW k \in Slots, LeaseLapses(k) \/ BackoffElapses(k)
      PROVE  FALSE
  BY <1>4, AttemptsStand DEF WInv
<1>5. ASSUME NEW p \in Procs, TickLease(p) PROVE FALSE
  <2>1. PICK w \in WorkerIds : w = Identity(p)
    BY WorkerAssumption DEF Identity
  <2>2. PICK k \in Slots : LeaseGranted(w, k)
    BY <1>1, <1>5, <2>1 DEF TickLease, NoAnswer, NoAnswerYet, cpVars
  <2>3. k # j
    BY <1>5, <2>1, <2>2
  <2> QED BY <2>2, <2>3, LeaseGrantedEffect DEF WInv
<1>6. ASSUME NEW p \in Procs, Materialize(p) PROVE FALSE
  <2>1. PICK w \in WorkerIds, k \in Slots, a \in Attempts :
          w = Identity(p) /\ k = proc[p].job /\ a = proc[p].run
    BY <1>6, Lease DEF Materialize, At, HoldingSteps, WInv, LocalOK, LeaseKnown
  <2> QED BY <1>1, <1>2, <1>6, <2>1 DEF Materialize, NoAnswer, NoAnswerYet, cpVars
<1>7. ASSUME NEW p \in Procs, TickFail(p) PROVE FALSE
  <2>1. PICK w \in WorkerIds, k \in Slots, r \in BOOLEAN :
          w = Identity(p) /\ k = proc[p].job /\ r = At(p, "fail_retryable")
    BY <1>7, Lease DEF TickFail, At, HoldingSteps
  <2> QED BY <1>1, <1>3, <1>7, <2>1 DEF TickFail, NoAnswer, NoAnswerYet, cpVars
<1>8. ASSUME NEW p \in Procs, Submit(p) \/ TickPublish(p) \/ Republish(p) PROVE FALSE
  BY <1>1, <1>8 DEF Submit, SubmitRun, TickPublish, Republish, PublishNext, NoAnswer,
                    NoAnswerYet, cpVars
<1>9. ASSUME NEW p \in Procs,
             \/ TickStart(p) \/ HeartbeatOnline(p) \/ HeartbeatBusy(p) \/ Generate(p)
             \/ HeartbeatDone(p) \/ Crash(p) \/ RenewalBreaks(p)
      PROVE FALSE
  BY <1>1, <1>9 DEF TickStart, HeartbeatOnline, HeartbeatBusy, Generate, HeartbeatDone,
                    Crash, RenewalBreaks, cpVars
<1>10. ASSUME NEW k \in Slots, LeaseExpires(k) \/ LeaseExpiresUnderHolder(k) \/ Backoff(k)
       PROVE FALSE
  BY <1>4, <1>10 DEF LeaseExpires, LeaseExpiresUnderHolder, Backoff
<1>11. ASSUME NEW c \in late, LateExecution(c) PROVE FALSE
  <2>1. c.worker \in WorkerIds /\ CallKnown(c) /\ c.op # "lease"
    BY DEF WInv, LocalOK, Calls, NoLateLease
  <2>2. PublishNext \/ SubmitRun(c.worker, c.job, c.arg) => UNCHANGED jobs
    BY DEF PublishNext, SubmitRun
  <2> QED BY <1>1, <1>2, <1>3, <1>11, <2>1, <2>2
          DEF LateExecution, Execution, CallKnown, cpVars
<1>12. ~Clock /\ ~UNCHANGED vars
  BY <1>1 DEF Clock, ClockAdvances, vars, cpVars
<1> QED BY <1>5, <1>6, <1>7, <1>8, <1>9, <1>10, <1>11, <1>12 DEF Next, TickStep

\* What a step makes of the tick of a process.
Resumes(q) ==
  /\ proc'[q].job = proc[q].job
  /\ proc'[q].att = proc[q].att
  /\ proc'[q].pc \in MaterializeSteps =>
       proc[q].pc \in MaterializeSteps /\ proc'[q].run = proc[q].run

Ends(q) == proc'[q].job = 0 /\ proc'[q].pc \notin MaterializeSteps

Leases(q) ==
  /\ TickLease(q)
  /\ proc'[q].att = jobs'[proc'[q].job].attempts
  /\ proc'[q].pc \notin MaterializeSteps

Submits(q) ==
  /\ proc[q].pc \in {"submit", "resubmit"}
  /\ SubmitRun(Identity(q), proc[q].job, proc[q].att)
  /\ proc'[q].job = proc[q].job
  /\ proc'[q].att = proc[q].att
  /\ proc'[q].run = jobs[proc[q].job].attempts

Turns(q) == Resumes(q) \/ Ends(q) \/ Leases(q) \/ Submits(q)

LEMMA LeaseTurns ==
  ASSUME WInv, NEW p \in Procs, TickLease(p)
  PROVE  Ends(p) \/ Leases(p)
<1>1. proc[p] \in Ticks /\ proc \in [Procs -> Ticks]
  BY DEF WInv, LocalOK
<1>2. CASE EndTick(p)
  BY <1>1, <1>2 DEF EndTick, Idle, Ends, MaterializeSteps
<1>3. ASSUME NEW j \in Slots,
             proc' = [proc EXCEPT ![p].pc = "busy", ![p].job = j, ![p].att = jobs'[j].attempts]
      PROVE  Leases(p)
  <2>1. PICK n : n = jobs'[j].attempts
    OBVIOUS
  <2>2. proc'[p] = [proc[p] EXCEPT !.pc = "busy", !.job = j, !.att = n]
    BY <1>1, <1>3, <2>1
  <2>3. proc'[p].pc = "busy" /\ proc'[p].job = j /\ proc'[p].att = n
    BY <1>1, <2>2 DEF Ticks
  <2> QED BY <2>1, <2>3 DEF Leases, MaterializeSteps
<1> QED BY <1>2, <1>3 DEF TickLease

LEMMA TickTurns ==
  ASSUME WInv, NEW p \in Procs, TickStart(p) \/ TickStep(p) \/ RenewalBreaks(p) \/ Crash(p)
  PROVE  Turns(p)
<1> USE DEF Turns
<1>1. proc[p] \in Ticks /\ proc \in [Procs -> Ticks]
  BY DEF WInv, LocalOK
<1>2. CASE EndTick(p)
  BY <1>1, <1>2 DEF EndTick, Idle, Ends, MaterializeSteps
<1>3. ASSUME NEW s \in Steps, Goto(p, s),
             s \in MaterializeSteps => proc[p].pc \in MaterializeSteps
      PROVE  Resumes(p)
  BY <1>1, <1>3 DEF Goto, Resumes, Ticks
<1>4. ASSUME NEW s \in {"fail_retryable", "fail_terminal"}, GoFail(p, s)
      PROVE  Resumes(p)
  BY <1>1, <1>4 DEF GoFail, Resumes, Ticks, MaterializeSteps
<1>5. CASE TickStart(p) \/ HeartbeatOnline(p) \/ Generate(p) \/ HeartbeatDone(p) \/ Crash(p)
           \/ TickFail(p) \/ Republish(p)
  BY <1>2, <1>3, <1>4, <1>5
  DEF TickStart, HeartbeatOnline, Generate, HeartbeatDone, Crash, TickFail, Republish, At,
      Steps, MaterializeSteps
<1>6. CASE HeartbeatBusy(p) \/ RenewalBreaks(p)
  BY <1>1, <1>2, <1>6 DEF HeartbeatBusy, RenewalBreaks, Resumes, Ticks, MaterializeSteps
<1>7. CASE TickPublish(p)
  BY <1>1, <1>2, <1>3, <1>7
  DEF TickPublish, EmergencyBegins, At, Resumes, Ticks, Steps, MaterializeSteps
<1>8. CASE TickLease(p)
  BY <1>8, LeaseTurns
<1>9. CASE Submit(p)
  BY <1>1, <1>3, <1>4, <1>9
  DEF Submit, AfterNoAnswer, At, Submits, Ticks, Steps, MaterializeSteps
<1>10. CASE Materialize(p)
  <2>1. CASE proc' = [proc EXCEPT ![p].pc = "done", ![p].renewer = "off"]
    BY <1>1, <2>1 DEF Resumes, Ticks, MaterializeSteps
  <2> QED BY <1>3, <1>4, <1>10, <2>1
          DEF Materialize, AfterNoAnswer, At, Steps, MaterializeSteps
<1> QED BY <1>5, <1>6, <1>7, <1>8, <1>9, <1>10 DEF TickStep

\* A step of one process leaves the ticks of the others alone.
LEMMA EveryTurn ==
  ASSUME WInv, [Next]_vars, NEW q \in Procs
  PROVE  Turns(q)
<1>1. proc[q] \in Ticks /\ proc \in [Procs -> Ticks]
  BY DEF WInv, LocalOK
<1>2. CASE proc'[q] = proc[q]
  BY <1>2 DEF Turns, Resumes
<1>3. ASSUME NEW p \in Procs, TickStart(p) \/ TickStep(p) \/ RenewalBreaks(p) \/ Crash(p)
      PROVE  Turns(q)
  <2>1. p # q => proc'[q] = proc[q]
    <3>1. CASE TickLease(p)
      <4>1. ASSUME NEW j \in Slots,
                   proc' = [proc EXCEPT ![p].pc = "busy", ![p].job = j,
                                        ![p].att = jobs'[j].attempts]
            PROVE  p # q => proc'[q] = proc[q]
        BY <1>1, <4>1
      <4>2. CASE EndTick(p)
        BY <1>1, <4>2 DEF EndTick
      <4> QED BY <3>1, <4>1, <4>2 DEF TickLease
    <3>2. CASE TickPublish(p) \/ Republish(p)
      BY <1>1, <3>2 DEF TickPublish, Republish, EmergencyBegins, Goto, EndTick
    <3>3. CASE ~TickLease(p) /\ ~TickPublish(p) /\ ~Republish(p)
      BY <1>1, <1>3, <3>3
      DEF TickStart, TickStep, RenewalBreaks, Crash, HeartbeatOnline, HeartbeatBusy,
          Generate, Submit, Materialize, HeartbeatDone, TickFail, AfterNoAnswer, Goto,
          GoFail, EndTick
    <3> QED BY <3>1, <3>2, <3>3
  <2> QED BY <1>2, <1>3, <2>1, TickTurns
<1>4. ASSUME NEW j \in Slots, LeaseExpiresUnderHolder(j)
      PROVE  Turns(q)
  BY <1>1, <1>4 DEF LeaseExpiresUnderHolder, Turns, Resumes, Ticks
<1>5. CASE UNCHANGED proc
  BY <1>2, <1>5
<1>6. ASSUME NEW c \in late, LateExecution(c)
      PROVE  UNCHANGED proc
  BY <1>6 DEF LateExecution
<1> QED BY <1>3, <1>4, <1>5, <1>6 DEF Next, vars, LeaseExpires, Backoff, Clock

\* A call left to be executed late carries what its tick knew.
LEMMA LateCalls ==
  ASSUME WInv, [Next]_vars, NEW c \in late', c.op = "materialize"
  PROVE  \/ c \in late
         \/ \E p \in Procs : /\ proc[p].pc \in MaterializeSteps
                             /\ c.job = proc[p].job /\ c.arg = proc[p].run
<1>1. ASSUME NEW p \in Procs,
             TickPublish(p) \/ TickLease(p) \/ Republish(p) \/ Submit(p) \/ TickFail(p)
      PROVE  c \in late
  <2>1. PICK op \in {"publish", "lease", "submit", "fail_retryable", "fail_terminal"},
             arg \in 0..MaxAttempts :
          late' \subseteq late \cup {Call(op, p, arg)}
    <3>1. CASE Submit(p) \/ TickFail(p)
      BY <1>1, <3>1, ControlPlaneAssumption
      DEF Submit, TickFail, NoAnswer, NoAnswerYet, At, WInv, LocalOK, Ticks
    <3>2. CASE TickPublish(p) \/ Republish(p)
      <4>1. UNCHANGED late \/ NoAnswerYet(Call("publish", p, 0))
        BY <3>2 DEF TickPublish, Republish, NoAnswer
      <4> QED BY <4>1, ControlPlaneAssumption DEF NoAnswerYet
    <3>3. CASE TickLease(p)
      <4>1. UNCHANGED late \/ NoAnswerYet(Call("lease", p, 0))
        BY <3>3 DEF TickLease, NoAnswer
      <4> QED BY <4>1, ControlPlaneAssumption DEF NoAnswerYet
    <3> QED BY <1>1, <3>1, <3>2, <3>3
  <2>2. Call(op, p, arg).op = op
    BY DEF Call
  <2> QED BY <2>1, <2>2
<1>2. ASSUME NEW p \in Procs, Materialize(p), c \notin late
      PROVE  /\ proc[p].pc \in MaterializeSteps
             /\ c.job = proc[p].job /\ c.arg = proc[p].run
  BY <1>2 DEF Materialize, NoAnswer, NoAnswerYet, Call, At, MaterializeSteps
<1> QED BY <1>1, <1>2
    DEF Next, vars, LeaseExpires, LeaseExpiresUnderHolder, Backoff, Clock, LateExecution,
        TickStart, TickStep, RenewalBreaks, Crash, HeartbeatOnline, HeartbeatBusy,
        Generate, HeartbeatDone

\* An edition is made of content that is named after its attempt.
LEMMA EditionNamed ==
  ASSUME WInv, CInv, [Next]_vars
  PROVE  \/ UNCHANGED editions
         \/ PublishNext
         \/ \E w \in WorkerIds, j \in Slots, a \in Attempts :
              MaterializeEdition(w, j, a) /\ runs[j][a] = a
<1>1. ASSUME NEW p \in Procs, Materialize(p), editions' # editions
      PROVE  \E w \in WorkerIds, j \in Slots, a \in Attempts :
               MaterializeEdition(w, j, a) /\ runs[j][a] = a
  <2>1. PICK w \in WorkerIds, j \in Slots, a \in Attempts :
          w = Identity(p) /\ j = proc[p].job /\ a = proc[p].run
    BY <1>1, Lease DEF Materialize, At, HoldingSteps, WInv, LocalOK, LeaseKnown
  <2>2. runs[j][a] = a
    BY <1>1, <2>1 DEF CInv, NamedTrue, Materialize, At, MaterializeSteps
  <2>3. MaterializeEdition(w, j, a)
    BY <1>1, <2>1 DEF Materialize, NoAnswer, NoAnswerYet, cpVars
  <2> QED BY <2>2, <2>3
<1>2. ASSUME NEW c \in late, LateExecution(c), editions' # editions
      PROVE  \/ PublishNext
             \/ \E w \in WorkerIds, j \in Slots, a \in Attempts :
                  MaterializeEdition(w, j, a) /\ runs[j][a] = a
  <2>1. c.worker \in WorkerIds /\ CallKnown(c)
    BY DEF WInv, LocalOK, Calls
  <2>2. CASE c.op = "publish" /\ PublishNext
    BY <2>2
  <2>3. CASE c.op = "materialize" /\ MaterializeEdition(c.worker, c.job, c.arg)
    <3>1. runs[c.job][c.arg] = c.arg
      BY <2>3 DEF CInv, NamedTrue
    <3> QED BY <2>1, <2>3, <3>1 DEF CallKnown
  <2> QED BY <1>2, <2>2, <2>3
          DEF LateExecution, Execution, SubmitRun, FailJob, LeaseGranted, NoJobToLease,
              QueueStep, cpVars
<1> QED BY <1>1, <1>2
    DEF Next, vars, cpVars, LeaseExpires, LeaseExpiresUnderHolder, Backoff, Clock,
        LeaseLapses, BackoffElapses, ClockAdvances,
        TickStart, TickStep, RenewalBreaks, Crash, HeartbeatOnline, TickPublish, TickLease,
        HeartbeatBusy, Generate, HeartbeatDone, Republish, Submit, TickFail, NoAnswer,
        NoAnswerYet, SubmitRun, FailJob, LeaseGranted, NoJobToLease, QueueStep

LEMMA HandedKept ==
  ASSUME DistinctIdentities, NoLateLease, WInv, CInv, [Next]_vars,
         CPStep \/ UNCHANGED cpVars
  PROVE  HeldAsHanded'
<1> SUFFICES ASSUME NEW q \in Procs, proc'[q].job # 0, Holds(Identity(q), proc[q].job)'
             PROVE  jobs'[proc'[q].job].attempts = proc'[q].att
  BY DEF HeldAsHanded
<1>1. PICK w \in WorkerIds : w = Identity(q)
  BY WorkerAssumption DEF Identity
<1>2. CASE Resumes(q) \/ Submits(q)
  <2>1. PICK j \in Slots : j = proc[q].job /\ proc'[q].job = j /\ proc'[q].att = proc[q].att
    BY <1>2 DEF Resumes, Submits, WInv, LocalOK, Ticks
  <2>2. CASE Holds(w, j) /\ jobs'[j].attempts = jobs[j].attempts
    BY <1>1, <2>1, <2>2, ControlPlaneAssumption DEF CInv, HeldAsHanded
  <2>3. CASE LeaseGranted(w, j) /\ jobs'[j].attempts # jobs[j].attempts
    <3>1. PICK p \in Procs : TickLease(p) /\ LeaseGranted(Identity(p), j)
      BY <2>3, LeaseTaken
    <3>2. jobs'[j].holder = Identity(p)
      <4>1. PICK v \in WorkerIds : v = Identity(p)
        BY WorkerAssumption DEF Identity
      <4>2. LeaseGranted(v, j)
        BY <3>1, <4>1
      <4>3. jobs'[j].holder = v
        <5>1. jobs'[j] = [status |-> "leased", attempts |-> jobs[j].attempts + 1, holder |-> v]
          BY <4>2, LeaseGrantedEffect DEF WInv
        <5> QED BY <5>1
      <4> QED BY <4>1, <4>3
    <3>3. p = q
      BY <1>1, <2>1, <3>2 DEF Holds, DistinctIdentities
    <3> QED BY <2>1, <3>1, <3>3, LeaseTurns DEF Leases, Ends
  <2>4. Holds(w, j)'
    BY <1>1, <2>1 DEF Holds, Identity
  <2> QED BY <2>2, <2>3, <2>4, LeaseHandedOut DEF WInv
<1> QED BY <1>2, EveryTurn DEF Turns, Ends, Leases

LEMMA NamesKept ==
  ASSUME WInv, CInv, [Next]_vars, CPStep \/ UNCHANGED cpVars
  PROVE  NamedTrue'
<1>1. ASSUME NEW q \in Procs, proc[q].pc \in MaterializeSteps
      PROVE  /\ runs'[proc[q].job][proc[q].run] = proc[q].run
             /\ runs[proc[q].job][proc[q].run] = proc[q].run
  <2>1. PICK j \in Slots, a \in Attempts : j = proc[q].job /\ a = proc[q].run
    BY <1>1 DEF MaterializeSteps, HoldingSteps, WInv, LocalOK, LeaseKnown
  <2> QED BY <1>1, <2>1, RunsSettle DEF CInv, NamedTrue, WInv
<1>2. ASSUME NEW q \in Procs, proc'[q].pc \in MaterializeSteps
      PROVE  runs'[proc'[q].job][proc'[q].run] = proc'[q].run
  <2>1. CASE Resumes(q)
    BY <1>1, <1>2, <2>1 DEF Resumes
  <2>2. CASE Submits(q)
    <3>1. PICK j \in Slots, a \in Attempts : j = proc[q].job /\ a = proc[q].att
      BY <2>2, Lease DEF Submits, HoldingSteps
    <3>2. jobs[j].attempts = a
      BY <2>2, <3>1, ControlPlaneAssumption
      DEF Submits, SubmitRun, CanSubmit, CInv, HeldAsHanded
    <3>3. runs' = [runs EXCEPT ![j][a] = a] /\ runs \in [Slots -> [Attempts -> 0..MaxAttempts]]
      BY <2>2, <3>1, <3>2 DEF Submits, SubmitRun, WInv, CPInv, CPTypeOK
    <3>4. runs'[j][a] = a
      <4> HIDE DEF Slots, Attempts
      <4> QED BY <3>3
    <3> QED BY <2>2, <3>1, <3>2, <3>4 DEF Submits
  <2> QED BY <1>2, <2>1, <2>2, EveryTurn DEF Turns, Ends, Leases
<1>3. ASSUME NEW c \in late', c.op = "materialize"
      PROVE  runs'[c.job][c.arg] = c.arg
  <2>1. CASE c \in late
    <3>1. PICK j \in Slots, a \in Attempts : j = c.job /\ a = c.arg
      BY <1>3, <2>1 DEF WInv, LocalOK, CallKnown
    <3> QED BY <1>3, <2>1, <3>1, RunsSettle DEF CInv, NamedTrue, WInv
  <2> QED BY <1>1, <1>3, <2>1, LateCalls
<1> QED BY <1>2, <1>3 DEF NamedTrue

LEMMA NewEditionTrue ==
  ASSUME CPInv, LeasedContent, NEW w \in WorkerIds, NEW j \in Slots,
         NEW a \in Attempts, MaterializeEdition(w, j, a), runs[j][a] = a
  PROVE  LeasedContent'
<1>1. CASE Materialized(j, a)
  BY <1>1 DEF MaterializeEdition, LeasedContent
<1>2. CASE ~Materialized(j, a)
  <2> PICK g : g = runs[j][a]
    OBVIOUS
  <2> DEFINE new == [job |-> j, run |-> a, gen |-> g, status |-> "validated"]
  <2>1. /\ jobs[j].attempts = a /\ g = a
        /\ editions' = Append(editions, new)
        /\ jobs' = [jobs EXCEPT ![j].status = "succeeded", ![j].holder = NoWorker]
    BY <1>2 DEF MaterializeEdition, CanMaterialize
  <2>2. /\ editions \in Seq(EditionRows) /\ Len(editions) \in Nat
        /\ DOMAIN editions = 1..Len(editions)
    BY DEF CPInv, CPTypeOK
  <2>3. editions' = [i \in 1..(Len(editions) + 1) |->
                       IF i = Len(editions) + 1 THEN new ELSE editions[i]]
    BY <2>1, <2>2
  <2>4. \A k \in Slots : jobs'[k].attempts = jobs[k].attempts
    BY <2>1 DEF CPInv, CPTypeOK, JobRows
  <2>5. \A i \in DOMAIN editions : editions[i].job \in Slots
    BY EditionRow DEF CPInv
  <2>6. ASSUME NEW i \in DOMAIN editions'
        PROVE  editions'[i].gen = jobs'[editions'[i].job].attempts
    <3>1. CASE i = Len(editions) + 1
      <4>1. editions'[i].gen = g /\ editions'[i].job = j
        BY <2>2, <2>3, <3>1
      <4> QED BY <2>1, <2>4, <4>1
    <3>2. CASE i # Len(editions) + 1
      <4>1. i \in DOMAIN editions /\ editions'[i] = editions[i]
        BY <2>2, <2>3, <2>6, <3>2
      <4> QED BY <2>4, <2>5, <4>1 DEF LeasedContent
    <3> QED BY <3>1, <3>2
  <2> QED BY <2>6 DEF LeasedContent
<1> QED BY <1>1, <1>2

\* The attempt counted on a job that has succeeded is the one it succeeded under.
LEMMA ContentKept ==
  ASSUME WInv, CInv, [Next]_vars
  PROVE  LeasedContent'
<1>1. KeepsSuccess
  BY WNext
<1>2. \A i \in DOMAIN editions : editions[i].job \in Slots
  BY EditionRow DEF WInv, CPInv
<1>3. CASE UNCHANGED editions
  BY <1>1, <1>2, <1>3 DEF CInv, LeasedContent, KeepsSuccess, WInv, CPInv, EditionsClosed
<1>4. CASE PublishNext
  <2>1. PICK i \in DOMAIN editions :
          editions' = [editions EXCEPT ![i].status = "published"]
    BY <1>4 DEF PublishNext
  <2>2. editions[i] \in EditionRows
    BY EditionRow DEF WInv, CPInv
  <2>3. /\ DOMAIN editions' = DOMAIN editions
        /\ \A k \in DOMAIN editions : /\ editions'[k].job = editions[k].job
                                      /\ editions'[k].gen = editions[k].gen
    BY <2>1, <2>2 DEF EditionRows
  <2> QED BY <1>4, <2>3 DEF PublishNext, CInv, LeasedContent
<1> QED BY <1>3, <1>4, EditionNamed, NewEditionTrue DEF WInv, CInv

LEMMA CInitial == Init => CInv
BY DEF Init, Idle, CPInit, CInv, HeldAsHanded, NamedTrue, LeasedContent, MaterializeSteps

LEMMA ContentNext ==
  ASSUME DistinctIdentities
  PROVE  WInv /\ CInv /\ NoLateLease /\ [Next]_vars => CInv'
<1> SUFFICES ASSUME WInv, CInv, NoLateLease, [Next]_vars PROVE CInv'
  OBVIOUS
<1>1. CPStep \/ UNCHANGED cpVars
  BY EveryStep DEF LocalStep, vars
<1>2. HeldAsHanded' /\ NamedTrue'
  BY <1>1, HandedKept, NamesKept
<1> QED BY <1>2, ContentKept DEF CInv

LEMMA ContentInductive ==
  ASSUME DistinctIdentities
  PROVE  Spec /\ []NoLateLease => [](WInv /\ CInv)
BY CInitial, ContentNext, Inductive, PTL DEF Spec

\* What generation.pipeline wrote under one lease is never published under another,
\* as long as no lease_next_gazzetta_job is executed after its tick ended: a
\* submit_gazzetta_run that is executed late can only file the content of an
\* earlier lease where its process then submits other content and is refused.
THEOREM ContentOfItsLease ==
  ASSUME DistinctIdentities
  PROVE  Spec /\ []NoLateLease => []LeasedContent
<1>1. CInv => LeasedContent
  BY DEF CInv
<1> QED BY <1>1, ContentInductive, PTL

-----------------------------------------------------------------------------
(* The inductive invariant of the fenced lease, on top of WInv.            *)

Fenced == DistinctIdentities /\ MaxLate = 0

NoneLate == late = {}

\* Only a tick that is past lease_next names a job.
JobNamedWhenHeld ==
  \A p \in Procs : proc[p].pc \notin HoldingSteps => proc[p].job = 0

\* No two ticks hold the same attempt of a job, and no tick one yet to come.
AttemptsApart ==
  \A p, q \in Procs :
    p # q /\ proc[p].job = proc[q].job /\ proc[p].job # 0 => proc[p].att # proc[q].att

AttemptsPast ==
  \A p \in Procs : proc[p].job # 0 => proc[p].att <= jobs[proc[p].job].attempts

\* A tick that renews its lease or has passed ensure_healthy, and never slept.
Engaged(t) ==
  /\ \/ t.pc \in {"busy", "submit", "resubmit", "materialize", "rematerialize"}
     \/ t.pc = "generate" /\ t.renewer = "running"
  /\ ~t.slept

\* w has the job or the job is done.
Secured(w, j) == Holds(w, j) \/ jobs[j].status = "succeeded"

EngagedSecured ==
  \A p \in Procs : Engaged(proc[p]) =>
    /\ Secured(Identity(p), proc[p].job)
    /\ jobs[proc[p].job].attempts = proc[p].att

TicksOK ==
  /\ JobNamedWhenHeld
  /\ AttemptsApart
  /\ AttemptsPast
  /\ HeldAsHanded
  /\ EngagedSecured

LInv == NoneLate /\ TicksOK

-----------------------------------------------------------------------------
(* What the RPCs of one process leave of the leases of another.            *)

Undisturbed(q) ==
  \A j \in Slots :
    /\ jobs'[j].attempts >= jobs[j].attempts
    /\ Holds(Identity(q), j)' =>
         Holds(Identity(q), j) /\ jobs'[j].attempts = jobs[j].attempts
    /\ Secured(Identity(q), j) =>
         Secured(Identity(q), j)' /\ jobs'[j].attempts = jobs[j].attempts

LEMMA SameJobs ==
  ASSUME CPInv, UNCHANGED jobs, NEW q \in Procs
  PROVE  Undisturbed(q)
BY JobRow DEF Undisturbed, Secured, Holds

\* lease_next touches no live lease: it hands out queued and expired jobs.
LEMMA PoolKeepsLeases ==
  ASSUME CPInv, NEW create \in BOOLEAN, create => MayCreate, NEW k \in Slots,
         jobs[k].status = "leased"
  PROVE  Pool(create)[k] = jobs[k]
<1>1. Swept \in [Slots -> JobRows] /\ Swept[k] = jobs[k]
  BY ControlPlaneAssumption DEF CPInv, CPTypeOK, Swept, JobRows, Statuses
<1>2. CASE create = FALSE
  BY <1>1, <1>2 DEF Pool
<1>3. CASE create = TRUE
  <2>1. cursor \in Slots /\ jobs[cursor].status = "absent"
    BY <1>3, ControlPlaneAssumption DEF CPInv, CPTypeOK, MayCreate, CursorFresh
  <2>2. Pool(create) =
          [Swept EXCEPT ![cursor] = [Swept[cursor] EXCEPT !.status = "queued"]]
    BY <1>3 DEF Pool
  <2> QED BY <1>1, <2>1, <2>2
<1> QED BY <1>2, <1>3

LEMMA LeaseKeepsLeases ==
  ASSUME CPInv, NEW w \in WorkerIds, NEW j \in Slots, LeaseGranted(w, j),
         NEW k \in Slots, jobs[k].status = "leased"
  PROVE  k # j /\ jobs'[k] = jobs[k]
<1>1. PICK create \in BOOLEAN :
        /\ QueueStep(create)
        /\ j \in Ready(create)
        /\ jobs' = [Pool(create) EXCEPT
                      ![j] = [status |-> "leased", attempts |-> @.attempts + 1,
                              holder |-> w]]
  BY DEF LeaseGranted
<1>2. Pool(create)[k] = jobs[k] /\ Pool(create) \in [Slots -> JobRows]
  BY <1>1, PoolKeepsLeases, PoolType DEF QueueStep, CPInv
<1>3. k # j
  BY <1>1, <1>2 DEF Ready
<1> QED BY <1>1, <1>2, <1>3

LEMMA LeaseDisturbsNone ==
  ASSUME CPInv, NEW w \in WorkerIds, NEW j \in Slots, LeaseGranted(w, j),
         NEW q \in Procs, w # Identity(q)
  PROVE  Undisturbed(q)
<1>1. /\ jobs'[j] = [status |-> "leased", attempts |-> jobs[j].attempts + 1, holder |-> w]
      /\ jobs[j].status # "succeeded"
      /\ \A k \in Slots : k # j => /\ jobs'[k].attempts = jobs[k].attempts
                                   /\ jobs'[k].status = "leased" => jobs'[k] = jobs[k]
  BY LeaseGrantedEffect
<1>2. KeepsSuccess
  BY LeaseGrantedInv
<1>3. \A k \in Slots : jobs[k].status = "leased" => k # j /\ jobs'[k] = jobs[k]
  BY LeaseKeepsLeases
<1>4. ASSUME NEW k \in Slots PROVE jobs'[k].attempts >= jobs[k].attempts
  BY <1>1, JobRow
<1>5. ASSUME NEW k \in Slots, Holds(Identity(q), k)'
      PROVE  Holds(Identity(q), k) /\ jobs'[k].attempts = jobs[k].attempts
  BY <1>1, <1>5 DEF Holds
<1>6. ASSUME NEW k \in Slots, Secured(Identity(q), k)
      PROVE  Secured(Identity(q), k)' /\ jobs'[k].attempts = jobs[k].attempts
  BY <1>2, <1>3, <1>6 DEF Secured, Holds, KeepsSuccess
<1> QED BY <1>4, <1>5, <1>6 DEF Undisturbed

LEMMA SweepDisturbsNone ==
  ASSUME CPInv, NoJobToLease, NEW q \in Procs
  PROVE  Undisturbed(q)
<1>1. jobs' = Swept
  BY DEF NoJobToLease
<1>2. \A k \in Slots : /\ jobs[k].status # "expired" => jobs'[k] = jobs[k]
                       /\ jobs'[k].attempts = jobs[k].attempts
                       /\ jobs'[k].status = "leased" => jobs'[k] = jobs[k]
  BY <1>1 DEF CPInv, CPTypeOK, Swept, JobRows, Statuses
<1> QED BY <1>2, JobRow DEF Undisturbed, Secured, Holds

LEMMA MaterializeDisturbsNone ==
  ASSUME CPInv, NEW w \in WorkerIds, NEW j \in Slots, NEW a \in Attempts,
         MaterializeEdition(w, j, a), NEW q \in Procs
  PROVE  Undisturbed(q)
<1>1. CASE UNCHANGED jobs
  BY <1>1, SameJobs
<1>2. CASE jobs' = [jobs EXCEPT ![j].status = "succeeded", ![j].holder = NoWorker]
  <2>1. \A k \in Slots : jobs'[k].attempts = jobs[k].attempts
    BY <1>2 DEF CPInv, CPTypeOK, JobRows
  <2>2. \A k \in Slots : k # j => jobs'[k] = jobs[k]
    BY <1>2 DEF CPInv, CPTypeOK, JobRows
  <2>3. jobs'[j].status = "succeeded"
    BY <1>2 DEF CPInv, CPTypeOK, JobRows
  <2> QED BY <2>1, <2>2, <2>3, JobRow DEF Undisturbed, Secured, Holds
<1> QED BY <1>1, <1>2 DEF MaterializeEdition

\* What one row's change of status does to a process without a lease on it.
LEMMA RowChanged ==
  ASSUME CPInv, NEW j \in Slots, NEW q \in Procs, ~Secured(Identity(q), j),
         jobs'[j].status # "leased", jobs'[j].attempts = jobs[j].attempts,
         \A k \in Slots : k # j => jobs'[k] = jobs[k]
  PROVE  Undisturbed(q)
BY JobRow DEF Undisturbed, Secured, Holds

LEMMA FailDisturbsNone ==
  ASSUME CPInv, Fenced, NEW p \in Procs, NEW j \in Slots, NEW r \in BOOLEAN,
         FailJob(Identity(p), j, r), NEW q \in Procs, p # q
  PROVE  Undisturbed(q)
<1>1. ~Secured(Identity(q), j)
  BY DEF FailJob, Holds, Secured, Fenced, DistinctIdentities
<1>2. /\ jobs'[j].status # "leased" /\ jobs'[j].attempts = jobs[j].attempts
      /\ \A k \in Slots : k # j => jobs'[k] = jobs[k]
  BY DEF FailJob, CPInv, CPTypeOK, JobRows
<1> QED BY <1>1, <1>2, RowChanged

LEMMA BackoffDisturbsNone ==
  ASSUME CPInv, NEW j \in Slots, BackoffElapses(j), NEW q \in Procs
  PROVE  Undisturbed(q)
<1>1. ~Secured(Identity(q), j)
  BY DEF BackoffElapses, Holds, Secured
<1>2. /\ jobs'[j].status # "leased" /\ jobs'[j].attempts = jobs[j].attempts
      /\ \A k \in Slots : k # j => jobs'[k] = jobs[k]
  BY DEF BackoffElapses, CPInv, CPTypeOK, JobRows
<1> QED BY <1>1, <1>2, RowChanged
-----------------------------------------------------------------------------
(* One step of one process: it is enough to look at that process.          *)

\* A tick gives its lease up or carries it on without newly engaging.
GivesUp(t) == t.job = 0 /\ t.pc \notin HoldingSteps

Carries(t, u) ==
  /\ t.job = u.job
  /\ t.att = u.att
  /\ t.pc \notin HoldingSteps => t.job = 0
  /\ Engaged(t) => Engaged(u)

\* A tick with a job is past lease_next.
LEMMA JobKnown ==
  ASSUME WInv, LInv, NEW p \in Procs
  PROVE  /\ proc[p] \in Ticks
         /\ proc[p].job # 0 => proc[p].job \in Slots /\ proc[p].att \in Attempts
         /\ Engaged(proc[p]) => proc[p].job \in Slots /\ proc[p].att \in Attempts
BY DEF WInv, LocalOK, LeaseKnown, LInv, TicksOK, JobNamedWhenHeld, HoldingSteps, Engaged

\* What holds of one tick of a process, and of two.
TickOK(q) ==
  /\ proc[q].pc \notin HoldingSteps => proc[q].job = 0
  /\ proc[q].job # 0 => proc[q].att <= jobs[proc[q].job].attempts
  /\ proc[q].job # 0 /\ Holds(Identity(q), proc[q].job)
       => jobs[proc[q].job].attempts = proc[q].att
  /\ Engaged(proc[q]) => /\ Secured(Identity(q), proc[q].job)
                         /\ jobs[proc[q].job].attempts = proc[q].att

LEMMA TicksOKEach ==
  /\ TicksOK <=> (\A q \in Procs : TickOK(q)) /\ AttemptsApart
  /\ TicksOK' <=> (\A q \in Procs : TickOK(q)') /\ AttemptsApart'
BY DEF TicksOK, TickOK, JobNamedWhenHeld, AttemptsPast, HeldAsHanded, EngagedSecured

\* A process that carries its lease on, or waits, through a step that does not
\* disturb it.
LEMMA StillOK ==
  ASSUME WInv, LInv, CPInv', NEW q \in Procs, Undisturbed(q), Carries(proc'[q], proc[q])
  PROVE  TickOK(q)'
<1> DEFINE u == proc[q]  j == proc[q].job
<1>1. TickOK(q) /\ proc'[q].job = j /\ proc'[q].att = u.att
  BY TicksOKEach DEF LInv, Carries
<1>2. CASE j = 0
  <2>1. ~Engaged(proc[q])
    BY <1>2, JobKnown, ControlPlaneAssumption
  <2> QED BY <1>1, <1>2, <2>1 DEF TickOK, Carries
<1>3. CASE j # 0
  <2>1. /\ j \in Slots /\ u.att \in Attempts
        /\ jobs[j].attempts \in Nat /\ jobs'[j].attempts >= jobs[j].attempts
    BY <1>3, JobKnown, JobRow DEF WInv, Undisturbed
  <2>2. jobs'[j].attempts \in Nat
    BY <2>1, ControlPlaneAssumption DEF CPInv, CPTypeOK, JobRows
  <2> QED BY <1>1, <1>3, <2>1, <2>2 
           DEF TickOK, Carries, Undisturbed, Secured, Holds
<1> QED BY <1>2, <1>3

LEMMA CarriedStep ==
  ASSUME WInv, LInv, CPInv', NEW p \in Procs, NEW t, proc' = [proc EXCEPT ![p] = t],
         \A q \in Procs : q # p => Undisturbed(q),
         GivesUp(t) \/ (Carries(t, proc[p]) /\ Undisturbed(p))
  PROVE  TicksOK'
<1>1. \A q \in Procs : proc'[q] = IF q = p THEN t ELSE proc[q]
  BY DEF WInv, LocalOK
<1>2. \A q \in Procs : Carries(proc[q], proc[q])
  BY TicksOKEach DEF LInv, TickOK, Carries
<1>3. ASSUME NEW q \in Procs PROVE TickOK(q)'
  <2>1. CASE q = p /\ GivesUp(t)
    BY <1>1, <2>1 DEF GivesUp, TickOK, Engaged, HoldingSteps
  <2>2. CASE ~(q = p /\ GivesUp(t))
    <3>1. Undisturbed(q) /\ Carries(proc'[q], proc[q])
      BY <1>1, <1>2, <2>2
    <3> QED BY <3>1, StillOK
  <2> QED BY <2>1, <2>2
<1>4. \A q \in Procs : \/ proc'[q].job = 0
                       \/ proc'[q].job = proc[q].job /\ proc'[q].att = proc[q].att
  BY <1>1 DEF GivesUp, Carries
<1>5. AttemptsApart'
  BY <1>4 DEF LInv, TicksOK, AttemptsApart
<1> QED BY <1>3, <1>5, TicksOKEach

LEMMA EndKeepsTicks ==
  ASSUME WInv, LInv, CPInv', NEW p \in Procs, EndTick(p),
         \A q \in Procs : q # p => Undisturbed(q)
  PROVE  TicksOK'
<1>1. GivesUp(Idle)
  BY DEF GivesUp, Idle, HoldingSteps
<1>2. PICK t : t = Idle /\ GivesUp(t)
  BY <1>1
<1>3. proc' = [proc EXCEPT ![p] = t]
  BY <1>2 DEF EndTick
<1>4. GivesUp(t) \/ (Carries(t, proc[p]) /\ Undisturbed(p))
  BY <1>2
<1> QED BY <1>3, <1>4, CarriedStep

LEMMA GotoKeepsTicks ==
  ASSUME WInv, LInv, CPInv', NEW p \in Procs, NEW s \in Steps, Goto(p, s),
         \A q \in Procs : Undisturbed(q),
         proc[p].pc \in HoldingSteps <=> s \in HoldingSteps,
         Engaged([proc[p] EXCEPT !.pc = s]) => Engaged(proc[p])
  PROVE  TicksOK'
<1> DEFINE t == [proc[p] EXCEPT !.pc = s]
<1>1. proc[p] \in Ticks /\ TickOK(p)
  BY JobKnown, TicksOKEach DEF LInv
<1>2. t.pc = s /\ t.job = proc[p].job /\ t.att = proc[p].att
  BY <1>1 DEF Ticks
<1>3. Carries(t, proc[p])
  BY <1>1, <1>2 DEF Carries, TickOK
<1>4. proc' = [proc EXCEPT ![p] = t]
  BY DEF Goto
<1> HIDE DEF t
<1> QED BY <1>3, <1>4, CarriedStep

LEMMA GoFailKeepsTicks ==
  ASSUME WInv, LInv, CPInv', NEW p \in Procs,
         NEW s \in {"fail_retryable", "fail_terminal"}, GoFail(p, s),
         proc[p].pc \in HoldingSteps, \A q \in Procs : Undisturbed(q)
  PROVE  TicksOK'
<1> DEFINE t == [proc[p] EXCEPT !.pc = s, !.renewer = "off"]
<1>1. proc[p] \in Ticks
  BY JobKnown
<1>2. t.pc = s /\ t.job = proc[p].job /\ t.att = proc[p].att
  BY <1>1 DEF Ticks
<1>3. Carries(t, proc[p])
  BY <1>2 DEF Carries, HoldingSteps, Engaged
<1>4. proc' = [proc EXCEPT ![p] = t]
  BY <1>1 DEF GoFail, Ticks
<1> HIDE DEF t
<1> QED BY <1>3, <1>4, CarriedStep

\* A tick is handed an attempt no tick has held.
LEMMA LeaseKeepsTicks ==
  ASSUME WInv, LInv, CPInv', Fenced, NEW p \in Procs, NEW j \in Slots,
         LeaseGranted(Identity(p), j),
         proc' = [proc EXCEPT ![p].pc = "busy", ![p].job = j,
                              ![p].att = jobs'[j].attempts]
  PROVE  TicksOK'
<1>1. PICK w \in WorkerIds : w = Identity(p)
  BY WorkerAssumption DEF Identity
<1>2. /\ jobs'[j] = [status |-> "leased", attempts |-> jobs[j].attempts + 1, holder |-> w]
      /\ jobs[j].attempts \in Nat
  BY <1>1, LeaseGrantedEffect, JobRow DEF WInv
<1>3. \A q \in Procs : q # p => Undisturbed(q)
  BY <1>1, LeaseDisturbsNone DEF WInv, Fenced, DistinctIdentities
<1>4. PICK n \in Nat : n = jobs'[j].attempts /\ n = jobs[j].attempts + 1
  BY <1>2
<1> DEFINE t == [proc[p] EXCEPT !.pc = "busy", !.job = j, !.att = n]
<1>5. proc' = [proc EXCEPT ![p] = t]
  BY <1>4
<1>6. t.pc = "busy" /\ t.job = j /\ t.att = n /\ proc[p] \in Ticks
  BY JobKnown DEF Ticks
<1> HIDE DEF t
<1>7. \A q \in Procs : proc'[q] = IF q = p THEN t ELSE proc[q]
  BY <1>5 DEF WInv, LocalOK
<1>8. TickOK(p)'
  <2>1. proc'[p].pc = "busy" /\ proc'[p].job = j /\ proc'[p].att = n
    BY <1>6, <1>7
  <2>2. /\ jobs'[j].status = "leased" /\ jobs'[j].holder = Identity(p)
        /\ jobs'[j].attempts = n
    BY <1>1, <1>2, <1>4
  <2>3. "busy" \in HoldingSteps /\ j # 0 /\ n <= n
    BY <1>4, ControlPlaneAssumption DEF HoldingSteps
  <2> QED BY <2>1, <2>2, <2>3 DEF TickOK, Secured, Holds
<1>9. ASSUME NEW q \in Procs, q # p PROVE TickOK(q)'
  <2>1. Carries(proc'[q], proc[q])
    BY <1>7, <1>9, TicksOKEach DEF LInv, TickOK, Carries
  <2> QED BY <1>3, <1>9, <2>1, StillOK
<1>10. \A q \in Procs : q # p /\ proc[q].job = j => proc[q].att # n
  <2> SUFFICES ASSUME NEW q \in Procs, q # p, proc[q].job = j PROVE proc[q].att # n
    OBVIOUS
  <2>1. proc[q].att \in Attempts /\ proc[q].att <= jobs[j].attempts
    BY JobKnown, ControlPlaneAssumption DEF LInv, TicksOK, AttemptsPast
  <2> QED BY <1>2, <1>4, <2>1
<1>11. AttemptsApart'
  <2> SUFFICES ASSUME NEW q \in Procs, NEW r \in Procs, q # r,
                      proc'[q].job = proc'[r].job, proc'[q].job # 0
               PROVE  proc'[q].att # proc'[r].att
    BY DEF AttemptsApart
  <2>1. CASE q = p
    BY <1>6, <1>7, <1>10, <2>1
  <2>2. CASE r = p
    BY <1>6, <1>7, <1>10, <2>2
  <2>3. CASE q # p /\ r # p
    <3>1. proc'[q] = proc[q] /\ proc'[r] = proc[r]
      BY <1>7, <2>3
    <3> QED BY <3>1 DEF LInv, TicksOK, AttemptsApart
  <2> QED BY <2>1, <2>2, <2>3
<1> QED BY <1>8, <1>9, <1>11, TicksOKEach

\* A lease lapses under a tick that is not engaged, or that slept.
LEMMA LapseKeepsTicks ==
  ASSUME WInv, LInv, CPInv', NEW j \in Slots, LeaseLapses(j),
         \A q \in Procs : /\ proc'[q].pc = proc[q].pc
                          /\ proc'[q].job = proc[q].job
                          /\ proc'[q].att = proc[q].att
                          /\ Engaged(proc'[q]) => Engaged(proc[q]) /\ ~Attends(q, j)
  PROVE  TicksOK'
<1>1. /\ jobs'[j].status = "expired" /\ jobs'[j].attempts = jobs[j].attempts
      /\ jobs[j].status = "leased"
      /\ \A k \in Slots : k # j => jobs'[k] = jobs[k]
  BY DEF LeaseLapses, WInv, CPInv, CPTypeOK, JobRows
<1>2. ASSUME NEW q \in Procs, proc[q].job = j, Engaged(proc[q])
      PROVE  Attends(q, j)
  BY <1>1, <1>2, TicksOKEach DEF LInv, TickOK, Secured, Holds, Attends, At, Engaged
<1>3. ASSUME NEW q \in Procs PROVE TickOK(q)'
  <2> PICK k : k = proc[q].job
    OBVIOUS
  <2>1. TickOK(q) /\ proc'[q].job = k /\ (k = 0 \/ k \in Slots)
    BY JobKnown, TicksOKEach DEF LInv
  <2>2. CASE k = j
    BY <1>1, <1>2, <2>1, <2>2, TicksOKEach, ControlPlaneAssumption
    DEF LInv, TickOK, Holds, Secured
  <2>3. CASE k # j
    <3>1. Engaged(proc'[q]) => Engaged(proc[q]) /\ k \in Slots
      BY JobKnown
    <3> QED BY <1>1, <2>1, <2>3, <3>1, TicksOKEach DEF LInv, TickOK, Holds, Secured
  <2> QED BY <2>2, <2>3
<1>4. AttemptsApart'
  BY DEF LInv, TicksOK, AttemptsApart
<1> QED BY <1>3, <1>4, TicksOKEach

-----------------------------------------------------------------------------
(* One lemma per group of actions.                                         *)


\* With MaxLate = 0 no unanswered call is left to be executed later.
LEMMA NoCallOutlives ==
  ASSUME Fenced, NoneLate, NEW c
  PROVE  ~NoAnswerYet(c)
BY FS_EmptySet DEF Fenced, NoneLate, NoAnswerYet

LEMMA QuietStep ==
  ASSUME WInv, LInv, CPInv', NEW p \in Procs, UNCHANGED <<jobs, late>>,
         \/ TickStart(p) \/ HeartbeatOnline(p) \/ HeartbeatBusy(p) \/ Generate(p)
         \/ HeartbeatDone(p) \/ Crash(p) \/ RenewalBreaks(p)
  PROVE  LInv'
<1> SUFFICES TicksOK'
  BY DEF LInv, NoneLate
<1>1. \A q \in Procs : Undisturbed(q)
  BY SameJobs DEF WInv
<1>2. proc[p] \in Ticks
  BY JobKnown
<1>3. CASE EndTick(p)
  BY <1>1, <1>3, EndKeepsTicks
<1>4. ASSUME NEW s \in {"fail_retryable", "fail_terminal"}, GoFail(p, s),
             proc[p].pc \in HoldingSteps
      PROVE  TicksOK'
  BY <1>1, <1>4, GoFailKeepsTicks
<1>5. ASSUME NEW s \in Steps, Goto(p, s),
             proc[p].pc \in HoldingSteps <=> s \in HoldingSteps,
             s = "submit" => proc[p].pc = "generate" /\ proc[p].renewer = "running",
             s \in {"submit", "online", "publish", "republish"}
      PROVE  TicksOK'
  <2>1. Engaged([proc[p] EXCEPT !.pc = s]) => Engaged(proc[p])
    BY <1>2, <1>5 DEF Engaged, Ticks
  <2> QED BY <1>1, <1>5, <2>1, GotoKeepsTicks
<1>6. CASE TickStart(p) \/ HeartbeatOnline(p)
  BY <1>3, <1>5, <1>6 DEF TickStart, HeartbeatOnline, At, Steps, HoldingSteps
<1>7. CASE HeartbeatBusy(p)
  <2> DEFINE t == [proc[p] EXCEPT !.pc = "generate", !.renewer = "running"]
  <2>1. /\ t.pc = "generate" /\ t.job = proc[p].job /\ t.att = proc[p].att
        /\ t.slept = proc[p].slept /\ t.renewer = "running"
    BY <1>2 DEF Ticks
  <2>2. proc[p].pc = "busy"
    BY <1>7 DEF HeartbeatBusy, At
  <2>3. CASE proc' = [proc EXCEPT ![p].pc = "generate", ![p].renewer = "running"]
    <3>1. proc' = [proc EXCEPT ![p] = t]
      BY <1>2, <2>3
    <3> HIDE DEF t
    <3>2. t.pc \in HoldingSteps /\ proc[p].pc \in HoldingSteps
      BY <2>1, <2>2 DEF HoldingSteps
    <3>3. Engaged(t) => Engaged(proc[p])
      BY <2>1, <2>2 DEF Engaged
    <3>4. Carries(t, proc[p])
      BY <2>1, <3>2, <3>3 DEF Carries
    <3> QED BY <1>1, <3>1, <3>4, CarriedStep
  <2> QED BY <1>3, <1>7, <2>3 DEF HeartbeatBusy
<1>8. CASE Generate(p)
  BY <1>4, <1>5, <1>8 DEF Generate, Healthy, At, Steps, HoldingSteps
<1>9. CASE HeartbeatDone(p)
  BY <1>3, <1>4, <1>5, <1>9 DEF HeartbeatDone, At, Steps, HoldingSteps
<1>10. CASE RenewalBreaks(p)
  <2> DEFINE t == [proc[p] EXCEPT !.renewer = "broken"]
  <2>1. /\ t.pc = proc[p].pc /\ t.job = proc[p].job /\ t.att = proc[p].att
        /\ t.slept = proc[p].slept /\ t.renewer = "broken"
    BY <1>2 DEF Ticks
  <2>2. proc' = [proc EXCEPT ![p] = t]
    BY <1>2, <1>10 DEF RenewalBreaks
  <2> HIDE DEF t
  <2>3. Engaged(t) => Engaged(proc[p])
    BY <2>1 DEF Engaged
  <2>4. Carries(t, proc[p])
    BY <2>1, <2>3, TicksOKEach DEF Carries, LInv, TickOK
  <2> QED BY <1>1, <2>2, <2>4, CarriedStep
<1>11. CASE Crash(p)
  BY <1>3, <1>11 DEF Crash
<1> QED BY <1>6, <1>7, <1>8, <1>9, <1>10, <1>11

LEMMA PublishKeeps ==
  ASSUME WInv, LInv, CPInv', Fenced, NEW p \in Procs, TickPublish(p) \/ Republish(p)
  PROVE  LInv'
<1>1. UNCHANGED <<jobs, late>>
  BY NoCallOutlives DEF LInv, TickPublish, Republish, PublishNext, NoAnswer, cpVars
<1> SUFFICES TicksOK'
  BY <1>1 DEF LInv, NoneLate
<1>2. \A q \in Procs : Undisturbed(q)
  BY <1>1, SameJobs DEF WInv
<1>3. proc[p] \in Ticks
  BY JobKnown
<1>4. CASE EndTick(p)
  BY <1>2, <1>4, EndKeepsTicks
<1>5. CASE At(p, "publish") /\ Goto(p, "lease")
  <2>1. Engaged([proc[p] EXCEPT !.pc = "lease"]) => Engaged(proc[p])
    BY <1>3 DEF Engaged, Ticks
  <2> QED BY <1>2, <1>5, <2>1, GotoKeepsTicks DEF At, Steps, HoldingSteps
<1>6. CASE At(p, "publish") /\ EmergencyBegins(p)
  <2> DEFINE t == [proc[p] EXCEPT !.pc = "lease", !.emergency = TRUE]
  <2>1. t.pc = "lease" /\ t.job = proc[p].job /\ proc[p].job = 0
    BY <1>3, <1>6, TicksOKEach DEF Ticks, At, LInv, TickOK, HoldingSteps
  <2>2. proc' = [proc EXCEPT ![p] = t]
    BY <1>3, <1>6 DEF EmergencyBegins
  <2> HIDE DEF t
  <2>3. GivesUp(t)
    BY <2>1 DEF GivesUp, HoldingSteps
  <2> QED BY <1>2, <2>2, <2>3, CarriedStep
<1> QED BY <1>4, <1>5, <1>6 DEF TickPublish, Republish

LEMMA LeaseKeeps ==
  ASSUME WInv, LInv, CPInv', Fenced, NEW p \in Procs, TickLease(p)
  PROVE  LInv'
<1>1. UNCHANGED late
  BY NoCallOutlives DEF LInv, TickLease, LeaseGranted, NoJobToLease, QueueStep, NoAnswer, cpVars
<1> SUFFICES TicksOK'
  BY <1>1 DEF LInv, NoneLate
<1>2. PICK w \in WorkerIds : w = Identity(p)
  BY WorkerAssumption DEF Identity
<1>3. ASSUME NEW q \in Procs, q # p, NEW j \in Slots, LeaseGranted(Identity(p), j)
      PROVE  Undisturbed(q)
  BY <1>2, <1>3, LeaseDisturbsNone DEF WInv, Fenced, DistinctIdentities
<1>4. CASE NoJobToLease /\ EndTick(p)
  BY <1>4, SweepDisturbsNone, EndKeepsTicks DEF WInv
<1>5. CASE NoAnswer(\E j \in Slots : LeaseGranted(Identity(p), j)) /\ EndTick(p)
  <2>1. \A q \in Procs : q # p => Undisturbed(q)
    BY <1>3, <1>5, SameJobs DEF NoAnswer, cpVars, WInv
  <2> QED BY <1>5, <2>1, EndKeepsTicks
<1> QED BY <1>4, <1>5, LeaseKeepsTicks, NoCallOutlives DEF TickLease, LInv

LEMMA SubmitKeeps ==
  ASSUME WInv, LInv, CPInv', Fenced, NEW p \in Procs, Submit(p)
  PROVE  LInv'
<1>1. PICK j \in Slots, gen \in Attempts : j = proc[p].job /\ gen = proc[p].att
  BY Lease DEF Submit, At, HoldingSteps
<1>2. proc[p].pc \in {"submit", "resubmit"} /\ proc[p] \in Ticks
  BY JobKnown DEF Submit, At
<1>3. UNCHANGED <<jobs, late>>
  BY NoCallOutlives DEF Submit, SubmitRun, NoAnswer, cpVars, LInv
<1> SUFFICES TicksOK'
  BY <1>3 DEF LInv, NoneLate
<1>6. \A q \in Procs : Undisturbed(q)
  BY <1>3, SameJobs DEF WInv
<1>7. CASE proc' = [proc EXCEPT ![p].pc = "materialize", ![p].run = jobs[proc[p].job].attempts]
  <2> PICK a : a = jobs[proc[p].job].attempts
    OBVIOUS
  <2> DEFINE t == [proc[p] EXCEPT !.pc = "materialize", !.run = a]
  <2>1. /\ t.pc = "materialize" /\ t.job = proc[p].job /\ t.att = proc[p].att
        /\ t.slept = proc[p].slept
    BY <1>2 DEF Ticks
  <2>2. proc' = [proc EXCEPT ![p] = t]
    BY <1>2, <1>7
  <2> HIDE DEF t
  <2>3. Carries(t, proc[p])
    BY <1>2, <2>1 DEF Carries, Engaged, HoldingSteps
  <2> QED BY <1>6, <2>2, <2>3, CarriedStep
<1>8. CASE At(p, "submit") /\ Goto(p, "resubmit")
  <2>1. Engaged([proc[p] EXCEPT !.pc = "resubmit"]) => Engaged(proc[p])
    BY <1>2, <1>8 DEF Engaged, Ticks, At
  <2> QED BY <1>6, <1>8, <2>1, GotoKeepsTicks DEF At, Steps, HoldingSteps
<1>9. CASE GoFail(p, "fail_retryable")
  BY <1>2, <1>6, <1>9, GoFailKeepsTicks DEF HoldingSteps
<1> QED BY <1>7, <1>8, <1>9 DEF Submit, AfterNoAnswer

LEMMA MaterializeKeeps ==
  ASSUME WInv, LInv, CPInv', Fenced, NEW p \in Procs, Materialize(p)
  PROVE  LInv'
<1>1. PICK w \in WorkerIds, j \in Slots, a \in Attempts :
        w = Identity(p) /\ j = proc[p].job /\ a = proc[p].run
  BY Lease DEF Materialize, At, HoldingSteps, WInv, LocalOK, LeaseKnown
<1>2. proc[p].pc \in {"materialize", "rematerialize"} /\ proc[p] \in Ticks
  BY JobKnown DEF Materialize, At
<1>3. UNCHANGED late
  BY NoCallOutlives DEF Materialize, MaterializeEdition, NoAnswer, cpVars, LInv
<1> SUFFICES TicksOK'
  BY <1>3 DEF LInv, NoneLate
<1>4. MaterializeEdition(w, j, a) \/ UNCHANGED jobs
  BY <1>1, NoCallOutlives DEF Materialize, NoAnswer, cpVars, LInv
<1>5. \A q \in Procs : Undisturbed(q)
  BY <1>4, SameJobs, MaterializeDisturbsNone DEF WInv
<1>6. CASE proc' = [proc EXCEPT ![p].pc = "done", ![p].renewer = "off"]
  <2> DEFINE t == [proc[p] EXCEPT !.pc = "done", !.renewer = "off"]
  <2>1. t.pc = "done" /\ t.job = proc[p].job /\ t.att = proc[p].att
    BY <1>2 DEF Ticks
  <2>2. proc' = [proc EXCEPT ![p] = t]
    BY <1>2, <1>6
  <2> HIDE DEF t
  <2>3. Carries(t, proc[p])
    BY <2>1 DEF Carries, Engaged, HoldingSteps
  <2> QED BY <1>5, <2>2, <2>3, CarriedStep
<1>7. CASE At(p, "materialize") /\ Goto(p, "rematerialize")
  <2>1. Engaged([proc[p] EXCEPT !.pc = "rematerialize"]) => Engaged(proc[p])
    BY <1>2, <1>7 DEF Engaged, Ticks, At
  <2> QED BY <1>5, <1>7, <2>1, GotoKeepsTicks DEF At, Steps, HoldingSteps
<1>8. CASE GoFail(p, "fail_retryable")
  BY <1>2, <1>5, <1>8, GoFailKeepsTicks DEF HoldingSteps
<1> QED BY <1>6, <1>7, <1>8 DEF Materialize, AfterNoAnswer

LEMMA FailKeeps ==
  ASSUME WInv, LInv, CPInv', Fenced, NEW p \in Procs, TickFail(p)
  PROVE  LInv'
<1>1. PICK j \in Slots, r \in BOOLEAN : j = proc[p].job /\ r = At(p, "fail_retryable")
  BY Lease DEF TickFail, At, HoldingSteps
<1>2. UNCHANGED late
  BY NoCallOutlives DEF TickFail, FailJob, NoAnswer, cpVars, LInv
<1>3. FailJob(Identity(p), j, r) \/ UNCHANGED jobs
  BY <1>1, NoCallOutlives DEF TickFail, NoAnswer, cpVars, LInv
<1>4. \A q \in Procs : q # p => Undisturbed(q)
  BY <1>3, SameJobs, FailDisturbsNone DEF WInv
<1>5. TicksOK'
  BY <1>4, EndKeepsTicks DEF TickFail
<1> QED BY <1>2, <1>5 DEF LInv, NoneLate

LEMMA TimeKeeps ==
  ASSUME WInv, LInv, CPInv', NEW j \in Slots,
         LeaseExpires(j) \/ LeaseExpiresUnderHolder(j)
  PROVE  LInv'
<1>1. UNCHANGED late /\ LeaseLapses(j)
  BY DEF LeaseExpires, LeaseExpiresUnderHolder, LeaseLapses
<1> SUFFICES TicksOK'
  BY <1>1 DEF LInv, NoneLate
<1>2. CASE LeaseExpires(j)
  BY <1>1, <1>2, LapseKeepsTicks DEF LeaseExpires, Unattended
<1>3. CASE LeaseExpiresUnderHolder(j)
  <2>1. ASSUME NEW q \in Procs
        PROVE  /\ proc'[q].pc = proc[q].pc
               /\ proc'[q].job = proc[q].job
               /\ proc'[q].att = proc[q].att
               /\ Engaged(proc'[q]) => Engaged(proc[q]) /\ ~Attends(q, j)
    <3>1. /\ proc[q] \in Ticks
          /\ proc'[q] = [proc[q] EXCEPT !.slept = proc[q].slept \/ Attends(q, j)]
      BY <1>3, JobKnown DEF LeaseExpiresUnderHolder
    <3>2. /\ proc'[q].pc = proc[q].pc /\ proc'[q].job = proc[q].job
          /\ proc'[q].att = proc[q].att /\ proc'[q].renewer = proc[q].renewer
          /\ proc'[q].slept = (proc[q].slept \/ Attends(q, j))
      BY <3>1 DEF Ticks
    <3> QED BY <3>2, Zenon DEF Engaged
  <2> QED BY <1>1, <2>1, LapseKeepsTicks
<1> QED BY <1>2, <1>3

\* Steps that leave every process alone.
LEMMA OutsideKeeps ==
  ASSUME WInv, LInv, CPInv', UNCHANGED <<proc, late>>,
         \A q \in Procs : Undisturbed(q)
  PROVE  LInv'
<1>1. \A q \in Procs : Carries(proc'[q], proc[q])
  BY TicksOKEach DEF LInv, TickOK, Carries
<1>2. \A q \in Procs : TickOK(q)'
  BY <1>1, StillOK
<1>3. AttemptsApart'
  BY DEF LInv, TicksOK, AttemptsApart
<1> QED BY <1>2, <1>3, TicksOKEach DEF LInv, NoneLate

LEMMA FencedStep ==
  ASSUME WInv, LInv, CPInv', Fenced, [Next]_vars
  PROVE  LInv'
<1>1. CASE UNCHANGED vars
  BY <1>1, OutsideKeeps, SameJobs DEF vars, cpVars, WInv
<1>2. CASE Clock
  BY <1>2, OutsideKeeps, SameJobs DEF Clock, ClockAdvances, WInv
<1>3. ASSUME NEW j \in Slots, Backoff(j)
      PROVE  LInv'
  BY <1>3, OutsideKeeps, BackoffDisturbsNone DEF Backoff, BackoffElapses, WInv
<1>4. ~ \E c \in late : LateExecution(c)
  BY DEF LInv, NoneLate
<1>5. ASSUME NEW p \in Procs,
             \/ TickStart(p) \/ HeartbeatOnline(p) \/ HeartbeatBusy(p) \/ Generate(p)
             \/ HeartbeatDone(p) \/ Crash(p) \/ RenewalBreaks(p)
      PROVE  LInv'
  <2>1. UNCHANGED <<jobs, late>>
    BY <1>5 DEF TickStart, HeartbeatOnline, HeartbeatBusy, Generate, HeartbeatDone,
                Crash, RenewalBreaks, cpVars
  <2> QED BY <1>5, <2>1, QuietStep
<1> QED BY <1>1, <1>2, <1>3, <1>4, <1>5, TimeKeeps, PublishKeeps, LeaseKeeps,
           SubmitKeeps, MaterializeKeeps, FailKeeps
        DEF Next, TickStep

-----------------------------------------------------------------------------
(* The theorems.                                                           *)

LEMMA LInit == Init => LInv
<1> SUFFICES ASSUME Init PROVE LInv
  OBVIOUS
<1>1. \A p \in Procs : proc[p] = Idle
  BY DEF Init
<1>2. Idle.job = 0 /\ ~Engaged(Idle)
  BY DEF Idle, Engaged
<1>3. TicksOK
  BY <1>1, <1>2 DEF TicksOK, JobNamedWhenHeld, AttemptsApart, AttemptsPast,
                    HeldAsHanded, EngagedSecured
<1>4. NoneLate
  BY DEF Init, NoneLate
<1> QED BY <1>3, <1>4 DEF LInv

LEMMA LNext ==
  ASSUME Fenced
  PROVE  WInv /\ LInv /\ [Next]_vars => LInv'
<1> SUFFICES ASSUME WInv, LInv, [Next]_vars PROVE LInv'
  OBVIOUS
<1>1. CPInv'
  BY WNext DEF WInv
<1> QED BY <1>1, FencedStep

LEMMA FencedInductive ==
  ASSUME Fenced
  PROVE  Spec => [](WInv /\ LInv)
BY LInit, LNext, Inductive, PTL DEF Spec

\* Of two ticks past ensure_healthy for the same job, one was suspended beyond its
\* lease: each of them renewed a lease the other was not handed.
THEOREM SubmissionExclusive ==
  ASSUME Fenced
  PROVE  Spec => []ExclusiveSubmission
<1>1. WInv /\ LInv => ExclusiveSubmission
  <2> SUFFICES ASSUME WInv, LInv, NEW p \in Procs, NEW q \in Procs, p # q,
                      {proc[p].pc, proc[q].pc} \subseteq
                        {"submit", "resubmit", "materialize", "rematerialize"},
                      proc[p].job = proc[q].job, ~proc[p].slept, ~proc[q].slept
               PROVE  FALSE
    BY DEF ExclusiveSubmission
  <2>1. Engaged(proc[p]) /\ Engaged(proc[q])
    BY DEF Engaged
  <2>2. proc[p].att = proc[q].att
    BY <2>1 DEF LInv, TicksOK, EngagedSecured
  <2>3. proc[p].job # 0
    BY <2>1, JobKnown, ControlPlaneAssumption
  <2> QED BY <2>2, <2>3 DEF LInv, TicksOK, AttemptsApart
<1> QED BY <1>1, FencedInductive, PTL

\* A live lease ends in failed or dead_letter only by the fail_job of the tick that
\* was handed it.
LEMMA OnlyFailJobFails ==
  ASSUME WInv, LInv, Fenced, [Next]_vars, NEW j \in Slots, jobs[j].status = "leased",
         jobs'[j].status \in {"failed", "dead_letter"}
  PROVE  \E q \in Procs :
           /\ proc[q].job = j /\ proc[q].att = jobs[j].attempts
           /\ EndTick(q)
<1>1. jobs'[j] # jobs[j]
  OBVIOUS
<1>2. ASSUME NEW w \in WorkerIds, NEW k \in Slots, LeaseGranted(w, k)
      PROVE  FALSE
  BY <1>1, <1>2, LeaseKeepsLeases DEF WInv
<1>3. ~NoJobToLease
  BY <1>1 DEF NoJobToLease, Swept
<1>4. ASSUME NEW w \in WorkerIds, NEW k \in Slots, NEW a \in Attempts,
             MaterializeEdition(w, k, a)
      PROVE  FALSE
  BY <1>1, <1>4 DEF MaterializeEdition, WInv, CPInv, CPTypeOK, JobRows
<1>5. ASSUME NEW k \in Slots, LeaseLapses(k) \/ BackoffElapses(k)
      PROVE  FALSE
  BY <1>5 DEF LeaseLapses, BackoffElapses, WInv, CPInv, CPTypeOK, JobRows
<1>6. PICK p \in Procs : TickFail(p)
  <2>1. \A p \in Procs : Identity(p) \in WorkerIds
    BY WorkerAssumption DEF Identity
  <2>2. ASSUME NEW p \in Procs, TickLease(p) PROVE FALSE
    BY <1>1, <1>2, <1>3, <2>1, <2>2, NoCallOutlives DEF TickLease, NoAnswer, cpVars, LInv
  <2>3. ASSUME NEW p \in Procs, Materialize(p) PROVE FALSE
    <3>1. PICK w \in WorkerIds, k \in Slots, a \in Attempts :
            w = Identity(p) /\ k = proc[p].job /\ a = proc[p].run
      BY <2>3, Lease DEF Materialize, At, HoldingSteps, WInv, LocalOK, LeaseKnown
    <3>2. MaterializeEdition(w, k, a) \/ UNCHANGED jobs
      BY <2>3, <3>1, NoCallOutlives DEF Materialize, NoAnswer, cpVars, LInv
    <3> QED BY <1>1, <1>4, <3>2
  <2>4. ASSUME NEW p \in Procs, Submit(p) PROVE FALSE
    BY <1>1, <2>4, NoCallOutlives DEF Submit, SubmitRun, NoAnswer, cpVars, LInv
  <2>5. ASSUME NEW p \in Procs, TickPublish(p) \/ Republish(p) PROVE FALSE
    BY <1>1, <2>5, NoCallOutlives
    DEF TickPublish, Republish, PublishNext, NoAnswer, cpVars, LInv
  <2>6. ASSUME NEW p \in Procs,
               \/ TickStart(p) \/ HeartbeatOnline(p) \/ HeartbeatBusy(p) \/ Generate(p)
               \/ HeartbeatDone(p) \/ Crash(p) \/ RenewalBreaks(p)
        PROVE FALSE
    BY <1>1, <2>6 DEF TickStart, HeartbeatOnline, HeartbeatBusy, Generate, HeartbeatDone,
                      Crash, RenewalBreaks, cpVars
  <2>7. ASSUME NEW k \in Slots, LeaseExpires(k) \/ LeaseExpiresUnderHolder(k) \/ Backoff(k)
        PROVE FALSE
    BY <1>5, <2>7 DEF LeaseExpires, LeaseExpiresUnderHolder, Backoff
  <2>8. ~Clock /\ ~UNCHANGED vars /\ ~ \E c \in late : LateExecution(c)
    BY <1>1 DEF Clock, ClockAdvances, vars, cpVars, LInv, NoneLate
  <2> QED BY <2>2, <2>3, <2>4, <2>5, <2>6, <2>7, <2>8 DEF Next, TickStep
<1>7. PICK k \in Slots, r \in BOOLEAN : k = proc[p].job /\ r = At(p, "fail_retryable")
  BY <1>6, Lease DEF TickFail, At, HoldingSteps
<1>8. FailJob(Identity(p), k, r)
  BY <1>1, <1>6, <1>7, NoCallOutlives DEF TickFail, NoAnswer, cpVars, LInv
<1>9. k = j
  BY <1>1, <1>8 DEF FailJob, WInv, CPInv, CPTypeOK
<1>10. proc[p].att = jobs[j].attempts
  <2>1. Holds(Identity(p), j) /\ proc[p].job = j /\ j # 0
    BY <1>7, <1>8, <1>9 DEF FailJob
  <2> QED BY <2>1 DEF LInv, TicksOK, HeldAsHanded, Holds
<1> QED BY <1>6, <1>7, <1>9, <1>10 DEF TickFail

\* fail_gazzetta_job takes a live lease only from the tick that gives it up, never
\* from one that still works under it.
THEOREM FailuresOwn ==
  ASSUME Fenced
  PROVE  Spec => NoStaleFailure
<1>1. WInv /\ LInv /\ [Next]_vars =>
        [\A j \in Slots, p \in Procs :
           (/\ jobs[j].status = "leased"
            /\ jobs'[j].status \in {"failed", "dead_letter"}
            /\ proc[p].job = j
            /\ proc[p].att = jobs[j].attempts) => proc'[p] = Idle]_vars
  <2> SUFFICES ASSUME WInv, LInv, [Next]_vars, NEW j \in Slots, NEW p \in Procs,
                      jobs[j].status = "leased",
                      jobs'[j].status \in {"failed", "dead_letter"},
                      proc[p].job = j, proc[p].att = jobs[j].attempts
               PROVE  proc'[p] = Idle
    OBVIOUS
  <2>1. PICK q \in Procs : /\ proc[q].job = j /\ proc[q].att = jobs[j].attempts
                           /\ EndTick(q)
    BY OnlyFailJobFails
  <2>2. p = q
    BY <2>1, ControlPlaneAssumption DEF LInv, TicksOK, AttemptsApart
  <2> QED BY <2>1, <2>2 DEF EndTick, WInv, LocalOK
<1> QED BY <1>1, FencedInductive, PTL DEF Spec, NoStaleFailure
=============================================================================
