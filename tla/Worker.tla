------------------------------- MODULE Worker -------------------------------
(***************************************************************************)
(* The Gazzetta worker (worker/runner.py) run by the deployed processes -- *)
(* the oneshot unit the systemd timer starts every minute and the API      *)
(* process that serves POST /v1/internal/tick -- against one control       *)
(* plane, over the RPC adapter of storage/supabase.py.                     *)
(*                                                                         *)
(* A tick is the sequence of RPCs of _tick_serialized and _generate; each  *)
(* RPC is one step of its process.  A call that gets no answer may or may  *)
(* not have been executed, and may still be executed later (late): _rpc    *)
(* treats them all alike.  A process may be killed at any step; what it    *)
(* held is gone, what the control plane committed stays.                   *)
(***************************************************************************)
EXTENDS ControlPlane

CONSTANTS
  Procs,            \* the processes that run ticks
  Timer,            \* the one systemd starts again and again
  WorkerId,         \* process -> the worker id it identifies itself with
  StallsPossible,   \* may a process be suspended longer than its lease?
  MaxFaults,        \* bound: faults injected (lost calls, failures, kills)
  MaxLate           \* bound: unanswered calls still to be executed

ASSUME WorkerAssumption ==
  /\ Timer \in Procs
  /\ WorkerId \in [Procs -> WorkerIds]
  /\ StallsPossible \in BOOLEAN
  /\ MaxFaults \in Nat
  /\ MaxLate \in Nat

VARIABLES
  proc,    \* process -> the state of its tick
  late,    \* unanswered calls the control plane has yet to execute
  faults   \* faults injected so far

vars == <<cpVars, proc, late, faults>>

(***************************************************************************)
(* A tick is at the call it is about to make.  job and att are the lease   *)
(* it holds (0: none), run the identifier submit_run returned (the attempt *)
(* the control plane recorded it under), renewer the LeaseRenewer thread:  *)
(* broken once a renewal failed and ensure_healthy will raise.  slept is   *)
(* history: the process was suspended until the lease it kept had lapsed.  *)
(***************************************************************************)
Steps == {"idle", "online", "publish", "lease", "busy", "generate",
          "submit", "resubmit", "materialize", "rematerialize",
          "done", "republish", "fail_retryable", "fail_terminal"}

Ticks == [pc : Steps, job : 0..MaxSlot, att : 0..MaxAttempts,
          run : 0..MaxAttempts, renewer : {"off", "running", "broken"},
          emergency : BOOLEAN, slept : BOOLEAN]

Idle == [pc |-> "idle", job |-> 0, att |-> 0, run |-> 0, renewer |-> "off",
         emergency |-> FALSE, slept |-> FALSE]

\* publish_next and lease_next name no job (0).
Calls == [op : {"publish", "lease", "submit", "materialize", "fail_retryable",
                "fail_terminal"},
          worker : WorkerIds, job : 0..MaxSlot, arg : 0..MaxAttempts]

TypeOK ==
  /\ CPTypeOK
  /\ proc \in [Procs -> Ticks]
  /\ late \subseteq Calls
  /\ faults \in 0..MaxFaults

Init ==
  /\ CPInit
  /\ proc = [p \in Procs |-> Idle]
  /\ late = {}
  /\ faults = 0

-----------------------------------------------------------------------------
(* Helpers.                                                                *)

\* Mutants: a process without an id of its own has none; every process keeps the
\* default one.
IdentityUnset(p) == NoWorker
IdentityDefault(p) == CHOOSE w \in WorkerIds : TRUE

\* The worker id a process states in its RPCs.
Identity(p) == WorkerId[p]

At(p, step) == proc[p].pc = step
Goto(p, step) == proc' = [proc EXCEPT ![p].pc = step]

\* Mutant: the renewer of a job survives its tick.
EndTickStillRenewing(p) == Goto(p, "idle")

EndTick(p) == proc' = [proc EXCEPT ![p] = Idle]

\* Leaving the with block stops the renewer, whatever it had found.
GoFail(p, step) ==
  proc' = [proc EXCEPT ![p].pc = step, ![p].renewer = "off"]

Fault == faults < MaxFaults /\ faults' = faults + 1
NoFault == UNCHANGED faults

\* _rpc raises ProviderUnavailable: the call was executed and the answer lost,
\* or it never arrived.
NoAnswer(Executed) ==
  /\ Fault
  /\ Executed \/ UNCHANGED cpVars
  /\ UNCHANGED late

\* ... or it will be executed after the caller has given up on it.
NoAnswerYet(call) ==
  /\ Fault
  /\ Cardinality(late) < MaxLate
  /\ late' = late \cup {call}
  /\ UNCHANGED cpVars

Call(op, p, arg) ==
  [op |-> op, worker |-> Identity(p), job |-> proc[p].job, arg |-> arg]

-----------------------------------------------------------------------------
(* The tick up to the lease.                                               *)

\* Not while the process already runs one: that tick returns tick_in_progress.
TickStart(p) ==
  /\ At(p, "idle")
  /\ Goto(p, "online")
  /\ UNCHANGED <<cpVars, late, faults>>

\* _heartbeat("online"), outside any try: when it raises, the tick ends.
HeartbeatOnline(p) ==
  /\ At(p, "online")
  /\ \/ Goto(p, "publish") /\ NoFault
     \/ EndTick(p) /\ Fault
  /\ UNCHANGED <<cpVars, late>>

\* Mutant: an empty queue ends the tick like any other failure.
EmergencyIgnored(p) == EndTick(p)

\* _emergency_fallback leases and generates before publishing again.
EmergencyBegins(p) ==
  proc' = [proc EXCEPT ![p].pc = "lease", ![p].emergency = TRUE]

\* publish_next: an edition ends the tick; an empty queue at a due slot is the
\* emergency, nothing due the ordinary way to lease_next.
TickPublish(p) ==
  /\ At(p, "publish")
  /\ \/ PublishNext /\ EndTick(p) /\ NoFault /\ UNCHANGED late
     \/ /\ QueueEmpty
        /\ EmergencyBegins(p)
        /\ NoFault
        /\ UNCHANGED <<cpVars, late>>
     \/ ~Due /\ Goto(p, "lease") /\ NoFault /\ UNCHANGED <<cpVars, late>>
     \/ /\ NoAnswer(PublishNext) \/ NoAnswerYet(Call("publish", p, 0))
        /\ EndTick(p)

\* lease_next, outside any try as well.  One executed late leases the job to a
\* process that does not know, and may meanwhile run another tick.
TickLease(p) ==
  /\ At(p, "lease")
  /\ \/ \E j \in Slots :
          /\ LeaseGranted(Identity(p), j)
          /\ proc' = [proc EXCEPT ![p].pc = "busy", ![p].job = j,
                                  ![p].att = jobs'[j].attempts]
          /\ NoFault
          /\ UNCHANGED late
     \/ NoJobToLease /\ EndTick(p) /\ NoFault /\ UNCHANGED late
     \/ /\ \/ NoAnswer(\/ \E j \in Slots : LeaseGranted(Identity(p), j)
                       \/ NoJobToLease)
           \/ NoAnswerYet(Call("lease", p, 0))
        /\ EndTick(p)

\* _heartbeat("busy"), before the try of _generate: when it raises, the tick
\* ends with the job still leased and no fail_job.
HeartbeatBusy(p) ==
  /\ At(p, "busy")
  /\ \/ /\ proc' = [proc EXCEPT ![p].pc = "generate", ![p].renewer = "running"]
        /\ NoFault
     \/ EndTick(p) /\ Fault
  /\ UNCHANGED <<cpVars, late>>

-----------------------------------------------------------------------------
(* _generate: execute, submit, materialize, or fail the job.               *)

\* Mutant: the renewer's error is not looked at.
HealthAssumed(p) == TRUE

\* ensure_healthy lets the tick go on only while every renewal succeeded.
Healthy(p) == proc[p].renewer = "running"

Generate(p) ==
  /\ At(p, "generate")
  /\ \/ Healthy(p) /\ Goto(p, "submit") /\ NoFault
     \/ ~Healthy(p) /\ GoFail(p, "fail_retryable") /\ NoFault
     \/ GoFail(p, "fail_retryable") /\ Fault
     \/ GoFail(p, "fail_terminal") /\ Fault
  /\ UNCHANGED <<cpVars, late>>

\* Mutant: a second lost answer is taken for success.
AfterNoAnswerOptimistic(p, first, retry) ==
  Goto(p, IF At(p, first) THEN retry
          ELSE IF first = "submit" THEN "materialize" ELSE "done")

\* The adapter repeats the call once; the second failure reaches _generate.
AfterNoAnswer(p, first, retry) ==
  IF At(p, first) THEN Goto(p, retry) ELSE GoFail(p, "fail_retryable")

\* submit_run: once more after ProviderUnavailable, then ensure_healthy.
Submit(p) ==
  LET w == Identity(p)  j == proc[p].job  gen == proc[p].att
  IN /\ At(p, "submit") \/ At(p, "resubmit")
     /\ \/ /\ SubmitRun(w, j, gen)
           /\ IF Healthy(p)
              THEN proc' = [proc EXCEPT ![p].pc = "materialize",
                                        ![p].run = jobs[j].attempts]
              ELSE GoFail(p, "fail_retryable")
           /\ NoFault
           /\ UNCHANGED late
        \/ /\ ~CanSubmit(w, j, gen)
           /\ GoFail(p, "fail_retryable")
           /\ NoFault
           /\ UNCHANGED <<cpVars, late>>
        \/ /\ NoAnswer(SubmitRun(w, j, gen)) \/ NoAnswerYet(Call("submit", p, gen))
           /\ AfterNoAnswer(p, "submit", "resubmit")

\* materialize: the same, with the run's identifier.
Materialize(p) ==
  LET w == Identity(p)  j == proc[p].job  a == proc[p].run
  IN /\ At(p, "materialize") \/ At(p, "rematerialize")
     /\ \/ /\ MaterializeEdition(w, j, a)
           /\ proc' = [proc EXCEPT ![p].pc = "done", ![p].renewer = "off"]
           /\ NoFault
           /\ UNCHANGED late
        \/ /\ ~CanMaterialize(w, j, a)
           /\ GoFail(p, "fail_retryable")
           /\ NoFault
           /\ UNCHANGED <<cpVars, late>>
        \/ /\ \/ NoAnswer(MaterializeEdition(w, j, a))
              \/ NoAnswerYet(Call("materialize", p, a))
           /\ AfterNoAnswer(p, "materialize", "rematerialize")

\* What follows materialize is still inside the try: when _heartbeat("online")
\* (or a telemetry emit) raises, fail_job is called for a job that succeeded.
HeartbeatDone(p) ==
  /\ At(p, "done")
  /\ \/ /\ IF proc[p].emergency THEN Goto(p, "republish") ELSE EndTick(p)
        /\ NoFault
     \/ GoFail(p, "fail_retryable") /\ Fault
     \/ GoFail(p, "fail_terminal") /\ Fault
  /\ UNCHANGED <<cpVars, late>>

\* fail_job with its errors suppressed: the tick ends whatever came of it.
TickFail(p) ==
  LET w == Identity(p)  j == proc[p].job  retryable == At(p, "fail_retryable")
  IN /\ At(p, "fail_retryable") \/ At(p, "fail_terminal")
     /\ EndTick(p)
     /\ \/ FailJob(w, j, retryable) /\ NoFault /\ UNCHANGED late
        \/ ~Holds(w, j) /\ NoFault /\ UNCHANGED <<cpVars, late>>
        \/ NoAnswer(FailJob(w, j, retryable))
        \/ NoAnswerYet(Call(proc[p].pc, p, 0))

\* The second publish_next of _emergency_fallback; every outcome ends the tick.
Republish(p) ==
  /\ At(p, "republish")
  /\ EndTick(p)
  /\ \/ PublishNext /\ NoFault /\ UNCHANGED late
     \/ (QueueEmpty \/ ~Due) /\ NoFault /\ UNCHANGED <<cpVars, late>>
     \/ NoAnswer(PublishNext)
     \/ NoAnswerYet(Call("publish", p, 0))

-----------------------------------------------------------------------------
(* The renewer thread, the lease clock and the ways a process ends.        *)

\* One failed or rejected renewal ends the renewing for good.
RenewalBreaks(p) ==
  /\ proc[p].renewer = "running"
  /\ \/ ~Holds(Identity(p), proc[p].job) /\ NoFault
     \/ Fault
  /\ proc' = [proc EXCEPT ![p].renewer = "broken"]
  /\ UNCHANGED <<cpVars, late>>

\* p keeps the lease of j alive.  Only execute lasts long enough for a lease that
\* is no longer renewed to lapse while its process is running.
Attends(p, j) ==
  /\ proc[p].job = j
  /\ Identity(p) = jobs[j].holder
  /\ ~(At(p, "generate") /\ proc[p].renewer = "broken")

Unattended(j) == \A p \in Procs : ~Attends(p, j)

LeaseExpires(j) ==
  /\ LeaseLapses(j)
  /\ Unattended(j)
  /\ UNCHANGED <<proc, late, faults>>

\* The process that renews the lease is suspended (SIGSTOP, a sleeping host).
LeaseExpiresUnderHolder(j) ==
  /\ StallsPossible
  /\ LeaseLapses(j)
  /\ ~Unattended(j)
  /\ proc' = [p \in Procs |-> [proc[p] EXCEPT !.slept = @ \/ Attends(p, j)]]
  /\ Fault
  /\ UNCHANGED late

\* Killed by TimeoutStartSec, a reboot or an exception that escapes.
Crash(p) ==
  /\ ~At(p, "idle")
  /\ Fault
  /\ EndTick(p)
  /\ UNCHANGED <<cpVars, late>>

\* An unanswered call is executed, or rejected, with nobody waiting for it.
Execution(c) ==
  \/ c.op = "publish" /\ PublishNext
  \/ /\ c.op = "lease"
     /\ (\E j \in Slots : LeaseGranted(c.worker, j)) \/ NoJobToLease
  \/ c.op = "submit" /\ SubmitRun(c.worker, c.job, c.arg)
  \/ c.op = "materialize" /\ MaterializeEdition(c.worker, c.job, c.arg)
  \/ c.op = "fail_retryable" /\ FailJob(c.worker, c.job, TRUE)
  \/ c.op = "fail_terminal" /\ FailJob(c.worker, c.job, FALSE)

LateExecution(c) ==
  /\ Execution(c) \/ UNCHANGED cpVars
  /\ late' = late \ {c}
  /\ UNCHANGED <<proc, faults>>

Backoff(j) == BackoffElapses(j) /\ UNCHANGED <<proc, late, faults>>
Clock == ClockAdvances /\ UNCHANGED <<proc, late, faults>>

-----------------------------------------------------------------------------
TickStep(p) ==
  \/ HeartbeatOnline(p) \/ TickPublish(p) \/ TickLease(p) \/ HeartbeatBusy(p)
  \/ Generate(p) \/ Submit(p) \/ Materialize(p) \/ HeartbeatDone(p)
  \/ TickFail(p) \/ Republish(p)

Next ==
  \/ \E p \in Procs :
       TickStart(p) \/ TickStep(p) \/ RenewalBreaks(p) \/ Crash(p)
  \/ \E j \in Slots :
       LeaseExpires(j) \/ LeaseExpiresUnderHolder(j) \/ Backoff(j)
  \/ \E c \in late : LateExecution(c)
  \/ Clock

Spec == Init /\ [][Next]_vars

(***************************************************************************)
(* Every call returns or times out, so a tick that has begun goes on; the  *)
(* timer fires every minute; leases lapse and backoffs end with time.      *)
(***************************************************************************)
Fairness ==
  /\ \A p \in Procs : WF_vars(TickStep(p))
  /\ WF_vars(TickStart(Timer))
  /\ \A j \in Slots : WF_vars(LeaseExpires(j)) /\ WF_vars(Backoff(j))

FairSpec == Spec /\ Fairness

-----------------------------------------------------------------------------
(* Safety.                                                                 *)

\* No job ever yields two editions, whatever was retried, lost, executed late
\* or run twice (SDS 14.4).
OneEditionPerJob ==
  \A i, k \in DOMAIN editions : editions[i].job = editions[k].job => i = k

\* The published issues are exactly 1..current: nothing is skipped or taken
\* back, and the edition on show is the last one published.
ArchiveInOrder ==
  /\ current <= Len(editions)
  /\ \A i \in DOMAIN editions : editions[i].status = "published" <=> i <= current

\* A tick goes past materialize only when its job has succeeded for good: the
\* doubled call never turns a lost answer into a false success.
MaterializedIsDurable ==
  \A p \in Procs : proc[p].pc \in {"done", "republish"} =>
    jobs[proc[p].job].status = "succeeded"

\* A succeeded job stays so, although the heartbeat after materialize can make
\* the same tick fail it.
SuccessIsFinal ==
  [][\A j \in Slots : jobs[j].status = "succeeded" => jobs'[j] = jobs[j]]_vars

\* An edition carries the content of the lease under which its job succeeded,
\* not that of an earlier one (SDS 13.4).
LeasedContent ==
  \A i \in DOMAIN editions : editions[i].gen = jobs[editions[i].job].attempts

\* Two processes are past ensure_healthy for the same job only when one of them was
\* suspended beyond its lease: no failed renewal, lost call or kill brings it about,
\* which is what the LeaseRenewer is for (SDS 14.4).
ExclusiveSubmission ==
  \A p, q \in Procs :
    (/\ p # q
     /\ {proc[p].pc, proc[q].pc} \subseteq
          {"submit", "resubmit", "materialize", "rematerialize"}
     /\ proc[p].job = proc[q].job)
      => proc[p].slept \/ proc[q].slept

\* fail_job never takes a job away from a process that still works under the
\* job's live lease.
NoStaleFailure ==
  [][\A j \in Slots, p \in Procs :
       (/\ jobs[j].status = "leased"
        /\ jobs'[j].status \in {"failed", "dead_letter"}
        /\ proc[p].job = j
        /\ proc[p].att = jobs[j].attempts) => proc'[p] = Idle]_vars

(* Refinement.                                                             *)
Promise == INSTANCE Gazette WITH
  Jobs <- Slots,
  archive <- [i \in DOMAIN editions |-> editions[i].job],
  lastSlot <- nextDue - 1

ImplementsGazette == Promise!Spec

(* Liveness, when faults stop and slots remain.                            *)

\* A due slot is eventually served, from the queue or by the emergency path.
DueSlotServed == Due ~> ~Due

\* A lease nobody works under any more is eventually taken over or closed.
LeaseRecovered ==
  \A j \in Slots, a \in Attempts :
    (jobs[j].status \in {"leased", "expired"} /\ jobs[j].attempts = a)
      ~> ~(jobs[j].status \in {"leased", "expired"} /\ jobs[j].attempts = a)
=============================================================================
