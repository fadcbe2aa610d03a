---------------------------- MODULE ControlPlane ----------------------------
(***************************************************************************)
(* The Supabase control plane the worker talks to: the generation queue,   *)
(* its leases, the submitted runs, the editions and the publication        *)
(* cursor.  Its SQL lives in another repository, so every definition here  *)
(* is external: it is what SDS sections 13-14, the migration contract test *)
(* and the RPC adapter of src/ rely on.  Each RPC is one transaction and   *)
(* is modelled as one action; a rejected RPC (HTTP 400/403/409) changes    *)
(* nothing, so it appears only as the negation of a guard.                 *)
(*                                                                         *)
(* A job is known by its schedule slot, an attempt by its number: every    *)
(* lease increments attempt_count, so <<slot, attempt>> names one lease    *)
(* and the content generated under it.  A status of "leased" stands for    *)
(* leased or running with lease_expires_at in the future, "expired" for    *)
(* the same row once that instant has passed; "failed" for a failed row    *)
(* whose available_at is still to come, "queued" for a queued row or a     *)
(* failed one that has become available again.                             *)
(***************************************************************************)
EXTENDS Naturals, Sequences, FiniteSets

CONSTANTS
  WorkerIds,         \* values of GAZZETTA_WORKER_ID in use
  NoWorker,          \* leased_by is null
  MaxAttempts,       \* gazzetta_engine_state.max_job_attempts
  QueueDepthTarget,  \* gazzetta_engine_state.queue_depth_target
  MaxSlot,           \* bound: schedule slots the model ever creates jobs for
  Horizon            \* bound: publication slots the model's clock passes

ASSUME ControlPlaneAssumption ==
  /\ NoWorker \notin WorkerIds
  /\ MaxAttempts \in Nat \ {0}
  /\ QueueDepthTarget \in Nat \ {0}
  /\ MaxSlot \in Nat \ {0}
  /\ Horizon \in Nat

VARIABLES
  jobs,      \* slot -> [status, attempts, holder]
  cursor,    \* next_generation_slot
  runs,      \* slot -> attempt -> the attempt whose content it holds, 0 if none
  editions,  \* issue_number -> [job, run, gen, status]
  current,   \* issue_number with is_current, 0 before the first publication
  nextDue,   \* next_due_at, in publication slots
  now        \* the publication slot the clock is in

cpVars == <<jobs, cursor, runs, editions, current, nextDue, now>>

Slots == 1..MaxSlot
Attempts == 1..MaxAttempts
Statuses == {"absent", "queued", "leased", "expired", "failed",
             "succeeded", "dead_letter"}

JobRows == [status : Statuses, attempts : 0..MaxAttempts,
            holder : WorkerIds \cup {NoWorker}]

EditionRows == [job : Slots, run : Attempts, gen : Attempts,
                status : {"validated", "published"}]

CPTypeOK ==
  /\ jobs \in [Slots -> JobRows]
  /\ cursor \in 1..(MaxSlot + 1)
  /\ runs \in [Slots -> [Attempts -> 0..MaxAttempts]]
  /\ editions \in Seq(EditionRows)
  /\ current \in Nat
  /\ nextDue \in Nat \ {0}
  /\ now \in 0..Horizon

CPInit ==
  /\ jobs = [j \in Slots |->
               [status |-> "absent", attempts |-> 0, holder |-> NoWorker]]
  /\ cursor = 1
  /\ runs = [j \in Slots |-> [a \in Attempts |-> 0]]
  /\ editions = << >>
  /\ current = 0
  /\ nextDue = 1
  /\ now = 0

-----------------------------------------------------------------------------
(***************************************************************************)
(* lease_next_gazzetta_job.  An expired lease whose attempts are used up   *)
(* becomes dead_letter.  While fewer than QueueDepthTarget editions are    *)
(* validated, a job may be created at the generation cursor, and must be   *)
(* when nothing else can be leased (the adapter does not tell whether open *)
(* jobs count, so both are possible).  The ready job of the lowest slot is *)
(* leased and its attempt counted.                                         *)
(***************************************************************************)
Depth == Cardinality({i \in DOMAIN editions : editions[i].status = "validated"})

Swept == [j \in Slots |->
            IF jobs[j].status = "expired" /\ jobs[j].attempts = MaxAttempts
            THEN [jobs[j] EXCEPT !.status = "dead_letter", !.holder = NoWorker]
            ELSE jobs[j]]

MayCreate == Depth < QueueDepthTarget /\ cursor <= MaxSlot

Pool(create) == IF create THEN [Swept EXCEPT ![cursor].status = "queued"]
                          ELSE Swept

Ready(create) ==
  {j \in Slots : /\ Pool(create)[j].status \in {"queued", "expired"}
                 /\ Pool(create)[j].attempts < MaxAttempts}

QueueStep(create) ==
  /\ create => MayCreate
  /\ cursor' = IF create THEN cursor + 1 ELSE cursor
  /\ UNCHANGED <<runs, editions, current, nextDue, now>>

LeaseGranted(w, j) ==
  \E create \in BOOLEAN :
    /\ QueueStep(create)
    /\ j \in Ready(create)
    /\ \A k \in Ready(create) : j <= k
    /\ jobs' = [Pool(create) EXCEPT
                  ![j] = [status |-> "leased", attempts |-> @.attempts + 1,
                          holder |-> w]]

NoJobToLease ==
  /\ ~MayCreate
  /\ Ready(FALSE) = {}
  /\ QueueStep(FALSE)
  /\ jobs' = Swept

-----------------------------------------------------------------------------
(***************************************************************************)
(* The RPCs of a leased job.  They identify the caller by its worker id    *)
(* alone: neither submit_gazzetta_run nor fail_gazzetta_job carries the    *)
(* attempt number of the lease.                                            *)
(***************************************************************************)
Holds(w, j) == jobs[j].status = "leased" /\ jobs[j].holder = w

\* submit_gazzetta_run: unique on (job_id, attempt_count); the same content
\* again is the same run, other content is attempt_content_conflict.
CanSubmit(w, j, gen) ==
  /\ Holds(w, j)
  /\ runs[j][jobs[j].attempts] \in {0, gen}

SubmitRun(w, j, gen) ==
  /\ CanSubmit(w, j, gen)
  /\ runs' = [runs EXCEPT ![j][jobs[j].attempts] = gen]
  /\ UNCHANGED <<jobs, cursor, editions, current, nextDue, now>>

\* materialize_gazzetta_edition: the snapshot of the run's edition if it has
\* one already, otherwise the next issue_number for the run of the held lease.
Materialized(j, a) ==
  \E i \in DOMAIN editions : editions[i].job = j /\ editions[i].run = a

CanMaterialize(w, j, a) ==
  \/ Materialized(j, a)
  \/ Holds(w, j) /\ a = jobs[j].attempts /\ runs[j][a] # 0

\* Mutant: the edition is stored but the job is not completed with it.
MaterializeLeavingJobOpen(w, j, a) ==
  /\ CanMaterialize(w, j, a)
  /\ editions' = IF Materialized(j, a) THEN editions
                 ELSE Append(editions, [job |-> j, run |-> a,
                                        gen |-> runs[j][a],
                                        status |-> "validated"])
  /\ UNCHANGED <<jobs, cursor, runs, current, nextDue, now>>

MaterializeEdition(w, j, a) ==
  /\ CanMaterialize(w, j, a)
  /\ IF Materialized(j, a)
     THEN UNCHANGED <<jobs, editions>>
     ELSE /\ editions' = Append(editions, [job |-> j, run |-> a,
                                           gen |-> runs[j][a],
                                           status |-> "validated"])
          /\ jobs' = [jobs EXCEPT ![j].status = "succeeded",
                                  ![j].holder = NoWorker]
  /\ UNCHANGED <<cursor, runs, current, nextDue, now>>

\* fail_gazzetta_job: back to the queue after a delay while attempts remain.
\* Mutant: the job is failed whatever has become of it.
FailJobUnguarded(w, j, retryable) ==
  /\ jobs' = [jobs EXCEPT ![j].status = "failed", ![j].holder = NoWorker]
  /\ UNCHANGED <<cursor, runs, editions, current, nextDue, now>>

FailJob(w, j, retryable) ==
  /\ Holds(w, j)
  /\ jobs' = [jobs EXCEPT
                ![j].status = IF retryable /\ jobs[j].attempts < MaxAttempts
                              THEN "failed" ELSE "dead_letter",
                ![j].holder = NoWorker]
  /\ UNCHANGED <<cursor, runs, editions, current, nextDue, now>>

-----------------------------------------------------------------------------
(***************************************************************************)
(* publish_next_gazzetta_edition.  Overdue slots are skipped, never caught *)
(* up: one publication moves next_due_at past the present.  The lowest     *)
(* validated issue_number is published and becomes current; an empty queue *)
(* raises queue_empty and rolls back.                                      *)
(***************************************************************************)
Due == nextDue <= now
Validated == {i \in DOMAIN editions : editions[i].status = "validated"}
QueueEmpty == Due /\ Validated = {}

\* Mutant: overdue slots are caught up one publication at a time.
NextDueCatchingUp == nextDue + 1
NextDueAfter == now + 1

\* Mutant: the queue is not drained in issue order.
AnyValidated(i) == i \in Validated
OldestValidated(i) == i \in Validated /\ \A k \in Validated : i <= k

PublishNext ==
  /\ Due
  /\ \E i \in DOMAIN editions :
       /\ OldestValidated(i)
       /\ editions' = [editions EXCEPT ![i].status = "published"]
       /\ current' = i
  /\ nextDue' = NextDueAfter
  /\ UNCHANGED <<jobs, cursor, runs, now>>

-----------------------------------------------------------------------------
(* The passage of time: a lease lapses, a backoff ends, a slot goes by.    *)

LeaseLapses(j) ==
  /\ jobs[j].status = "leased"
  /\ jobs' = [jobs EXCEPT ![j].status = "expired"]
  /\ UNCHANGED <<cursor, runs, editions, current, nextDue, now>>

BackoffElapses(j) ==
  /\ jobs[j].status = "failed"
  /\ jobs' = [jobs EXCEPT ![j].status = "queued"]
  /\ UNCHANGED <<cursor, runs, editions, current, nextDue, now>>

ClockAdvances ==
  /\ now < Horizon
  /\ now' = now + 1
  /\ UNCHANGED <<jobs, cursor, runs, editions, current, nextDue>>
=============================================================================
