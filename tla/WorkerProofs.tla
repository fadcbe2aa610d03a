---------------------------- MODULE WorkerProofs ----------------------------
(***************************************************************************)
(* Proofs about Worker for every set of processes, every assignment of     *)
(* worker ids and every bound.  The inductive invariant is built in two    *)
(* layers: what every RPC keeps of the control plane (CPInv), proved once  *)
(* per RPC whoever calls it, and what a tick knows of its own lease.       *)
(***************************************************************************)
EXTENDS Worker, TLAPS

USE DEF Slots, Attempts

-----------------------------------------------------------------------------
(* The control plane, one RPC at a time.                                   *)

\* The steps of the control plane, whoever causes them.
CPStep ==
  \/ \E w \in WorkerIds, j \in Slots : LeaseGranted(w, j)
  \/ NoJobToLease
  \/ \E w \in WorkerIds, j \in Slots, gen \in Attempts : SubmitRun(w, j, gen)
  \/ \E w \in WorkerIds, j \in Slots, a \in Attempts : MaterializeEdition(w, j, a)
  \/ \E w \in WorkerIds, j \in Slots, r \in BOOLEAN : FailJob(w, j, r)
  \/ PublishNext
  \/ \E j \in Slots : LeaseLapses(j) \/ BackoffElapses(j)
  \/ ClockAdvances

\* Jobs are created in slot order, so the cursor never overwrites one.
CursorFresh ==
  \A j \in Slots : j >= cursor => jobs[j].status = "absent"

\* A job with an edition has succeeded, so it is never leased again.
EditionsClosed ==
  \A i \in DOMAIN editions : jobs[editions[i].job].status = "succeeded"

\* A lease counts as an attempt.
LeasesCounted ==
  \A j \in Slots : jobs[j].status = "leased" => jobs[j].attempts \in Attempts

CPInv ==
  /\ CPTypeOK
  /\ CursorFresh
  /\ LeasesCounted
  /\ EditionsClosed
  /\ OneEditionPerJob
  /\ ArchiveInOrder

\* What a step leaves of the jobs that have succeeded.
KeepsSuccess ==
  \A j \in Slots : jobs[j].status = "succeeded" => jobs'[j] = jobs[j]

LEMMA CPInitInv == CPInit => CPInv
<1> SUFFICES ASSUME CPInit PROVE CPInv
  OBVIOUS
<1>1. CPTypeOK
  BY ControlPlaneAssumption DEF CPInit, CPTypeOK, JobRows, Statuses, EditionRows
<1>2. CursorFresh /\ LeasesCounted /\ EditionsClosed /\ OneEditionPerJob /\ ArchiveInOrder
  BY ControlPlaneAssumption
  DEF CPInit, CursorFresh, LeasesCounted, EditionsClosed, OneEditionPerJob, ArchiveInOrder
<1> QED BY <1>1, <1>2 DEF CPInv

\* The job table lease_next works on is well formed and differs from the stored
\* one only where a lease had expired or where the new job is.
LEMMA PoolType ==
  ASSUME CPTypeOK, CursorFresh, NEW create \in BOOLEAN, create => MayCreate
  PROVE  /\ Pool(create) \in [Slots -> JobRows]
         /\ \A j \in Slots : jobs[j].status = "succeeded" => Pool(create)[j] = jobs[j]
         /\ \A j \in Slots : Pool(create)[j].attempts = jobs[j].attempts
         /\ \A j \in Slots : /\ j >= cursor
                             /\ ~(create /\ j = cursor)
                             => Pool(create)[j].status = "absent"
         /\ \A j \in Slots : Pool(create)[j].status = "leased" =>
                               Pool(create)[j] = jobs[j]
<1>1. Swept \in [Slots -> JobRows]
  BY ControlPlaneAssumption DEF CPTypeOK, Swept, JobRows, Statuses
<1>2. \A j \in Slots : /\ jobs[j].status # "expired" => Swept[j] = jobs[j]
                       /\ Swept[j].attempts = jobs[j].attempts
                       /\ Swept[j].status = "leased" => Swept[j] = jobs[j]
  BY DEF CPTypeOK, Swept, JobRows, Statuses
<1>3. CASE create = FALSE
  BY <1>1, <1>2, <1>3 DEF Pool, CursorFresh
<1>4. CASE create = TRUE
  <2>1. cursor \in Slots /\ jobs[cursor].status = "absent"
    BY <1>4, ControlPlaneAssumption DEF CPTypeOK, MayCreate, CursorFresh
  <2>2. Pool(create) = [Swept EXCEPT ![cursor].status = "queued"]
    BY <1>4 DEF Pool
  <2> QED BY <1>1, <1>2, <1>4, <2>1, <2>2 DEF JobRows, Statuses, CursorFresh
<1> QED BY <1>3, <1>4

LEMMA EditionRow ==
  ASSUME CPTypeOK, NEW i \in DOMAIN editions
  PROVE  /\ editions[i] \in EditionRows
         /\ editions[i].job \in Slots
         /\ editions[i].run \in Attempts
         /\ editions[i].gen \in Attempts
         /\ editions[i].status \in {"validated", "published"}
<1>1. i \in 1..Len(editions) /\ editions \in Seq(EditionRows)
  BY DEF CPTypeOK
<1>2. editions[i] \in EditionRows
  BY <1>1
<1> QED BY <1>2 DEF EditionRows

\* A step that leaves the editions alone and keeps the jobs that succeeded keeps
\* everything known of the archive.
LEMMA SameEditions ==
  ASSUME CPInv, KeepsSuccess, UNCHANGED <<editions, current>>
  PROVE  EditionsClosed' /\ OneEditionPerJob' /\ ArchiveInOrder'
<1>1. \A i \in DOMAIN editions : editions[i].job \in Slots
  BY EditionRow DEF CPInv
<1>2. EditionsClosed'
  BY <1>1 DEF CPInv, EditionsClosed, KeepsSuccess
<1>3. OneEditionPerJob' /\ ArchiveInOrder'
  BY DEF CPInv, OneEditionPerJob, ArchiveInOrder
<1> QED BY <1>2, <1>3

LEMMA LeaseGrantedInv ==
  ASSUME CPInv, NEW w \in WorkerIds, NEW j \in Slots, LeaseGranted(w, j)
  PROVE  CPInv' /\ KeepsSuccess
<1>1. PICK create \in BOOLEAN :
        /\ QueueStep(create)
        /\ j \in Ready(create)
        /\ jobs' = [Pool(create) EXCEPT
                      ![j] = [status |-> "leased", attempts |-> @.attempts + 1,
                              holder |-> w]]
  BY DEF LeaseGranted
<1>2. /\ Pool(create) \in [Slots -> JobRows]
      /\ \A k \in Slots : jobs[k].status = "succeeded" => Pool(create)[k] = jobs[k]
      /\ \A k \in Slots : k >= cursor /\ ~(create /\ k = cursor)
                            => Pool(create)[k].status = "absent"
  BY <1>1, PoolType DEF CPInv, QueueStep
<1>3. /\ Pool(create)[j].status \in {"queued", "expired"}
      /\ Pool(create)[j].attempts < MaxAttempts
  BY <1>1 DEF Ready
<1>4. jobs' \in [Slots -> JobRows]
  BY <1>1, <1>2, <1>3, ControlPlaneAssumption DEF JobRows, Statuses
<1>5. KeepsSuccess
  BY <1>1, <1>2, <1>3 DEF KeepsSuccess
<1>6. CursorFresh'
  BY <1>1, <1>2, <1>3, ControlPlaneAssumption
  DEF CursorFresh, QueueStep, CPInv, CPTypeOK, JobRows
<1>7. CPTypeOK'
  BY <1>1, <1>4, ControlPlaneAssumption DEF CPTypeOK, CPInv, QueueStep, MayCreate
<1>8. UNCHANGED <<editions, current>>
  BY <1>1 DEF QueueStep
<1>9. LeasesCounted'
  <2>1. \A k \in Slots : Pool(create)[k].status = "leased" => Pool(create)[k] = jobs[k]
    BY <1>1, PoolType DEF CPInv, QueueStep
  <2>2. Pool(create)[j].attempts \in 0..MaxAttempts
    BY <1>2 DEF JobRows
  <2>3. jobs'[j].attempts \in Attempts
    BY <1>1, <1>2, <1>3, <2>2, ControlPlaneAssumption
  <2> QED BY <1>1, <1>2, <2>1, <2>3 DEF CPInv, LeasesCounted
<1> QED BY <1>5, <1>6, <1>7, <1>8, <1>9, SameEditions DEF CPInv

LEMMA NoJobToLeaseInv ==
  ASSUME CPInv, NoJobToLease
  PROVE  CPInv' /\ KeepsSuccess
<1>1. Pool(FALSE) = Swept /\ UNCHANGED <<cursor, runs, editions, current, nextDue, now>>
  BY DEF NoJobToLease, QueueStep, Pool
<1>2. /\ jobs' \in [Slots -> JobRows]
      /\ KeepsSuccess
      /\ CursorFresh'
      /\ LeasesCounted'
  BY <1>1, PoolType DEF CPInv, NoJobToLease, KeepsSuccess, CursorFresh, LeasesCounted
<1>3. CPTypeOK'
  BY <1>1, <1>2 DEF CPInv, CPTypeOK
<1> QED BY <1>1, <1>2, <1>3, SameEditions DEF CPInv

LEMMA SubmitRunInv ==
  ASSUME CPInv, NEW w \in WorkerIds, NEW j \in Slots, NEW gen \in Attempts,
         SubmitRun(w, j, gen)
  PROVE  CPInv' /\ KeepsSuccess
<1>1. KeepsSuccess /\ CursorFresh' /\ LeasesCounted' /\ UNCHANGED <<editions, current>>
  BY DEF SubmitRun, KeepsSuccess, CPInv, CursorFresh, LeasesCounted
<1>2. runs' \in [Slots -> [Attempts -> 0..MaxAttempts]]
  <2>1. /\ runs \in [Slots -> [Attempts -> 0..MaxAttempts]]
        /\ runs' = [runs EXCEPT ![j][jobs[j].attempts] = gen]
        /\ gen \in 0..MaxAttempts
    BY ControlPlaneAssumption DEF SubmitRun, CPInv, CPTypeOK
  <2> HIDE DEF Attempts
  <2> QED BY <2>1
<1>3. CPTypeOK'
  BY <1>2 DEF SubmitRun, CPInv, CPTypeOK
<1> QED BY <1>1, <1>3, SameEditions DEF CPInv

\* The only step that appends: the new issue is its job's first because the job
\* was still leased, and editions belong to jobs that have succeeded.
LEMMA MaterializeEditionInv ==
  ASSUME CPInv, NEW w \in WorkerIds, NEW j \in Slots, NEW a \in Attempts,
         MaterializeEdition(w, j, a)
  PROVE  CPInv' /\ KeepsSuccess /\ jobs'[j].status = "succeeded"
<1>1. CASE Materialized(j, a)
  <2>1. UNCHANGED <<jobs, editions, cursor, runs, current, nextDue, now>>
    BY <1>1 DEF MaterializeEdition
  <2>2. jobs[j].status = "succeeded"
    BY <1>1 DEF Materialized, CPInv, EditionsClosed
  <2>3. KeepsSuccess /\ CursorFresh' /\ LeasesCounted' /\ CPTypeOK'
    BY <2>1 DEF CPInv, CPTypeOK, CursorFresh, LeasesCounted, KeepsSuccess
  <2> QED BY <2>1, <2>2, <2>3, SameEditions DEF CPInv
<1>2. CASE ~Materialized(j, a)
  <2> DEFINE new == [job |-> j, run |-> a, gen |-> runs[j][a],
                     status |-> "validated"]
  <2>1. /\ jobs[j].status = "leased" /\ runs[j][a] # 0
        /\ editions' = Append(editions, new)
        /\ jobs' = [jobs EXCEPT ![j].status = "succeeded", ![j].holder = NoWorker]
        /\ UNCHANGED <<cursor, runs, current, nextDue, now>>
    BY <1>2 DEF MaterializeEdition, CanMaterialize, Holds
  <2>2. new \in EditionRows /\ editions \in Seq(EditionRows)
    <3>1. runs[j][a] \in 0..MaxAttempts /\ runs[j][a] # 0
      BY <2>1 DEF CPInv, CPTypeOK
    <3> QED BY <3>1, ControlPlaneAssumption DEF CPInv, CPTypeOK, EditionRows
  <2>3. /\ editions' \in Seq(EditionRows)
        /\ Len(editions') = Len(editions) + 1
        /\ DOMAIN editions' = 1..(Len(editions) + 1)
        /\ editions'[Len(editions) + 1] = new
        /\ \A i \in DOMAIN editions : i \in DOMAIN editions' /\ editions'[i] = editions[i]
        /\ DOMAIN editions = 1..Len(editions) /\ Len(editions) \in Nat
    BY <2>1, <2>2
  <2>4. \A i \in DOMAIN editions : editions[i].job \in Slots /\ editions[i].job # j
    BY <2>1, EditionRow DEF CPInv, EditionsClosed
  <2>5. CPTypeOK'
    BY <2>1, <2>3, ControlPlaneAssumption DEF CPInv, CPTypeOK, JobRows, Statuses
  <2>6. KeepsSuccess /\ jobs'[j].status = "succeeded"
    BY <2>1 DEF KeepsSuccess, CPInv, CPTypeOK, JobRows
  <2>7. CursorFresh' /\ LeasesCounted'
    BY <2>1 DEF CPInv, CPTypeOK, CursorFresh, LeasesCounted, JobRows
  <2>8. EditionsClosed'
    BY <2>3, <2>4, <2>6 DEF CPInv, EditionsClosed, KeepsSuccess
  <2>9. OneEditionPerJob'
    BY <2>3, <2>4 DEF CPInv, OneEditionPerJob
  <2>10. ArchiveInOrder'
    BY <2>1, <2>3 DEF CPInv, CPTypeOK, ArchiveInOrder
  <2> QED BY <2>5, <2>6, <2>7, <2>8, <2>9, <2>10 DEF CPInv
<1> QED BY <1>1, <1>2

LEMMA FailJobInv ==
  ASSUME CPInv, NEW w \in WorkerIds, NEW j \in Slots, NEW r \in BOOLEAN,
         FailJob(w, j, r)
  PROVE  CPInv' /\ KeepsSuccess
<1>1. /\ jobs' \in [Slots -> JobRows]
      /\ KeepsSuccess
      /\ CursorFresh'
      /\ LeasesCounted'
  BY DEF FailJob, Holds, CPInv, CPTypeOK, JobRows, Statuses, KeepsSuccess, CursorFresh,
         LeasesCounted
<1>2. CPTypeOK' /\ UNCHANGED <<editions, current>>
  BY <1>1 DEF FailJob, CPInv, CPTypeOK
<1> QED BY <1>1, <1>2, SameEditions DEF CPInv

\* The oldest validated issue is the one after current.
LEMMA PublishNextInv ==
  ASSUME CPInv, PublishNext
  PROVE  CPInv' /\ KeepsSuccess /\ current' = current + 1 /\ current < Len(editions)
<1>1. PICK i \in DOMAIN editions :
        /\ OldestValidated(i)
        /\ editions' = [editions EXCEPT ![i].status = "published"]
        /\ current' = i
  BY DEF PublishNext
<1>2. /\ editions \in Seq(EditionRows) /\ current \in Nat
      /\ DOMAIN editions = 1..Len(editions) /\ Len(editions) \in Nat
  BY DEF CPInv, CPTypeOK
<1>3. /\ editions[i].status = "validated"
      /\ \A k \in DOMAIN editions : editions[k].status = "validated" => i <= k
      /\ \A k \in DOMAIN editions : editions[k].status \in {"validated", "published"}
  BY <1>1, EditionRow DEF CPInv, OldestValidated, Validated
<1>4. i = current + 1
  <2>1. i > current
    BY <1>2, <1>3 DEF CPInv, ArchiveInOrder
  <2>2. current + 1 \in DOMAIN editions
    BY <1>2, <2>1
  <2>3. editions[current + 1].status = "validated"
    BY <1>2, <1>3, <2>2 DEF CPInv, ArchiveInOrder
  <2> QED BY <1>2, <1>3, <2>1, <2>2, <2>3
<1>5. /\ editions' \in Seq(EditionRows)
      /\ Len(editions') = Len(editions) /\ DOMAIN editions' = DOMAIN editions
      /\ \A k \in DOMAIN editions : /\ editions'[k].job = editions[k].job
                                    /\ k # i => editions'[k] = editions[k]
      /\ editions'[i].status = "published"
  <2> DEFINE row == [editions[i] EXCEPT !.status = "published"]
  <2>1. row \in EditionRows /\ row.job = editions[i].job /\ row.status = "published"
    BY EditionRow DEF CPInv, EditionRows
  <2>2. editions' = [editions EXCEPT ![i] = row]
    BY <1>1
  <2> HIDE DEF row
  <2> QED BY <1>2, <2>1, <2>2
<1>6. CPTypeOK'
  BY <1>1, <1>2, <1>5, ControlPlaneAssumption
  DEF PublishNext, NextDueAfter, CPInv, CPTypeOK
<1>7. KeepsSuccess /\ CursorFresh' /\ LeasesCounted'
  BY DEF PublishNext, KeepsSuccess, CPInv, CursorFresh, LeasesCounted
<1>8. EditionsClosed' /\ OneEditionPerJob'
  BY <1>5 DEF PublishNext, CPInv, EditionsClosed, OneEditionPerJob
<1>9. ArchiveInOrder'
  BY <1>1, <1>2, <1>3, <1>4, <1>5 DEF CPInv, ArchiveInOrder
<1> QED BY <1>1, <1>2, <1>4, <1>6, <1>7, <1>8, <1>9 DEF CPInv

LEMMA TimeInv ==
  ASSUME CPInv,
         (\E j \in Slots : LeaseLapses(j) \/ BackoffElapses(j)) \/ ClockAdvances
  PROVE  CPInv' /\ KeepsSuccess
<1>1. /\ jobs' \in [Slots -> JobRows]
      /\ KeepsSuccess
      /\ CursorFresh'
      /\ LeasesCounted'
      /\ UNCHANGED <<cursor, runs, editions, current, nextDue>>
  <2>1. CASE ClockAdvances
    BY <2>1 DEF ClockAdvances, CPInv, CPTypeOK, KeepsSuccess, CursorFresh, LeasesCounted
  <2>2. ASSUME NEW j \in Slots, NEW s \in {"expired", "queued"},
               jobs[j].status \in {"leased", "failed"},
               jobs' = [jobs EXCEPT ![j].status = s]
        PROVE  jobs' \in [Slots -> JobRows] /\ KeepsSuccess /\ LeasesCounted'
    BY <2>2 DEF CPInv, CPTypeOK, JobRows, Statuses, KeepsSuccess, LeasesCounted
  <2>3. ASSUME NEW j \in Slots, NEW s \in {"expired", "queued"},
               jobs[j].status \in {"leased", "failed"}, cursor' = cursor,
               jobs' = [jobs EXCEPT ![j].status = s]
        PROVE  CursorFresh'
    BY <2>3 DEF CPInv, CPTypeOK, JobRows, CursorFresh
  <2>4. CASE \E j \in Slots : LeaseLapses(j) \/ BackoffElapses(j)
    BY <2>2, <2>3, <2>4 DEF LeaseLapses, BackoffElapses
  <2> QED BY <2>1, <2>4
<1>2. now' \in 0..Horizon
  BY ControlPlaneAssumption
  DEF LeaseLapses, BackoffElapses, ClockAdvances, CPInv, CPTypeOK
<1>3. CPTypeOK'
  BY <1>1, <1>2 DEF CPInv, CPTypeOK
<1> QED BY <1>1, <1>3, SameEditions DEF CPInv

\* Every step of the control plane keeps its invariant and the succeeded jobs.
LEMMA CPStepInv ==
  ASSUME CPInv, CPStep \/ UNCHANGED cpVars
  PROVE  CPInv' /\ KeepsSuccess
<1>1. CASE UNCHANGED cpVars
  BY <1>1 DEF cpVars, CPInv, CPTypeOK, CursorFresh, LeasesCounted, EditionsClosed,
              OneEditionPerJob, ArchiveInOrder, KeepsSuccess
<1>2. CASE CPStep
  BY <1>2, LeaseGrantedInv, NoJobToLeaseInv, SubmitRunInv, MaterializeEditionInv,
     FailJobInv, PublishNextInv, TimeInv
  DEF CPStep
<1> QED BY <1>1, <1>2

-----------------------------------------------------------------------------
(* The ticks.                                                              *)

\* What a lease_next hands out, and what it leaves of the other leases.
LEMMA LeaseGrantedEffect ==
  ASSUME CPInv, NEW w \in WorkerIds, NEW j \in Slots, LeaseGranted(w, j)
  PROVE  /\ jobs'[j] = [status |-> "leased", attempts |-> jobs[j].attempts + 1,
                        holder |-> w]
         /\ jobs'[j].attempts \in Attempts
         /\ \A k \in Slots : k # j => /\ jobs'[k].attempts = jobs[k].attempts
                                      /\ jobs'[k].status = "leased" => jobs'[k] = jobs[k]
         /\ UNCHANGED <<runs, editions>>
         /\ jobs[j].status # "succeeded"
<1>1. PICK create \in BOOLEAN :
        /\ QueueStep(create)
        /\ j \in Ready(create)
        /\ jobs' = [Pool(create) EXCEPT
                      ![j] = [status |-> "leased", attempts |-> @.attempts + 1,
                              holder |-> w]]
  BY DEF LeaseGranted
<1>2. /\ Pool(create) \in [Slots -> JobRows]
      /\ \A k \in Slots : jobs[k].status = "succeeded" => Pool(create)[k] = jobs[k]
      /\ \A k \in Slots : Pool(create)[k].attempts = jobs[k].attempts
      /\ \A k \in Slots : Pool(create)[k].status = "leased" => Pool(create)[k] = jobs[k]
  BY <1>1, PoolType DEF CPInv, QueueStep
<1>3. /\ Pool(create)[j].status \in {"queued", "expired"}
      /\ Pool(create)[j].attempts \in 0..MaxAttempts
      /\ Pool(create)[j].attempts < MaxAttempts
  BY <1>1, <1>2 DEF Ready, JobRows
<1>4. UNCHANGED <<runs, editions>>
  BY <1>1 DEF QueueStep
<1> QED BY <1>1, <1>2, <1>3, <1>4, ControlPlaneAssumption

HoldingSteps == {"busy", "generate", "submit", "resubmit", "materialize",
                 "rematerialize", "done", "republish", "fail_retryable",
                 "fail_terminal"}

DurableSteps == {"done", "republish"}

\* A tick that is past lease_next knows its lease, one past submit_run its run.
LeaseKnown ==
  \A p \in Procs :
    /\ proc[p].pc \in HoldingSteps => proc[p].job \in Slots /\ proc[p].att \in Attempts
    /\ proc[p].pc \in {"materialize", "rematerialize"} => proc[p].run \in Attempts

\* A call names what its tick knew when it made it.
CallKnown(c) ==
  /\ c.op \notin {"publish", "lease"} => c.job \in Slots
  /\ c.op \in {"submit", "materialize"} => c.arg \in Attempts

LocalOK ==
  /\ proc \in [Procs -> Ticks]
  /\ LeaseKnown
  /\ late \subseteq Calls
  /\ \A c \in late : CallKnown(c)
  /\ faults \in 0..MaxFaults

WInv == CPInv /\ LocalOK /\ MaterializedIsDurable

\* What every step of a process or of the environment amounts to.
LocalStep ==
  /\ CPStep \/ UNCHANGED cpVars
  /\ LocalOK'
  /\ \A p \in Procs : proc'[p].pc \in DurableSteps =>
       \/ jobs'[proc'[p].job].status = "succeeded"
       \/ proc[p].pc \in DurableSteps /\ proc'[p].job = proc[p].job

\* What a step of a process does outside the process.
Around ==
  /\ CPStep \/ UNCHANGED cpVars
  /\ late' \subseteq late \cup {c \in Calls : CallKnown(c)}
  /\ UNCHANGED faults \/ Fault

\* Steps of one process: it is enough to look at that process.
LEMMA OneTick ==
  ASSUME WInv, NEW p \in Procs, NEW t \in Ticks, proc' = [proc EXCEPT ![p] = t],
         t.pc \in HoldingSteps => t.job \in Slots /\ t.att \in Attempts,
         t.pc \in {"materialize", "rematerialize"} => t.run \in Attempts,
         t.pc \in DurableSteps =>
           \/ jobs'[t.job].status = "succeeded"
           \/ proc[p].pc \in DurableSteps /\ t.job = proc[p].job,
         Around
  PROVE  LocalStep
<1> USE DEF Around
<1>1. proc' \in [Procs -> Ticks] /\ \A q \in Procs : proc'[q] = IF q = p THEN t ELSE proc[q]
  BY DEF WInv, LocalOK
<1>2. LeaseKnown'
  BY <1>1 DEF WInv, LocalOK, LeaseKnown
<1>3. faults' \in 0..MaxFaults
  BY WorkerAssumption DEF WInv, LocalOK, Fault
<1>4. /\ late' \subseteq Calls
      /\ \A c \in late' : CallKnown(c)
  BY DEF WInv, LocalOK
<1>5. \A q \in Procs : proc'[q].pc \in DurableSteps =>
        \/ jobs'[proc'[q].job].status = "succeeded"
        \/ proc[q].pc \in DurableSteps /\ proc'[q].job = proc[q].job
  BY <1>1
<1> QED BY <1>1, <1>2, <1>3, <1>4, <1>5 DEF LocalStep, LocalOK

LEMMA GotoStep ==
  ASSUME WInv, Around, NEW p \in Procs, NEW s \in Steps, Goto(p, s),
         s \in HoldingSteps => proc[p].pc \in HoldingSteps,
         s \in {"materialize", "rematerialize"} =>
           proc[p].pc \in {"materialize", "rematerialize"},
         s \in DurableSteps => proc[p].pc \in DurableSteps
  PROVE  LocalStep
<1> DEFINE t == [proc[p] EXCEPT !.pc = s]
<1>1. proc[p] \in Ticks
  BY DEF WInv, LocalOK
<1>2. t \in Ticks /\ t.pc = s /\ t.job = proc[p].job /\ t.att = proc[p].att /\ t.run = proc[p].run
  BY <1>1 DEF Ticks
<1>3. proc' = [proc EXCEPT ![p] = t]
  BY DEF Goto
<1>4. /\ proc[p].pc \in HoldingSteps => proc[p].job \in Slots /\ proc[p].att \in Attempts
      /\ proc[p].pc \in {"materialize", "rematerialize"} => proc[p].run \in Attempts
  BY DEF WInv, LocalOK, LeaseKnown
<1> HIDE DEF t
<1> QED BY <1>2, <1>3, <1>4, OneTick

LEMMA EndTickStep ==
  ASSUME WInv, Around, NEW p \in Procs, EndTick(p)
  PROVE  LocalStep
<1>1. Idle \in Ticks /\ Idle.pc = "idle"
  BY ControlPlaneAssumption DEF Idle, Ticks, Steps
<1> QED BY <1>1, OneTick DEF EndTick, HoldingSteps, DurableSteps

LEMMA GoFailStep ==
  ASSUME WInv, Around, NEW p \in Procs, NEW s \in {"fail_retryable", "fail_terminal"},
         GoFail(p, s), proc[p].pc \in HoldingSteps
  PROVE  LocalStep
<1> DEFINE t == [proc[p] EXCEPT !.pc = s, !.renewer = "off"]
<1>1. proc[p] \in Ticks
  BY DEF WInv, LocalOK
<1>2. t \in Ticks /\ t.pc = s /\ t.job = proc[p].job /\ t.att = proc[p].att
  BY <1>1 DEF Ticks, Steps
<1>3. proc' = [proc EXCEPT ![p] = t]
  BY <1>1 DEF GoFail
<1>4. proc[p].job \in Slots /\ proc[p].att \in Attempts
  BY DEF WInv, LocalOK, LeaseKnown
<1> HIDE DEF t
<1> QED BY <1>2, <1>3, <1>4, OneTick DEF HoldingSteps, DurableSteps

-----------------------------------------------------------------------------
(* One lemma per action of a tick.                                         *)

LEMMA BeginSteps ==
  ASSUME WInv, NEW p \in Procs, TickStart(p) \/ HeartbeatOnline(p)
  PROVE  LocalStep
<1>1. Around
  BY DEF TickStart, HeartbeatOnline, NoFault, Around
<1>2. CASE Goto(p, "online") \/ Goto(p, "publish")
  BY <1>1, <1>2, GotoStep DEF Steps, HoldingSteps, DurableSteps
<1>3. CASE EndTick(p)
  BY <1>1, <1>3, EndTickStep
<1> QED BY <1>2, <1>3 DEF TickStart, HeartbeatOnline

\* publish_next and lease_next are asked for before the tick has a job.
LEMMA JoblessCall ==
  ASSUME WInv, NEW p \in Procs, NEW op \in {"publish", "lease"}
  PROVE  Call(op, p, 0) \in {c \in Calls : CallKnown(c)}
<1>1. proc[p] \in Ticks /\ Identity(p) \in WorkerIds
  BY WorkerAssumption DEF WInv, LocalOK, Identity
<1>2. Call(op, p, 0) \in Calls /\ Call(op, p, 0).op = op
  BY <1>1, ControlPlaneAssumption DEF Call, Calls, Ticks
<1> QED BY <1>2 DEF CallKnown

LEMMA PublishStep ==
  ASSUME WInv, NEW p \in Procs, TickPublish(p)
  PROVE  LocalStep
<1>1. Around
  BY JoblessCall DEF TickPublish, NoFault, NoAnswer, NoAnswerYet, Around, CPStep
<1>2. CASE EmergencyBegins(p)
  <2> DEFINE t == [proc[p] EXCEPT !.pc = "lease", !.emergency = TRUE]
  <2>1. proc[p] \in Ticks
    BY DEF WInv, LocalOK
  <2>2. t \in Ticks /\ t.pc = "lease"
    BY <2>1 DEF Ticks, Steps
  <2>3. proc' = [proc EXCEPT ![p] = t]
    BY <1>2, <2>1 DEF EmergencyBegins
  <2> HIDE DEF t
  <2> QED BY <1>1, <2>2, <2>3, OneTick DEF HoldingSteps, DurableSteps
<1>3. CASE Goto(p, "lease")
  BY <1>1, <1>3, GotoStep DEF Steps, HoldingSteps, DurableSteps
<1>4. CASE EndTick(p)
  BY <1>1, <1>4, EndTickStep
<1> QED BY <1>2, <1>3, <1>4 DEF TickPublish

LEMMA LeasedTick ==
  ASSUME NEW tick \in Ticks, NEW j \in Slots, NEW n \in Attempts
  PROVE  LET t == [tick EXCEPT !.pc = "busy", !.job = j, !.att = n]
         IN  t \in Ticks /\ t.pc = "busy" /\ t.job = j /\ t.att \in Attempts
<1>1. j \in 0..MaxSlot /\ n \in 0..MaxAttempts
  BY ControlPlaneAssumption
<1> QED BY <1>1 DEF Ticks, Steps

LEMMA LeaseStep ==
  ASSUME WInv, NEW p \in Procs, TickLease(p)
  PROVE  LocalStep
<1>0. Identity(p) \in WorkerIds
  BY WorkerAssumption DEF Identity
<1>1. Around
  BY <1>0, JoblessCall DEF TickLease, NoFault, NoAnswer, NoAnswerYet, Around, CPStep
<1>2. ASSUME NEW j \in Slots, LeaseGranted(Identity(p), j),
             proc' = [proc EXCEPT ![p].pc = "busy", ![p].job = j,
                                  ![p].att = jobs'[j].attempts]
      PROVE  LocalStep
  <2>1. proc[p] \in Ticks
    BY DEF WInv, LocalOK
  <2>2. PICK n \in Attempts : n = jobs'[j].attempts
    BY <1>0, <1>2, LeaseGrantedEffect DEF WInv
  <2> DEFINE t == [proc[p] EXCEPT !.pc = "busy", !.job = j, !.att = n]
  <2>3. t \in Ticks /\ t.pc = "busy" /\ t.job = j /\ t.att \in Attempts
    BY <2>1, LeasedTick
  <2>4. proc' = [proc EXCEPT ![p] = t]
    BY <1>2, <2>2, <2>1
  <2> HIDE DEF t
  <2> QED BY <1>1, <2>3, <2>4, OneTick DEF HoldingSteps, DurableSteps
<1>3. CASE EndTick(p)
  BY <1>1, <1>3, EndTickStep
<1> QED BY <1>2, <1>3 DEF TickLease

LEMMA BusyStep ==
  ASSUME WInv, NEW p \in Procs, HeartbeatBusy(p)
  PROVE  LocalStep
<1>1. Around
  BY DEF HeartbeatBusy, NoFault, Around
<1>2. CASE proc' = [proc EXCEPT ![p].pc = "generate", ![p].renewer = "running"]
  <2> DEFINE t == [proc[p] EXCEPT !.pc = "generate", !.renewer = "running"]
  <2>1. proc[p] \in Ticks
    BY DEF WInv, LocalOK
  <2>2. t \in Ticks /\ t.pc = "generate" /\ t.job = proc[p].job /\ t.att = proc[p].att
    BY <2>1 DEF Ticks, Steps
  <2>3. proc' = [proc EXCEPT ![p] = t]
    BY <1>2, <2>1
  <2>4. proc[p].job \in Slots /\ proc[p].att \in Attempts
    BY DEF HeartbeatBusy, At, WInv, LocalOK, LeaseKnown, HoldingSteps
  <2> HIDE DEF t
  <2> QED BY <1>1, <2>2, <2>3, <2>4, OneTick DEF HoldingSteps, DurableSteps
<1>3. CASE EndTick(p)
  BY <1>1, <1>3, EndTickStep
<1> QED BY <1>2, <1>3 DEF HeartbeatBusy

LEMMA GenerateStep ==
  ASSUME WInv, NEW p \in Procs, Generate(p)
  PROVE  LocalStep
<1>1. Around
  BY DEF Generate, NoFault, Around
<1>2. proc[p].pc = "generate"
  BY DEF Generate, At
<1>3. CASE Goto(p, "submit")
  BY <1>1, <1>2, <1>3, GotoStep DEF Steps, HoldingSteps, DurableSteps
<1>4. CASE GoFail(p, "fail_retryable") \/ GoFail(p, "fail_terminal")
  BY <1>1, <1>2, <1>4, GoFailStep DEF HoldingSteps
<1> QED BY <1>3, <1>4 DEF Generate

\* What the arguments of the adapter's calls are in a tick that holds a lease.
LEMMA Lease ==
  ASSUME WInv, NEW p \in Procs, proc[p].pc \in HoldingSteps
  PROVE  /\ Identity(p) \in WorkerIds
         /\ proc[p].job \in Slots
         /\ proc[p].att \in Attempts
         /\ proc[p] \in Ticks
BY WorkerAssumption DEF WInv, LocalOK, LeaseKnown, Identity

LEMMA SubmitStep ==
  ASSUME WInv, NEW p \in Procs, Submit(p)
  PROVE  LocalStep
<1> DEFINE w == Identity(p)  j == proc[p].job  gen == proc[p].att
<1>1. proc[p].pc \in {"submit", "resubmit"}
  BY DEF Submit, At
<1>2. w \in WorkerIds /\ j \in Slots /\ gen \in Attempts /\ proc[p] \in Ticks
  BY <1>1, Lease DEF HoldingSteps
<1>3. Around
  <2>1. Call("submit", p, gen) \in Calls
    BY <1>2, ControlPlaneAssumption DEF Call, Calls
  <2>2. CallKnown(Call("submit", p, gen))
    BY <1>2 DEF Call, CallKnown
  <2> QED BY <1>2, <2>1, <2>2 DEF Submit, NoFault, NoAnswer, NoAnswerYet, Around, CPStep
<1>4. CASE /\ SubmitRun(w, j, gen)
           /\ proc' = [proc EXCEPT ![p].pc = "materialize", ![p].run = jobs[j].attempts]
  <2>1. PICK a \in Attempts : a = jobs[j].attempts
    BY <1>2, <1>4 DEF SubmitRun, CanSubmit, Holds, WInv, CPInv, LeasesCounted
  <2> DEFINE t == [proc[p] EXCEPT !.pc = "materialize", !.run = a]
  <2>2. a \in 0..MaxAttempts
    BY ControlPlaneAssumption
  <2>3. t \in Ticks /\ t.pc = "materialize" /\ t.run = a /\ t.job = j /\ t.att = gen
    BY <1>2, <2>2 DEF Ticks, Steps
  <2>4. proc' = [proc EXCEPT ![p] = t]
    BY <1>4, <2>1
  <2> HIDE DEF t
  <2> QED BY <1>2, <1>3, <2>3, <2>4, OneTick DEF DurableSteps
<1>5. CASE Goto(p, "resubmit")
  BY <1>1, <1>3, <1>5, GotoStep DEF Steps, HoldingSteps, DurableSteps
<1>6. CASE GoFail(p, "fail_retryable")
  BY <1>1, <1>3, <1>6, GoFailStep DEF HoldingSteps
<1> QED BY <1>4, <1>5, <1>6 DEF Submit, AfterNoAnswer

LEMMA MaterializeStep ==
  ASSUME WInv, NEW p \in Procs, Materialize(p)
  PROVE  LocalStep
<1> DEFINE w == Identity(p)  j == proc[p].job  a == proc[p].run
<1>1. proc[p].pc \in {"materialize", "rematerialize"}
  BY DEF Materialize, At
<1>2. /\ w \in WorkerIds /\ j \in Slots /\ proc[p].att \in Attempts /\ proc[p] \in Ticks
      /\ a \in Attempts
  BY <1>1, Lease DEF HoldingSteps, WInv, LocalOK, LeaseKnown
<1>3. Around
  <2>1. Call("materialize", p, a) \in Calls
    BY <1>2, ControlPlaneAssumption DEF Call, Calls
  <2>2. CallKnown(Call("materialize", p, a))
    BY <1>2 DEF Call, CallKnown
  <2> QED BY <1>2, <2>1, <2>2
          DEF Materialize, NoFault, NoAnswer, NoAnswerYet, Around, CPStep
<1>4. CASE /\ MaterializeEdition(w, j, a)
           /\ proc' = [proc EXCEPT ![p].pc = "done", ![p].renewer = "off"]
  <2> DEFINE t == [proc[p] EXCEPT !.pc = "done", !.renewer = "off"]
  <2>1. jobs'[j].status = "succeeded"
    BY <1>2, <1>4, MaterializeEditionInv DEF WInv
  <2>2. t \in Ticks /\ t.pc = "done" /\ t.job = j /\ t.att = proc[p].att
    BY <1>2 DEF Ticks, Steps
  <2>3. proc' = [proc EXCEPT ![p] = t]
    BY <1>4
  <2> HIDE DEF t
  <2> QED BY <1>2, <1>3, <2>1, <2>2, <2>3, OneTick
<1>5. CASE Goto(p, "rematerialize")
  BY <1>1, <1>3, <1>5, GotoStep DEF Steps, HoldingSteps, DurableSteps
<1>6. CASE GoFail(p, "fail_retryable")
  BY <1>1, <1>3, <1>6, GoFailStep DEF HoldingSteps
<1> QED BY <1>4, <1>5, <1>6 DEF Materialize, AfterNoAnswer

LEMMA DoneStep ==
  ASSUME WInv, NEW p \in Procs, HeartbeatDone(p)
  PROVE  LocalStep
<1>1. Around
  BY DEF HeartbeatDone, NoFault, Around
<1>2. proc[p].pc = "done"
  BY DEF HeartbeatDone, At
<1>3. CASE Goto(p, "republish")
  BY <1>1, <1>2, <1>3, GotoStep DEF Steps, HoldingSteps, DurableSteps
<1>4. CASE GoFail(p, "fail_retryable") \/ GoFail(p, "fail_terminal")
  BY <1>1, <1>2, <1>4, GoFailStep DEF HoldingSteps
<1>5. CASE EndTick(p)
  BY <1>1, <1>5, EndTickStep
<1> QED BY <1>3, <1>4, <1>5 DEF HeartbeatDone

\* Every outcome of fail_job, of the second publish_next and a kill end the tick.
LEMMA EndingSteps ==
  ASSUME WInv, NEW p \in Procs, TickFail(p) \/ Republish(p) \/ Crash(p)
  PROVE  LocalStep
<1>1. CASE TickFail(p)
  <2> DEFINE w == Identity(p)  j == proc[p].job  r == At(p, "fail_retryable")
  <2>1. proc[p].pc \in {"fail_retryable", "fail_terminal"}
    BY <1>1 DEF TickFail, At
  <2>2. w \in WorkerIds /\ j \in Slots /\ r \in BOOLEAN
    BY <2>1, Lease DEF HoldingSteps, At
  <2>3. Call(proc[p].pc, p, 0) \in Calls /\ CallKnown(Call(proc[p].pc, p, 0))
    BY <2>1, <2>2, ControlPlaneAssumption DEF Call, Calls, CallKnown
  <2>4. FailJob(w, j, r) => CPStep
    BY <2>2 DEF CPStep
  <2>5. /\ CPStep \/ UNCHANGED cpVars
        /\ UNCHANGED faults \/ Fault
        /\ late' = late \/ late' = late \cup {Call(proc[p].pc, p, 0)}
    BY <1>1, <2>4 DEF TickFail, NoFault, NoAnswer, NoAnswerYet
  <2>6. Around
    BY <2>1, <2>3, <2>5 DEF Around
  <2> QED BY <1>1, <2>6, EndTickStep DEF TickFail
<1>2. CASE Republish(p)
  BY <1>2, JoblessCall, EndTickStep
  DEF Republish, NoFault, NoAnswer, NoAnswerYet, Around, CPStep
<1>3. CASE Crash(p)
  BY <1>3, EndTickStep DEF Crash, Around
<1> QED BY <1>1, <1>2, <1>3

LEMMA RenewalStep ==
  ASSUME WInv, NEW p \in Procs, RenewalBreaks(p)
  PROVE  LocalStep
<1> DEFINE t == [proc[p] EXCEPT !.renewer = "broken"]
<1>1. Around
  BY DEF RenewalBreaks, NoFault, Around
<1>2. proc[p] \in Ticks
  BY DEF WInv, LocalOK
<1>3. /\ t \in Ticks /\ t.pc = proc[p].pc /\ t.job = proc[p].job
      /\ t.att = proc[p].att /\ t.run = proc[p].run
  BY <1>2 DEF Ticks
<1>4. proc' = [proc EXCEPT ![p] = t]
  BY <1>2 DEF RenewalBreaks
<1>5. /\ proc[p].pc \in HoldingSteps => proc[p].job \in Slots /\ proc[p].att \in Attempts
      /\ proc[p].pc \in {"materialize", "rematerialize"} => proc[p].run \in Attempts
  BY DEF WInv, LocalOK, LeaseKnown
<1> HIDE DEF t
<1> QED BY <1>1, <1>3, <1>4, <1>5, OneTick

-----------------------------------------------------------------------------
(* Steps no process takes.                                                 *)

LEMMA EnvironmentStep ==
  ASSUME WInv, UNCHANGED proc, CPStep \/ UNCHANGED cpVars, late' \subseteq late,
         UNCHANGED faults \/ Fault
  PROVE  LocalStep
<1>1. LocalOK'
  BY WorkerAssumption DEF WInv, LocalOK, LeaseKnown, Fault
<1> QED BY <1>1 DEF LocalStep

LEMMA LateStep ==
  ASSUME WInv, NEW c \in late, LateExecution(c)
  PROVE  LocalStep
<1>1. c.worker \in WorkerIds /\ CallKnown(c)
  BY DEF WInv, LocalOK, Calls
<1>2. Execution(c) => CPStep
  BY <1>1 DEF Execution, CallKnown, CPStep
<1> QED BY <1>2, EnvironmentStep DEF LateExecution

\* A suspension that outlasts a lease leaves its mark on the processes and nothing else.
LEMMA StallStep ==
  ASSUME WInv, NEW j \in Slots, LeaseExpiresUnderHolder(j)
  PROVE  LocalStep
<1> DEFINE Marked(p) == [proc[p] EXCEPT !.slept = @ \/ Attends(p, j)]
<1>1. ASSUME NEW p \in Procs
      PROVE  /\ proc'[p] \in Ticks
             /\ proc'[p].pc = proc[p].pc /\ proc'[p].job = proc[p].job
             /\ proc'[p].att = proc[p].att /\ proc'[p].run = proc[p].run
  <2>1. proc[p] \in Ticks /\ proc'[p] = Marked(p)
    BY DEF WInv, LocalOK, LeaseExpiresUnderHolder
  <2>2. (proc[p].slept \/ Attends(p, j)) \in BOOLEAN
    OBVIOUS
  <2> QED BY <2>1, <2>2 DEF Ticks
<1>2. proc' \in [Procs -> Ticks]
  <2>1. proc' = [p \in Procs |-> Marked(p)]
    BY DEF LeaseExpiresUnderHolder
  <2> HIDE DEF Marked
  <2> QED BY <1>1, <2>1
<1>3. /\ CPStep /\ late' = late /\ faults' \in 0..MaxFaults
  BY WorkerAssumption DEF LeaseExpiresUnderHolder, CPStep, Fault, WInv, LocalOK
<1>4. LeaseKnown'
  BY <1>1 DEF WInv, LocalOK, LeaseKnown
<1>5. LocalOK'
  BY <1>2, <1>3, <1>4 DEF WInv, LocalOK
<1> QED BY <1>1, <1>3, <1>5 DEF LocalStep

LEMMA TimeStep ==
  ASSUME WInv, (\E j \in Slots : LeaseExpires(j) \/ Backoff(j)) \/ Clock
  PROVE  LocalStep
BY EnvironmentStep DEF LeaseExpires, Backoff, Clock, CPStep

LEMMA EveryStep ==
  ASSUME WInv, Next
  PROVE  LocalStep
BY BeginSteps, PublishStep, LeaseStep, BusyStep, GenerateStep, SubmitStep,
   MaterializeStep, DoneStep, EndingSteps, RenewalStep, LateStep, StallStep,
   TimeStep
DEF Next, TickStep

-----------------------------------------------------------------------------
(* The invariant and the theorems.                                         *)

LEMMA WInit == Init => WInv
<1> SUFFICES ASSUME Init PROVE WInv
  OBVIOUS
<1>1. Idle \in Ticks /\ Idle.pc = "idle"
  BY ControlPlaneAssumption DEF Idle, Ticks, Steps
<1>2. \A p \in Procs : proc[p] = Idle
  BY DEF Init
<1>3. LocalOK
  BY <1>1, <1>2, WorkerAssumption DEF Init, LocalOK, LeaseKnown, HoldingSteps
<1> QED BY <1>1, <1>2, <1>3, CPInitInv DEF Init, WInv, MaterializedIsDurable

LEMMA WNext == WInv /\ [Next]_vars => WInv' /\ KeepsSuccess
<1> SUFFICES ASSUME WInv, [Next]_vars PROVE WInv' /\ KeepsSuccess
  OBVIOUS
<1>1. CASE UNCHANGED vars
  <2>1. CPInv' /\ KeepsSuccess
    BY <1>1, CPStepInv DEF vars, WInv
  <2>2. LocalOK' /\ MaterializedIsDurable'
    BY <1>1 DEF vars, cpVars, WInv, LocalOK, LeaseKnown, MaterializedIsDurable
  <2> QED BY <2>1, <2>2 DEF WInv
<1>2. CASE Next
  <2>1. LocalStep
    BY <1>2, EveryStep
  <2>2. CPInv' /\ KeepsSuccess
    BY <2>1, CPStepInv DEF WInv, LocalStep
  <2>3. MaterializedIsDurable'
    <3> SUFFICES ASSUME NEW p \in Procs, proc'[p].pc \in DurableSteps,
                        jobs'[proc'[p].job].status # "succeeded"
                 PROVE  FALSE
      BY DEF MaterializedIsDurable, DurableSteps
    <3>1. proc[p].pc \in DurableSteps /\ proc'[p].job = proc[p].job
      BY <2>1 DEF LocalStep
    <3>2. jobs[proc[p].job].status = "succeeded" /\ proc[p].job \in Slots
      BY <3>1 DEF WInv, MaterializedIsDurable, DurableSteps, LocalOK, LeaseKnown,
                  HoldingSteps
    <3> QED BY <2>2, <3>1, <3>2 DEF KeepsSuccess
  <2> QED BY <2>1, <2>2, <2>3 DEF WInv, LocalStep
<1> QED BY <1>1, <1>2

LEMMA Inductive == Spec => []WInv
BY WInit, WNext, PTL DEF Spec

\* The type invariant: no step of a process, of the clock or of a late call
\* takes any variable out of its type, in particular no job past MaxAttempts.
THEOREM TypeCorrect == Spec => []TypeOK
<1>1. WInv => TypeOK
  BY DEF WInv, CPInv, LocalOK, TypeOK
<1> QED BY <1>1, Inductive, PTL

\* Whatever calls are doubled, lost or executed late, whichever processes crash,
\* stall or share a worker id, a job yields one edition at most
\* (materialize_gazzetta_edition as SupabaseEditionStore.materialize uses it).
THEOREM OneEdition == Spec => []OneEditionPerJob
<1>1. WInv => OneEditionPerJob
  BY DEF WInv, CPInv
<1> QED BY <1>1, Inductive, PTL

\* publish_next_gazzetta_edition, called from tick and again from
\* _emergency_fallback by any process, shows the issues in order, skips none
\* and takes none back.
THEOREM PublishedInOrder == Spec => []ArchiveInOrder
<1>1. WInv => ArchiveInOrder
  BY DEF WInv, CPInv
<1> QED BY <1>1, Inductive, PTL

\* When _generate goes past materialize the job has succeeded for good.
THEOREM DurableMaterialization == Spec => []MaterializedIsDurable
<1>1. WInv => MaterializedIsDurable
  BY DEF WInv
<1> QED BY <1>1, Inductive, PTL

\* No fail_job, late call or lease_next touches a job that has succeeded,
\* although _generate can call fail_job after materialize.
THEOREM SuccessKept == Spec => SuccessIsFinal
<1>1. WInv /\ [Next]_vars =>
        [\A j \in Slots : jobs[j].status = "succeeded" => jobs'[j] = jobs[j]]_vars
  BY WNext DEF KeepsSuccess
<1> QED BY <1>1, Inductive, PTL DEF Spec, SuccessIsFinal

-----------------------------------------------------------------------------
(* Refinement: every step composes an issue, shows the next one, lets a slot *)
(* pass, or is invisible to the readers.                                     *)

ArchiveOf(es) == [i \in DOMAIN es |-> es[i].job]

LEMMA ArchiveType ==
  ASSUME CPInv
  PROVE  /\ ArchiveOf(editions) \in Seq(Slots)
         /\ Len(ArchiveOf(editions)) = Len(editions)
<1>1. DOMAIN editions = 1..Len(editions) /\ Len(editions) \in Nat
  BY DEF CPInv, CPTypeOK
<1>2. \A i \in DOMAIN editions : editions[i].job \in Slots
  BY EditionRow DEF CPInv
<1> QED BY <1>1, <1>2 DEF ArchiveOf

LEMMA Composes ==
  ASSUME CPInv, NEW w \in WorkerIds, NEW j \in Slots, NEW a \in Attempts,
         MaterializeEdition(w, j, a)
  PROVE  Promise!Compose \/ UNCHANGED Promise!vars
<1>1. CASE Materialized(j, a)
  BY <1>1 DEF MaterializeEdition, Promise!vars
<1>2. CASE ~Materialized(j, a)
  <2> DEFINE new == [job |-> j, run |-> a, gen |-> runs[j][a],
                     status |-> "validated"]
  <2>1. /\ jobs[j].status = "leased"
        /\ editions' = Append(editions, new)
        /\ UNCHANGED <<current, nextDue, now>>
    BY <1>2 DEF MaterializeEdition, CanMaterialize, Holds
  <2>2. /\ editions \in Seq(EditionRows)
        /\ DOMAIN editions = 1..Len(editions) /\ Len(editions) \in Nat
    BY DEF CPInv, CPTypeOK
  <2>3. editions' = [i \in 1..(Len(editions) + 1) |->
                       IF i = Len(editions) + 1 THEN new ELSE editions[i]]
    BY <2>1, <2>2
  <2>4. ArchiveOf(editions') = [i \in 1..(Len(editions) + 1) |->
                                  IF i = Len(editions) + 1 THEN j ELSE editions[i].job]
    BY <2>2, <2>3 DEF ArchiveOf
  <2>5. Append(ArchiveOf(editions), j) =
          [i \in 1..(Len(editions) + 1) |->
             IF i = Len(editions) + 1 THEN j ELSE editions[i].job]
    BY <2>2, ArchiveType DEF ArchiveOf
  <2>6. \A i \in DOMAIN ArchiveOf(editions) : ArchiveOf(editions)[i] # j
    BY <2>1 DEF CPInv, EditionsClosed, ArchiveOf
  <2> QED BY <2>1, <2>4, <2>5, <2>6 DEF Promise!Compose, ArchiveOf
<1> QED BY <1>1, <1>2

LEMMA Appears ==
  ASSUME CPInv, PublishNext
  PROVE  Promise!Appear
<1>1. /\ current' = current + 1 /\ current < Len(editions)
      /\ CPInv' /\ nextDue <= now /\ nextDue' = now + 1 /\ now' = now
  BY PublishNextInv DEF PublishNext, Due, NextDueAfter
<1>2. nextDue \in Nat /\ now \in Nat /\ editions \in Seq(EditionRows)
  BY ControlPlaneAssumption DEF CPInv, CPTypeOK
<1>3. PICK i \in DOMAIN editions :
        editions' = [editions EXCEPT ![i].status = "published"]
  BY DEF PublishNext
<1>4. editions[i] \in EditionRows
  BY EditionRow DEF CPInv
<1>5. \A k \in DOMAIN editions : editions'[k].job = editions[k].job
  BY <1>2, <1>3, <1>4 DEF EditionRows
<1>6. ArchiveOf(editions') = ArchiveOf(editions)
  BY <1>3, <1>5 DEF ArchiveOf
<1> QED BY <1>1, <1>2, <1>6, ArchiveType DEF Promise!Appear, ArchiveOf

LEMMA PromiseStep ==
  ASSUME CPInv, CPStep \/ UNCHANGED cpVars
  PROVE  [Promise!Next]_Promise!vars
<1>1. CASE UNCHANGED <<editions, current, nextDue, now>>
  BY <1>1 DEF Promise!vars
<1>2. CASE ClockAdvances
  BY <1>2 DEF ClockAdvances, Promise!Next, Promise!SlotPasses
<1>3. CASE PublishNext
  BY <1>3, Appears DEF Promise!Next
<1>4. ASSUME NEW w \in WorkerIds, NEW j \in Slots, NEW a \in Attempts,
             MaterializeEdition(w, j, a)
      PROVE  [Promise!Next]_Promise!vars
  BY <1>4, Composes DEF Promise!Next
<1>5. CASE UNCHANGED cpVars
  BY <1>1, <1>5 DEF cpVars
<1>6. CASE CPStep
  BY <1>1, <1>2, <1>3, <1>4, <1>6
  DEF CPStep, LeaseGranted, NoJobToLease, QueueStep, SubmitRun, FailJob, LeaseLapses,
      BackoffElapses
<1> QED BY <1>5, <1>6

\* The worker and the control plane together keep the readers' promise: one issue
\* per job, shown in order, at most one per publication slot.
THEOREM Refinement == Spec => ImplementsGazette
<1>1. Init => Promise!Init
  BY DEF Init, CPInit, Promise!Init
<1>2. WInv /\ [Next]_vars => [Promise!Next]_Promise!vars
  <2> SUFFICES ASSUME WInv, [Next]_vars PROVE CPStep \/ UNCHANGED cpVars
    BY PromiseStep DEF WInv
  <2> QED BY EveryStep DEF LocalStep, vars
<1> QED BY <1>1, <1>2, Inductive, PTL DEF Spec, ImplementsGazette, Promise!Spec
=============================================================================
