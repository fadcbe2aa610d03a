------------------------------ MODULE MCWorker ------------------------------
(* Instances of Worker for TLC: two processes, as deployed.                *)
EXTENDS Worker, TLC

CONSTANTS timer, api, w1, w2

\* Both units read the same environment file, hence the same worker id.
SharedId == [p \in Procs |-> w1]

\* One worker id per process.
DistinctIds == (timer :> w1) @@ (api :> w2)
=============================================================================
