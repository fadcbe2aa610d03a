------------------------------ MODULE Gazette ------------------------------
(***************************************************************************)
(* What the engine promises its readers, with nothing of how it is done:   *)
(* issues are composed once per scheduled job, appear in the order they    *)
(* were numbered, none skipped, and at most one per publication slot; a    *)
(* failure of any kind is a step in which nothing of this changes.         *)
(***************************************************************************)
EXTENDS Naturals, Sequences

CONSTANT Jobs

VARIABLES
  archive,    \* the job each issue number was composed for
  current,    \* how many issues have appeared; the last one is on show
  lastSlot,   \* the publication slot of the last appearance
  now         \* the present publication slot

vars == <<archive, current, lastSlot, now>>

Init ==
  /\ archive = << >>
  /\ current = 0
  /\ lastSlot = 0
  /\ now = 0

\* A new issue is composed for a job that has none.
Compose ==
  /\ \E j \in Jobs :
       /\ \A i \in DOMAIN archive : archive[i] # j
       /\ archive' = Append(archive, j)
  /\ UNCHANGED <<current, lastSlot, now>>

\* The next issue appears, once in this slot.
Appear ==
  /\ current < Len(archive)
  /\ lastSlot < now
  /\ current' = current + 1
  /\ lastSlot' = now
  /\ UNCHANGED <<archive, now>>

SlotPasses ==
  /\ now' = now + 1
  /\ UNCHANGED <<archive, current, lastSlot>>

Next == Compose \/ Appear \/ SlotPasses

Spec == Init /\ [][Next]_vars
=============================================================================
