------------------------------- MODULE Serial -------------------------------
(***************************************************************************)
(* What the reader of the Gazzetta is promised about its storylines (SDS   *)
(* 9.2), seen from the issues alone: whatever is printed as the n-th part  *)
(* of a story is its n-th part, the parts of one story keep their distance *)
(* but for the epilogue, which ends it, and an issue opens and continues   *)
(* so many stories and no more.  Editorial implements it.                  *)
(***************************************************************************)
EXTENDS Naturals, Sequences, FiniteSets

CONSTANTS
  Lines,             \* the storylines there can be
  Jobs,              \* the schedule slots
  FinalAppearance,   \* the part that closes a story; one more is the epilogue
  MaxContinuations,  \* stories an issue continues at most
  MaxNew             \* stories an issue opens at most

VARIABLE issues      \* issue number -> [job, shown : line -> part]

Init == issues = << >>

Told(l) == {i \in DOMAIN issues : l \in DOMAIN issues[i].shown}

\* The next part of a story may be told in the slot of job.
Continues(l, job) ==
  /\ Cardinality(Told(l)) <= FinalAppearance
  /\ Cardinality(Told(l)) < FinalAppearance => \A i \in Told(l) : issues[i].job < job

\* What one more issue may be.
Fits(issue) ==
  LET continued == {l \in DOMAIN issue.shown : Told(l) # {}}
  IN /\ issue.job \in Jobs
     /\ \A i \in DOMAIN issues : issues[i].job # issue.job
     /\ DOMAIN issue.shown \subseteq Lines
     /\ \A l \in DOMAIN issue.shown : issue.shown[l] = Cardinality(Told(l)) + 1
     /\ \A l \in continued : Continues(l, issue.job)
     /\ Cardinality(continued) <= MaxContinuations
     /\ Cardinality(DOMAIN issue.shown \ continued) <= MaxNew

\* Issues are added and never changed.
Next ==
  /\ Len(issues') = Len(issues) + 1
  /\ SubSeq(issues', 1, Len(issues)) = issues
  /\ Fits(issues'[Len(issues')])

Spec == Init /\ [][Next]_issues
=============================================================================
