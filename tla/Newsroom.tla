------------------------------ MODULE Newsroom ------------------------------
(***************************************************************************)
(* The people of the newspaper: the register of recurring entities         *)
(* (gazzetta_entities), of which an edition is offered some in its prompt  *)
(* (select_recurring_entities), and the bylines of its articles, which     *)
(* rotate (select_newsroom_bylines).  Whoever an event names and whoever   *)
(* signs an article has appeared, and _entity_updates rewrites his row.    *)
(*                                                                         *)
(* The random choice takes every entity with a weight above 0: any of them *)
(* may come out.  After each edition the worker has the control plane      *)
(* retire or delete who has not been seen for long (maintain_retention).   *)
(***************************************************************************)
EXTENDS Naturals, Sequences, FiniteSets, FiniteSetsExt, Functions

CONSTANTS
  Core,            \* journalist_core_names, in order
  PerEdition,      \* journalist_core_per_edition
  Guests,          \* journalists that are not of the core
  Others,          \* entities that are not journalists
  OtherPerEdition, \* other_entities_per_edition
  Cooldown,        \* default_cooldown_issues
  KeepRecurring,   \* recurring_inactive_issues
  KeepNonrecurring,\* nonrecurring_keep_issues
  Nameable,        \* bound: whom the planner's events may name
  Promising,       \* bound: whom it may mark as candidates to recur
  MaxIssues        \* bound: issues

Staff == {Core[i] : i \in DOMAIN Core}
Journalists == Staff \cup Guests
People == Journalists \cup Others

\* config.py demands six names at least, two to five bylines and positive limits.
ASSUME NewsroomAssumption ==
  /\ Core \in Seq(Staff)
  /\ IsInjective(Core)
  /\ Len(Core) >= 6
  /\ PerEdition \in 2..5
  /\ Journalists \cap Others = {}
  /\ Nameable \subseteq People
  /\ OtherPerEdition \in Nat
  /\ Cooldown \in Nat
  /\ KeepRecurring \in Nat \ {0}
  /\ KeepNonrecurring \in Nat \ {0}

VARIABLES
  register,  \* person -> row, for those that have one
  draft,     \* <<run>> of the generation under way, or << >>
  history    \* issue number -> [named, candidates, signed, offered]

newsVars == <<register, draft, history>>

NewsInit ==
  /\ register = << >>
  /\ draft = << >>
  /\ history = << >>

-----------------------------------------------------------------------------
NextIssue == Len(history) + 1

\* Mutant: everybody is there for every issue.
EligibleAll(person, issue) == ~register[person].retired

EligibleFor(person, issue) ==
  /\ ~register[person].retired
  /\ register[person].cooldown <= issue
  /\ register[person].last < issue

\* select_recurring_entities: count of those eligible, or all when they are fewer.
Selections(people, issue, count) ==
  LET eligible == {e \in people \cap DOMAIN register : EligibleFor(e, issue)}
  IN kSubset(IF Cardinality(eligible) < count THEN Cardinality(eligible) ELSE count,
             eligible)

\* Mutant: the names do not move on from one issue to the next.
FirstNames(issue) == {Core[1 + k] : k \in 0..(PerEdition - 1)}

\* select_newsroom_bylines, two names on from one issue to the next.  The six
\* articles of an edition use all of them (_materialize_edition).
Bylines(issue) ==
  LET start == ((issue - 1) * 2) % Len(Core)
  IN {Core[1 + ((start + k) % Len(Core))] : k \in 0..(PerEdition - 1)}

Appearances(person) == IF person \in DOMAIN register THEN register[person].count ELSE 0

\* A row that is there keeps what it says of recurring, unless he signs unnamed.
Row(person, run, issue, appearances) ==
  LET known == person \in DOMAIN register
  IN [count |-> appearances,
      first |-> IF known THEN register[person].first ELSE issue,
      last |-> issue,
      cooldown |-> issue + Cooldown + 1,
      recurring |-> IF known /\ person \in run.named THEN register[person].recurring
                    ELSE person \in run.candidates \cup run.signed,
      retired |-> known /\ register[person].retired]

\* Mutant: who is named and signs as well is counted twice.
EntityUpdatesTwice(run, issue) ==
  [e \in run.named \cup run.signed |->
     Row(e, run, issue, Appearances(e) + IF e \in run.named \cap run.signed THEN 2 ELSE 1)]

\* _entity_updates: once for all events and all bylines.
EntityUpdates(run, issue) ==
  [e \in run.named \cup run.signed |-> Row(e, run, issue, Appearances(e) + 1)]

\* execute: prompt and rows come from the register as it is at the start.  Of those it
\* names the planner marks some as candidates to recur.
GenerateIssue ==
  /\ draft = << >>
  /\ NextIssue <= MaxIssues
  /\ \E journalists \in Selections(Journalists, NextIssue, PerEdition),
        others \in Selections(Others, NextIssue, OtherPerEdition),
        named \in SUBSET Nameable :
     \E candidates \in SUBSET (named \cap Promising) :
       LET run == [named |-> named,
                   candidates |-> candidates,
                   signed |-> Bylines(NextIssue),
                   offered |-> journalists \cup others]
       IN draft' = <<[run |-> run, updates |-> EntityUpdates(run, NextIssue)]>>
  /\ UNCHANGED <<register, history>>

\* materialize writes the rows with the edition, whoever was deleted meanwhile.
MaterializeIssue ==
  /\ draft # << >>
  /\ LET updates == draft[1].updates
     IN register' = [e \in DOMAIN register \cup DOMAIN updates |->
                       IF e \in DOMAIN updates THEN updates[e] ELSE register[e]]
  /\ history' = Append(history, draft[1].run)
  /\ draft' = << >>

AbandonIssue ==
  /\ draft # << >>
  /\ draft' = << >>
  /\ UNCHANGED <<register, history>>

\* The issues since a person was last seen.
Inactive(person) == Len(history) - register[person].last

\* maintain_retention, at any time: who recurs is retired after KeepRecurring issues
\* unless he is a journalist, who does not after KeepNonrecurring (SDS 12.9).  The row
\* of a run that is under way brings him back.
Retire ==
  /\ \E e \in DOMAIN register :
       /\ ~register[e].retired
       /\ IF register[e].recurring THEN e \notin Journalists /\ Inactive(e) >= KeepRecurring
                                  ELSE Inactive(e) >= KeepNonrecurring
       /\ register' = [register EXCEPT ![e].retired = TRUE]
  /\ UNCHANGED <<draft, history>>

\* Who does not recur and is no journalist may be deleted instead.
Forget ==
  /\ \E e \in DOMAIN register \cap Others :
       /\ ~register[e].recurring /\ Inactive(e) >= KeepNonrecurring
       /\ register' = Restrict(register, DOMAIN register \ {e})
  /\ UNCHANGED <<draft, history>>

NewsNext == GenerateIssue \/ MaterializeIssue \/ AbandonIssue \/ Retire \/ Forget

NewsSpec == NewsInit /\ [][NewsNext]_newsVars

-----------------------------------------------------------------------------
AppearedIn(person, i) == person \in history[i].named \cup history[i].signed

\* Nobody is offered to the planner again before Cooldown issues have passed without
\* him, whether an event named him or he signed an article (SDS 8.7).
CooldownKept ==
  \A i, k \in DOMAIN history :
    (k < i /\ i <= k + Cooldown) => \A e \in history[i].offered : ~AppearedIn(e, k)

\* Retention forgets an appearance only of one who is no journalist, was no candidate
\* to recur when he first came, and was not seen for KeepNonrecurring issues since.
ForgottenForCause(person, i, since) ==
  /\ person \in Others
  /\ i + KeepNonrecurring <= since
  /\ \E k \in 1..i : AppearedIn(person, k) /\ person \notin history[k].candidates

\* The register tells the history of the issues: the row of a person counts all that
\* he appeared in from the first it names to the last, whatever was abandoned, retired
\* or deleted in between and whichever run was under way; what he appeared in before
\* was forgotten for cause, and so was all of it when he has no row.
RegisterIsHistory ==
  \A e \in People :
    LET seen == {i \in DOMAIN history : AppearedIn(e, i)}
        here == e \in DOMAIN register
        told == {i \in seen : here /\ register[e].first <= i}
    IN /\ here => /\ told # {}
                  /\ register[e].count = Cardinality(told)
                  /\ register[e].first = Min(told)
                  /\ register[e].last = Max(told)
       /\ \A i \in seen \ told :
            ForgottenForCause(e, i, IF here THEN register[e].first - 1 ELSE Len(history))

\* The newsroom rotates: nobody signs three issues in a row (PerEdition <= 4), and
\* within as many issues as it takes to go round by two everybody has signed.
BylinesRotate ==
  LET Signs(e, i) == e \in history[i].signed
      round == (Len(Core) + 1) \div 2
  IN \A e \in Staff, i \in DOMAIN history :
       /\ i >= 3 /\ PerEdition <= 4 => \E k \in (i - 2)..i : ~Signs(e, k)
       /\ i >= round => \E k \in (i - round + 1)..i : Signs(e, k)
=============================================================================
