------------------------------ MODULE Editorial ------------------------------
(***************************************************************************)
(* The memory of the newspaper from one edition to the next: plan_edition  *)
(* chooses, for an edition's slots, reporting modes and the storylines     *)
(* they continue or start (generation/editorial_planner.py); the pipeline  *)
(* turns the plan into rows to write (_storyline_updates,                  *)
(* generation/pipeline.py, and advance_storyline,                          *)
(* generation/storylines.py); the control plane writes them when it        *)
(* materializes the edition.  The random generator of the plan is a choice *)
(* among everything it can yield with probabilities other than 0 and 1.    *)
(*                                                                         *)
(* Time is counted in editions: schedule_slot of job j is j, two days.     *)
(***************************************************************************)
EXTENDS Naturals, Sequences, FiniteSets, Functions

CONSTANTS
  SlotOrder,         \* SLOTS of the planner, or a part of it
  Kind,              \* slot -> breaking, lead, major, minor or brief
  ModesFor,          \* kind -> the reporting modes its weights allow
  Jobs,              \* schedule slots
  Fingerprints,      \* what storyline_fingerprint can return
  Gaps,              \* gap_editions, 1..3 in the code
  FinalAppearance,   \* 4 in the code, and max_appearances_including_first
  MaxContinuations,  \* max_continuations_per_edition
  MaxNew,            \* max_new_storylines_per_edition
  Generators,        \* the ticks that may be generating at a time
  None

Slots == {SlotOrder[i] : i \in DOMAIN SlotOrder}
Modes == UNION {ModesFor[k] : k \in DOMAIN ModesFor}
Fake == "intentional_fake"

ASSUME EditorialAssumption ==
  /\ SlotOrder \in Seq({"breaking-1", "breaking-2", "breaking-3", "lead", "major-1",
                        "major-2", "minor-1", "minor-2", "brief"})
  /\ \A i, k \in DOMAIN SlotOrder : SlotOrder[i] = SlotOrder[k] => i = k
  /\ Kind \in [Slots -> {"breaking", "lead", "major", "minor", "brief"}]
  /\ DOMAIN ModesFor = {"breaking", "lead", "major", "minor", "brief"}
  /\ \A k \in DOMAIN ModesFor : Fake \in ModesFor[k] => k \in {"minor", "brief"}
  /\ Jobs \subseteq Nat \ {0}
  /\ Gaps \subseteq Nat \ {0}
  /\ FinalAppearance \in Nat \ {0, 1}
  /\ MaxContinuations \in Nat
  /\ MaxNew \in 0..2   \* as config.py accepts it

\* A new storyline's id is derived from its schedule slot and slot.
Lines == Jobs \X Slots

VARIABLES
  ledger,     \* gazzetta_storylines: line -> row, for the lines that exist
  editions,   \* issue_number -> [job, shown : line -> appearance,
              \*                  voice : line -> [mode, kind]]
  run         \* generator -> the run it has prepared, or None

vars == <<ledger, editions, run>>

Rows == [status : {"cooling", "closed", "epilogue"},
         count : 1..FinalAppearance,
         last : Nat,          \* last_issue
         eligible : Nat,      \* next_eligible_at, 0 when it is None
         mode : Modes,
         fingerprint : Fingerprints]

PartialFunctions(S, T) == UNION {[D -> T] : D \in SUBSET S}

Init ==
  /\ ledger = << >>
  /\ editions = << >>
  /\ run = [g \in Generators |-> None]

-----------------------------------------------------------------------------
(* plan_edition.                                                           *)

Eligible(row, issue, job) == row.eligible <= job /\ row.last < issue

Ordinary(issue, job) ==
  {l \in DOMAIN ledger : /\ ledger[l].status = "cooling"
                         /\ ledger[l].count < FinalAppearance
                         /\ Eligible(ledger[l], issue, job)}

Epilogues(issue, job) ==
  {l \in DOMAIN ledger : ledger[l].status = "closed" /\ Eligible(ledger[l], issue, job)}

\* The kinds a storyline of some mode may continue in.
AllowedKinds(mode) == IF mode \in {"satirical_report", Fake} THEN {"minor", "brief"}
                      ELSE {"major", "minor", "brief"}

\* storyline_by_slot: one slot each, at most MaxContinuations, at most one fake.
Continuations(issue, job) ==
  {c \in PartialFunctions(Slots, Ordinary(issue, job) \cup Epilogues(issue, job)) :
     /\ Cardinality(DOMAIN c) <= MaxContinuations
     /\ \A s \in DOMAIN c : Kind[s] \in AllowedKinds(ledger[c[s]].mode)
     /\ \A s, t \in DOMAIN c : /\ c[s] = c[t] => s = t
                               /\ ledger[c[s]].mode = Fake /\ ledger[c[t]].mode = Fake
                                    => s = t}

Before(s) == {SlotOrder[k] : k \in {k \in DOMAIN SlotOrder :
                \E i \in DOMAIN SlotOrder : SlotOrder[i] = s /\ k < i}}

FakeUsed(c, m, s) == \/ \E t \in Before(s) : m[t] = Fake
                     \/ \E t \in DOMAIN c : ledger[c[t]].mode = Fake

\* Mutant: a continuation draws its mode anew.
ModeDrawn(c, m, s) == m[s] \in ModesFor[Kind[s]] /\ (m[s] = Fake => ~FakeUsed(c, m, s))

ModeOf(c, m, s) ==
  IF s \in DOMAIN c THEN m[s] = ledger[c[s]].mode
  ELSE m[s] \in ModesFor[Kind[s]] /\ (m[s] = Fake => ~FakeUsed(c, m, s))

\* Mutant: a fake may open a storyline.
CanStartAny(c, m, s) == s \notin DOMAIN c /\ Kind[s] # "breaking"

CanStart(c, m, s) == s \notin DOMAIN c /\ Kind[s] # "breaking" /\ m[s] # Fake

Plans(issue, job) ==
  {[cont |-> x[1], mode |-> x[2], start |-> x[3]] :
     x \in {x \in Continuations(issue, job) \X [Slots -> Modes] \X SUBSET Slots :
        /\ \A s \in Slots : ModeOf(x[1], x[2], s)
        /\ \A s \in x[3] : CanStart(x[1], x[2], s)
        /\ Cardinality(x[3]) <= MaxNew}}

-----------------------------------------------------------------------------
(* _materialize_events gives the model's events the mode and the storyline *)
(* of the plan, and validate_event_set judges them before any prose.       *)

Primary == {"breaking", "lead", "major"}

\* Mutant: the slot's number is not cut off before its kind is looked up.
MinimumByName(s, mode) ==
  IF mode = Fake THEN 0 ELSE IF s \in Primary THEN 75 ELSE 55

\* _minimum_source_reliability in percent: what the sources of an event are raised
\* to, however little the model trusts them.
MinimumReliability(s, mode) ==
  IF mode = Fake THEN 0 ELSE IF Kind[s] \in Primary THEN 75 ELSE 55

\* One event for each slot, as EventPlanResponse demands.
Events(plan) ==
  [s \in Slots |-> [mode |-> plan.mode[s],
                    line |-> IF s \in DOMAIN plan.cont THEN plan.cont[s] ELSE None,
                    candidate |-> s \in plan.start,
                    best |-> MinimumReliability(s, plan.mode[s])]]

\* validate_event_set on modes, storylines and sources.  What it refuses for its text
\* or its place is left to Pipeline.
ValidEvents(event) ==
  /\ Cardinality({s \in Slots : event[s].mode = Fake}) <= 1
  /\ \A s, t \in Slots : event[s].line = event[t].line /\ event[s].line # None => s = t
  /\ Cardinality({s \in Slots : event[s].candidate}) <= 2
  /\ \A s \in Slots :
       /\ event[s].candidate => Kind[s] \in {"lead", "major", "minor", "brief"}
       /\ event[s].mode # Fake => event[s].best >= 50
       /\ Kind[s] \in Primary => event[s].best >= 70

-----------------------------------------------------------------------------
(* _storyline_updates.                                                     *)

Created(job, issue, mode, fingerprint, gap) ==
  [status |-> "cooling", count |-> 1, last |-> issue, eligible |-> job + gap,
   mode |-> mode, fingerprint |-> fingerprint]

IsEpilogue(l) == ledger[l].status = "closed"

\* advance_storyline refuses a second appearance in an issue, an epilogue of what
\* is not closed and anything but an epilogue of what is.
CanAdvance(row, issue, epilogue) ==
  /\ row.last < issue
  /\ IF epilogue THEN row.status = "closed"
     ELSE row.status = "cooling" /\ row.count < FinalAppearance

\* What the plan asks of the events and of the storylines is granted.
Granted(plan, issue) ==
  /\ ValidEvents(Events(plan))
  /\ \A l \in Range(plan.cont) : CanAdvance(ledger[l], issue, IsEpilogue(l))

\* Mutants: a continuation is not counted; the final appearance does not close.
AdvancedUncounted(row, issue, job, gap, epilogue) ==
  IF epilogue
  THEN [row EXCEPT !.status = "epilogue", !.last = issue, !.eligible = 0]
  ELSE [row EXCEPT !.last = issue, !.eligible = job + gap]

AdvancedNeverClosing(row, issue, job, gap, epilogue) ==
  [row EXCEPT !.count = IF epilogue THEN @ ELSE @ + 1, !.last = issue,
              !.eligible = job + gap]

Advanced(row, issue, job, gap, epilogue) ==
  IF epilogue
  THEN [row EXCEPT !.status = "epilogue", !.last = issue, !.eligible = 0]
  ELSE LET closes == row.count + 1 = FinalAppearance
       IN [row EXCEPT !.status = IF closes THEN "closed" ELSE "cooling",
                      !.count = @ + 1,
                      !.last = issue,
                      !.eligible = IF closes THEN 0 ELSE job + gap]

\* storyline_appearance of the plan: an epilogue is the one after the final one.
Appearance(l) == IF IsEpilogue(l) THEN FinalAppearance + 1 ELSE ledger[l].count + 1

\* Mutant: new storylines are compared with one another only.
FreshAmongThemselves(plan, fp) == \A s, t \in plan.start : fp[s] = fp[t] => s = t

\* A new storyline that duplicates another is InvalidGeneration.
Fresh(plan, fp) ==
  /\ \A s \in plan.start, l \in DOMAIN ledger : fp[s] # ledger[l].fingerprint
  /\ \A s, t \in plan.start : fp[s] = fp[t] => s = t

Updates(plan, job, issue, fp, gap) ==
  LET continued == Range(plan.cont)
      started == {<<job, s>> : s \in plan.start}
  IN [l \in continued \cup started |->
        IF l \in started
        THEN Created(job, issue, plan.mode[l[2]], fp[l[2]], gap[l[2]])
        ELSE LET s == CHOOSE s \in DOMAIN plan.cont : plan.cont[s] = l
             IN Advanced(ledger[l], issue, job, gap[s], IsEpilogue(l))]

Shown(plan, job) ==
  LET continued == Range(plan.cont)
  IN [l \in continued \cup {<<job, s>> : s \in plan.start} |->
        IF l \in continued THEN Appearance(l) ELSE 1]

\* The mode an article tells its storyline in, and the kind of slot it stands in.
Voice(plan, job) ==
  LET started == {<<job, s>> : s \in plan.start}
  IN [l \in Range(plan.cont) \cup started |->
        LET s == IF l \in started THEN l[2]
                 ELSE CHOOSE s \in DOMAIN plan.cont : plan.cont[s] = l
        IN [mode |-> Events(plan)[s].mode, kind |-> Kind[s]]]

-----------------------------------------------------------------------------
\* The storylines of the planner's prompt: _planner_payload sends them all.
Prompted == DOMAIN ledger

\* execute: the state is read once, at the start, and everything the run writes
\* is computed from it.  A response that duplicates a storyline leaves no run and no
\* trace; a plan that is refused is kept as such and never materialized.
Execute(g) ==
  \E job \in Jobs :
    LET issue == Len(editions) + 1
    IN /\ run[g] = None
       /\ \A i \in DOMAIN editions : editions[i].job # job
       /\ \E plan \in Plans(issue, job) :
            /\ \E fp \in [plan.start -> Fingerprints],
                 gap \in [plan.start \cup DOMAIN plan.cont -> Gaps] :
                 /\ Fresh(plan, fp)
                 /\ run' = [run EXCEPT ![g] =
                      [job |-> job,
                       granted |-> Granted(plan, issue),
                       plan |-> plan,
                       prompted |-> Prompted,
                       updates |-> Updates(plan, job, issue, fp, gap),
                       shown |-> Shown(plan, job),
                       voice |-> Voice(plan, job)]]
       /\ UNCHANGED <<ledger, editions>>

\* materialize: the edition gets the next number and the rows are written as the
\* run has them; a job that has an edition already keeps it.
Materialize(g) ==
  /\ run[g] # None
  /\ run[g].granted
  /\ IF \E i \in DOMAIN editions : editions[i].job = run[g].job
     THEN UNCHANGED <<ledger, editions>>
     ELSE /\ editions' = Append(editions, [job |-> run[g].job, shown |-> run[g].shown,
                                           voice |-> run[g].voice])
          /\ ledger' = [l \in DOMAIN ledger \cup DOMAIN run[g].updates |->
                          IF l \in DOMAIN run[g].updates THEN run[g].updates[l]
                          ELSE ledger[l]]
  /\ run' = [run EXCEPT ![g] = None]

\* The tick is killed, its lease is lost or its run is refused.
Abandon(g) ==
  /\ run[g] # None
  /\ run' = [run EXCEPT ![g] = None]
  /\ UNCHANGED <<ledger, editions>>

Next == \E g \in Generators : Execute(g) \/ Materialize(g) \/ Abandon(g)

Spec == Init /\ [][Next]_vars

-----------------------------------------------------------------------------
\* The rows are rows of the ledger: open below the final appearance, and with a
\* date to return at only while open.
TypeOK ==
  /\ DOMAIN ledger \subseteq Lines
  /\ \A l \in DOMAIN ledger :
       /\ ledger[l] \in Rows
       /\ ledger[l].status = "cooling" <=> ledger[l].count < FinalAppearance
       /\ ledger[l].status = "cooling" <=> ledger[l].eligible # 0
  /\ \A i \in DOMAIN editions : editions[i].job \in Jobs

\* The ledger with its statuses, counts and dates, abandoned runs and jobs that are
\* materialized out of schedule order give the reader the stories that Serial
\* promises: four parts and an epilogue, numbered in order, at their distance.
PrintedStories == INSTANCE Serial WITH issues <- editions

ImplementsSerial == PrintedStories!Spec

\* At most one deliberate fake in an edition, in a minor or brief slot, and never
\* part of a storyline: no later edition returns to it as if it were news.
FakesStandAlone ==
  /\ \A l \in DOMAIN ledger : ledger[l].mode # Fake
  /\ \A g \in Generators : run[g] # None =>
       LET fakes == {s \in Slots : run[g].plan.mode[s] = Fake}
       IN /\ Cardinality(fakes) <= 1
          /\ \A s \in fakes : Kind[s] \in {"minor", "brief"}

\* The reader hears a storyline in one mode from its first part to its epilogue, though
\* the mode goes by way of rows rewritten at every part and runs abandoned in between;
\* no later part leads an edition, and no later part of a satire is more than minor.
OneVoice ==
  \A i, k \in DOMAIN editions :
    \A l \in DOMAIN editions[i].voice \cap DOMAIN editions[k].voice :
      LET first == editions[i].voice[l]
          later == editions[k].voice[l]
      IN /\ later.mode = first.mode
         /\ i < k => /\ later.kind \in {"major", "minor", "brief"}
                     /\ first.mode = "satirical_report" => later.kind # "major"

\* No plan is refused after the fact: validate_event_set and advance_storyline, whose
\* ValueError would fail the job for good, find in order all that plan_edition can
\* draw, whatever the ledger has become.
NothingRefused == \A g \in Generators : run[g] # None => run[g].granted

\* Two storylines of the ledger never share a fingerprint.
DistinctStorylines ==
  \A k, l \in DOMAIN ledger : ledger[k].fingerprint = ledger[l].fingerprint => k = l

\* A closed storyline enters the prompt only for its epilogue (SDS 9.2).
ClosedNotPrompted ==
  \A g \in Generators : run[g] # None =>
    \A l \in run[g].prompted : ledger[l].status \in {"closed", "epilogue"} =>
      l \in Range(run[g].plan.cont)
=============================================================================
