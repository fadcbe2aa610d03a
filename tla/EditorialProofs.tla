--------------------------- MODULE EditorialProofs ---------------------------
(***************************************************************************)
(* Proofs about Editorial for every layout of slots, policy and ledger.    *)
(* For any number of generations at a time: deliberate fakes stand alone,  *)
(* a storyline keeps its mode, the rows are rows and no plan is refused.   *)
(* For one at a time: storylines are distinct and Serial is implemented.   *)
(***************************************************************************)
EXTENDS Editorial, Counting

\* A row has the fields of a row.
IsRow(r) == r = [status |-> r.status, count |-> r.count, last |-> r.last,
                 eligible |-> r.eligible, mode |-> r.mode, fingerprint |-> r.fingerprint]

\* Rows that are no fake: those of the ledger and those a run would write.
Serious(rows) == \A l \in DOMAIN rows : IsRow(rows[l]) /\ rows[l].mode # Fake

Fakes(plan) == {s \in Slots : plan.mode[s] = Fake}

OneFake(plan) ==
  /\ \A s, t \in Fakes(plan) : s = t
  /\ \A s \in Fakes(plan) : Kind[s] \in {"minor", "brief"}

FInv ==
  /\ Serious(ledger)
  /\ DOMAIN run = Generators
  /\ \A g \in Generators : run[g] # None => /\ OneFake(run[g].plan)
                                            /\ Serious(run[g].updates)

-----------------------------------------------------------------------------
\* What a plan is, drawn from a ledger without fakes.
LEMMA PlanOf ==
  ASSUME NEW issue, NEW job, NEW plan \in Plans(issue, job)
  PROVE  /\ plan.cont \in Continuations(issue, job)
         /\ \A s \in Slots : ModeOf(plan.cont, plan.mode, s)
         /\ plan.start \subseteq Slots
         /\ \A s \in plan.start : CanStart(plan.cont, plan.mode, s)
  BY DEF Plans

LEMMA ContinuationOf ==
  ASSUME NEW issue, NEW job, NEW c \in Continuations(issue, job)
  PROVE  DOMAIN c \subseteq Slots /\ \A s \in DOMAIN c : c[s] \in DOMAIN ledger
<1>1. PICK D \in SUBSET Slots : c \in [D -> Ordinary(issue, job) \cup Epilogues(issue, job)]
  BY DEF Continuations, PartialFunctions
<1>2. Ordinary(issue, job) \cup Epilogues(issue, job) \subseteq DOMAIN ledger
  BY DEF Ordinary, Epilogues
<1> QED
  BY <1>1, <1>2

\* Two fakes in an edition: neither is a continuation, and the one that comes later in
\* SlotOrder has been drawn when the other was there.
LEMMA PlansHaveOneFake ==
  ASSUME Serious(ledger), NEW issue, NEW job, NEW plan \in Plans(issue, job)
  PROVE  OneFake(plan)
<1>1. /\ \A s \in Slots : ModeOf(plan.cont, plan.mode, s)
      /\ \A s \in DOMAIN plan.cont : plan.cont[s] \in DOMAIN ledger
  BY PlanOf, ContinuationOf
<1>2. ASSUME NEW s \in Fakes(plan)
      PROVE  /\ Fake \in ModesFor[Kind[s]]
             /\ ~FakeUsed(plan.cont, plan.mode, s)
  <2>1. s \in Slots /\ plan.mode[s] = Fake
    BY DEF Fakes
  <2>2. s \notin DOMAIN plan.cont
    BY <1>1, <2>1 DEF ModeOf, Serious
  <2> QED
    BY <1>1, <2>1, <2>2 DEF ModeOf
<1>3. ASSUME NEW s \in Fakes(plan)
      PROVE  Kind[s] \in {"minor", "brief"}
  <2>1. Kind[s] \in DOMAIN ModesFor
    BY EditorialAssumption DEF Fakes
  <2> QED
    BY <1>2, <2>1, EditorialAssumption
<1>4. ASSUME NEW s \in Fakes(plan), NEW t \in Fakes(plan), s # t
      PROVE  FALSE
  <2>1. PICK i \in DOMAIN SlotOrder, k \in DOMAIN SlotOrder :
          SlotOrder[i] = s /\ SlotOrder[k] = t
    BY DEF Fakes, Slots
  <2>2. i \in Int /\ k \in Int /\ i # k
    BY <1>4, <2>1, EditorialAssumption
  <2>3. CASE i < k
    <3>1. s \in Before(t)
      BY <2>1, <2>3 DEF Before
    <3> QED
      BY <1>2, <3>1 DEF FakeUsed, Fakes
  <2>4. CASE k < i
    <3>1. t \in Before(s)
      BY <2>1, <2>4 DEF Before
    <3> QED
      BY <1>2, <3>1 DEF FakeUsed, Fakes
  <2> QED
    BY <2>2, <2>3, <2>4
<1> QED
  BY <1>3, <1>4 DEF OneFake

\* A row keeps its mode when its story goes on.
LEMMA AdvancedKeepsMode ==
  ASSUME NEW row, IsRow(row), NEW issue, NEW job, NEW gap, NEW epilogue
  PROVE  LET after == Advanced(row, issue, job, gap, epilogue)
         IN IsRow(after) /\ after.mode = row.mode
<1> DEFINE r == [status |-> row.status, count |-> row.count, last |-> row.last,
                 eligible |-> row.eligible, mode |-> row.mode,
                 fingerprint |-> row.fingerprint]
<1>1. Advanced(row, issue, job, gap, epilogue) = Advanced(r, issue, job, gap, epilogue)
  BY DEF IsRow
<1>2. CASE epilogue
  BY <1>1, <1>2 DEF Advanced, IsRow
<1>3. CASE ~epilogue
  BY <1>1, <1>3 DEF Advanced, IsRow
<1> QED
  BY <1>2, <1>3

\* What a run writes is no fake either: a continued row keeps its mode, and a fake
\* does not start a storyline.
LEMMA UpdatesSerious ==
  ASSUME Serious(ledger), NEW issue, NEW job, NEW plan \in Plans(issue, job), NEW fp, NEW gap
  PROVE  Serious(Updates(plan, job, issue, fp, gap))
<1> DEFINE started == {<<job, s>> : s \in plan.start}
           continued == Range(plan.cont)
           u == Updates(plan, job, issue, fp, gap)
<1>1. DOMAIN u = continued \cup started
  BY DEF Updates
<1>2. ASSUME NEW l \in started
      PROVE  IsRow(u[l]) /\ u[l].mode # Fake
  <2>1. PICK s \in plan.start : l = <<job, s>>
    OBVIOUS
  <2>2. u[l] = Created(job, issue, plan.mode[s], fp[s], gap[s])
    BY <2>1 DEF Updates
  <2>3. plan.mode[s] # Fake
    BY PlanOf DEF CanStart
  <2> QED
    BY <2>2, <2>3 DEF Created, IsRow
<1>3. ASSUME NEW l \in continued, l \notin started
      PROVE  IsRow(u[l]) /\ u[l].mode # Fake
  <2>1. l \in DOMAIN ledger
    BY PlanOf, ContinuationOf DEF Range
  <2>2. PICK g : u[l] = Advanced(ledger[l], issue, job, g, IsEpilogue(l))
    BY <1>3 DEF Updates
  <2>3. IsRow(ledger[l]) /\ ledger[l].mode # Fake
    BY <2>1 DEF Serious
  <2> QED
    BY <2>2, <2>3, AdvancedKeepsMode
<1> QED
  BY <1>1, <1>2, <1>3 DEF Serious

-----------------------------------------------------------------------------
LEMMA ExecuteStep ==
  ASSUME FInv, NEW g \in Generators, Execute(g)
  PROVE  FInv'
<1> DEFINE issue == Len(editions) + 1
<1>0. PICK job \in Jobs :
        /\ run[g] = None
        /\ \E plan \in Plans(issue, job) :
             \E fp \in [plan.start -> Fingerprints],
                gap \in [plan.start \cup DOMAIN plan.cont -> Gaps] :
               /\ Fresh(plan, fp)
               /\ run' = [run EXCEPT ![g] =
                    [job |-> job, granted |-> Granted(plan, issue), plan |-> plan,
                     prompted |-> Prompted,
                     updates |-> Updates(plan, job, issue, fp, gap),
                     shown |-> Shown(plan, job), voice |-> Voice(plan, job)]]
        /\ ledger' = ledger
  BY DEF Execute
<1> HIDE DEF issue
<1>a. PICK plan \in Plans(issue, job) :
        \E fp, gap :
          run' = [run EXCEPT ![g] =
                    [job |-> job, granted |-> Granted(plan, issue), plan |-> plan,
                     prompted |-> Prompted,
                     updates |-> Updates(plan, job, issue, fp, gap),
                     shown |-> Shown(plan, job), voice |-> Voice(plan, job)]]
  BY <1>0
<1>1. PICK fp, gap :
        run' = [run EXCEPT ![g] =
                  [job |-> job, granted |-> Granted(plan, issue), plan |-> plan,
                   prompted |-> Prompted,
                   updates |-> Updates(plan, job, issue, fp, gap),
                   shown |-> Shown(plan, job), voice |-> Voice(plan, job)]]
  BY <1>a
<1>2. OneFake(plan) /\ Serious(Updates(plan, job, issue, fp, gap))
  BY PlansHaveOneFake, UpdatesSerious DEF FInv
<1>3. Serious(ledger)'
  BY <1>0 DEF FInv, Serious
<1>4. run'[g].plan = plan /\ run'[g].updates = Updates(plan, job, issue, fp, gap)
  BY <1>1 DEF FInv
<1>5. \A h \in Generators \ {g} : run'[h] = run[h]
  BY <1>1 DEF FInv
<1>6. DOMAIN run' = Generators
  BY <1>1 DEF FInv
<1> QED
  BY <1>2, <1>3, <1>4, <1>5, <1>6 DEF FInv, OneFake, Fakes, Serious

LEMMA MaterializeStep ==
  ASSUME FInv, NEW g \in Generators, Materialize(g)
  PROVE  FInv'
<1>1. /\ DOMAIN run' = Generators
      /\ run'[g] = None
      /\ \A h \in Generators \ {g} : run'[h] = run[h]
  BY DEF Materialize, FInv
<1>2. Serious(ledger)'
  <2>1. CASE ledger' = ledger
    BY <2>1 DEF FInv, Serious
  <2>2. CASE ledger' = [l \in DOMAIN ledger \cup DOMAIN run[g].updates |->
                          IF l \in DOMAIN run[g].updates THEN run[g].updates[l]
                          ELSE ledger[l]]
    <3>1. Serious(ledger) /\ Serious(run[g].updates)
      BY DEF FInv, Materialize
    <3> QED
      BY <2>2, <3>1 DEF Serious
  <2> QED
    BY <2>1, <2>2 DEF Materialize
<1> QED
  BY <1>1, <1>2 DEF FInv, OneFake, Fakes, Serious

LEMMA AbandonStep ==
  ASSUME FInv, NEW g \in Generators, Abandon(g)
  PROVE  FInv'
<1>1. /\ DOMAIN run' = Generators
      /\ run'[g] = None
      /\ \A h \in Generators \ {g} : run'[h] = run[h]
      /\ ledger' = ledger
  BY DEF Abandon, FInv
<1> QED
  BY <1>1 DEF FInv, OneFake, Fakes, Serious

\* No storyline of the ledger is a deliberate fake, and no edition has two: whatever
\* the ledger has become and however many generations overlap.
THEOREM FakesAlone == Spec => []FakesStandAlone
<1>1. Init => FInv
  BY DEF Init, FInv, Serious
<1>2. FInv /\ [Next]_vars => FInv'
  <2> SUFFICES ASSUME FInv, [Next]_vars PROVE FInv'
    OBVIOUS
  <2>1. CASE UNCHANGED vars
    BY <2>1 DEF vars, FInv, Serious, OneFake, Fakes
  <2>2. CASE Next
    BY <2>2, ExecuteStep, MaterializeStep, AbandonStep DEF Next
  <2> QED
    BY <2>1, <2>2
<1>3. FInv => FakesStandAlone
  <2> SUFFICES ASSUME FInv PROVE FakesStandAlone
    OBVIOUS
  <2>1. ASSUME NEW g \in Generators, run[g] # None
        PROVE  /\ Cardinality(Fakes(run[g].plan)) <= 1
               /\ \A s \in Fakes(run[g].plan) : Kind[s] \in {"minor", "brief"}
    <3>1. OneFake(run[g].plan)
      BY <2>1 DEF FInv
    <3>2. Fakes(run[g].plan) = {} \/ \E s : Fakes(run[g].plan) = {s}
      BY <3>1 DEF OneFake
    <3>3. Cardinality(Fakes(run[g].plan)) \in {0, 1}
      <4>1. CASE Fakes(run[g].plan) = {}
        BY <4>1, FS_EmptySet, Zenon
      <4>2. CASE \E s : Fakes(run[g].plan) = {s}
        BY <4>2, FS_Singleton, Zenon
      <4> QED
        BY <3>2, <4>1, <4>2
    <3>4. Cardinality(Fakes(run[g].plan)) <= 1
      BY <3>3
    <3> QED
      BY <3>1, <3>4 DEF OneFake
  <2>2. \A l \in DOMAIN ledger : ledger[l].mode # Fake
    BY DEF FInv, Serious
  <2>3. ASSUME NEW g \in Generators, run[g] # None
        PROVE  LET fakes == {s \in Slots : run[g].plan.mode[s] = Fake}
               IN /\ Cardinality(fakes) <= 1
                  /\ \A s \in fakes : Kind[s] \in {"minor", "brief"}
    BY <2>1, <2>3 DEF Fakes
  <2> QED
    BY <2>2, <2>3 DEF FakesStandAlone
<1> QED
  BY <1>1, <1>2, <1>3, PTL DEF Spec

-----------------------------------------------------------------------------
\* A story has appeared with the edition of the job it is named after.
Dated == \A l \in DOMAIN ledger : \E i \in DOMAIN editions : editions[i].job = l[1]

\* What the issues have printed of a story is in the mode of its row.
Heard ==
  \A i \in DOMAIN editions : \A l \in DOMAIN editions[i].voice :
    l \in DOMAIN ledger /\ editions[i].voice[l].mode = ledger[l].mode

\* What may follow a part of a story.
MayFollow(first, later) ==
  /\ later.kind \in {"major", "minor", "brief"}
  /\ first.mode = "satirical_report" => later.kind # "major"

Lowered ==
  \A i, k \in DOMAIN editions : i < k =>
    \A l \in DOMAIN editions[i].voice \cap DOMAIN editions[k].voice :
      MayFollow(editions[i].voice[l], editions[k].voice[l])

\* The row a run would write for a story is in the mode of that story, unless the story
\* is its own, and what it would print in the mode of the row and where that mode may go.
InVoice(r) ==
  /\ \A l \in DOMAIN r.updates :
       \/ l \in DOMAIN ledger /\ r.updates[l].mode = ledger[l].mode
       \/ l[1] = r.job
  /\ \A l \in DOMAIN r.voice :
       /\ l \in DOMAIN r.updates
       /\ r.voice[l].mode = r.updates[l].mode
       /\ \/ /\ l \in DOMAIN ledger
             /\ r.voice[l].kind \in AllowedKinds(ledger[l].mode)
          \/ l[1] = r.job

VInv ==
  /\ FInv
  /\ \E S : editions \in Seq(S)
  /\ Dated
  /\ Heard
  /\ Lowered
  /\ \A g \in Generators : run[g] # None => InVoice(run[g])

\* What a run prints of a story is in the mode of the row it writes, and where a story
\* of that mode may go on.
LEMMA VoiceOf ==
  ASSUME Serious(ledger), NEW issue, NEW job, NEW plan \in Plans(issue, job),
         NEW fp, NEW gap, NEW l \in DOMAIN Voice(plan, job)
  PROVE  LET u == Updates(plan, job, issue, fp, gap)
             v == Voice(plan, job)
         IN /\ l \in DOMAIN u
            /\ v[l].mode = u[l].mode
            /\ \/ l \in DOMAIN ledger /\ v[l].kind \in AllowedKinds(ledger[l].mode)
               \/ l[1] = job
<1> DEFINE started == {<<job, s>> : s \in plan.start}
           u == Updates(plan, job, issue, fp, gap)
           v == Voice(plan, job)
<1>1. l \in Range(plan.cont) \cup started /\ l \in DOMAIN u
  BY DEF Voice, Updates
<1>2. \A s \in Slots : Events(plan)[s].mode = plan.mode[s]
  BY DEF Events
<1>3. CASE l \in started
  <2>1. PICK s \in plan.start : l = <<job, s>>
    BY <1>3
  <2>2. s \in Slots
    BY PlanOf
  <2>3. v[l] = [mode |-> Events(plan)[s].mode, kind |-> Kind[s]]
    BY <1>1, <1>3, <2>1 DEF Voice
  <2>4. u[l] = Created(job, issue, plan.mode[s], fp[s], gap[s])
    BY <1>3, <2>1 DEF Updates
  <2> QED BY <1>1, <1>2, <2>1, <2>2, <2>3, <2>4 DEF Created
<1>4. CASE l \notin started
  <2> DEFINE s == CHOOSE s \in DOMAIN plan.cont : plan.cont[s] = l
  <2>1. s \in DOMAIN plan.cont /\ plan.cont[s] = l
    BY <1>1, <1>4 DEF Range
  <2>2. s \in Slots /\ l \in DOMAIN ledger
    BY <2>1, PlanOf, ContinuationOf
  <2>3. Kind[s] \in AllowedKinds(ledger[l].mode)
    <3>1. \A t \in DOMAIN plan.cont : Kind[t] \in AllowedKinds(ledger[plan.cont[t]].mode)
      BY PlanOf DEF Continuations
    <3> HIDE DEF s
    <3> QED BY <2>1, <3>1
  <2>4. plan.mode[s] = ledger[l].mode
    BY <2>1, <2>2, PlanOf DEF ModeOf
  <2>5. v[l] = [mode |-> Events(plan)[s].mode, kind |-> Kind[s]]
    BY <1>1, <1>4 DEF Voice
  <2>6. u[l] = Advanced(ledger[l], issue, job, gap[s], IsEpilogue(l))
    BY <1>1, <1>4 DEF Updates
  <2>7. u[l].mode = ledger[l].mode
    BY <2>2, <2>6, AdvancedKeepsMode DEF Serious
  <2> QED BY <1>1, <1>2, <2>2, <2>3, <2>4, <2>5, <2>7
<1> QED BY <1>3, <1>4

LEMMA VoiceExecute ==
  ASSUME VInv, NEW g \in Generators, Execute(g)
  PROVE  VInv'
<1>1. FInv'
  BY ExecuteStep DEF VInv
<1> DEFINE issue == Len(editions) + 1
           Drawn(job, plan, fp, gap) ==
             [job |-> job, granted |-> Granted(plan, issue), plan |-> plan,
              prompted |-> Prompted,
              updates |-> Updates(plan, job, issue, fp, gap),
              shown |-> Shown(plan, job), voice |-> Voice(plan, job)]
<1>2. PICK job \in Jobs :
        \E plan \in Plans(issue, job) :
          \E fp, gap : run' = [run EXCEPT ![g] = Drawn(job, plan, fp, gap)]
  BY DEF Execute
<1>3. PICK plan \in Plans(issue, job) :
        \E fp, gap : run' = [run EXCEPT ![g] = Drawn(job, plan, fp, gap)]
  BY <1>2
<1>4. PICK fp, gap : run' = [run EXCEPT ![g] = Drawn(job, plan, fp, gap)]
  BY <1>3
<1> DEFINE r == Drawn(job, plan, fp, gap)
<1>5. UNCHANGED <<ledger, editions>>
  BY DEF Execute
<1>6. InVoice(r)
  <2>1. ASSUME NEW l \in DOMAIN Voice(plan, job)
        PROVE  LET u == Updates(plan, job, issue, fp, gap)
                   v == Voice(plan, job)
               IN /\ l \in DOMAIN u
                  /\ v[l].mode = u[l].mode
                  /\ \/ l \in DOMAIN ledger /\ v[l].kind \in AllowedKinds(ledger[l].mode)
                     \/ l[1] = job
    <3> HIDE DEF issue
    <3> QED BY VoiceOf DEF VInv, FInv
  <2>2. ASSUME NEW l \in DOMAIN Updates(plan, job, issue, fp, gap)
        PROVE  \/ /\ l \in DOMAIN ledger
                  /\ Updates(plan, job, issue, fp, gap)[l].mode = ledger[l].mode
               \/ l[1] = job
    <3> HIDE DEF issue
    <3>1. CASE l \in {<<job, s>> : s \in plan.start}
      BY <3>1
    <3>2. CASE l \notin {<<job, s>> : s \in plan.start}
      <4>1. l \in Range(plan.cont)
        BY <3>2 DEF Updates
      <4>2. l \in DOMAIN ledger
        BY <4>1, PlanOf, ContinuationOf DEF Range
      <4>3. PICK n : Updates(plan, job, issue, fp, gap)[l]
                       = Advanced(ledger[l], issue, job, n, IsEpilogue(l))
        BY <3>2, <4>1 DEF Updates
      <4>4. IsRow(ledger[l])
        BY <4>2 DEF VInv, FInv, Serious
      <4> QED
        BY <4>2, <4>3, <4>4, AdvancedKeepsMode
    <3> QED
      BY <3>1, <3>2
  <2> QED
    BY <2>1, <2>2 DEF InVoice
<1>7. ASSUME NEW h \in Generators, run'[h] # None
      PROVE  InVoice(run[h])'
  <2>1. CASE h = g
    <3>1. run'[h] = r
      BY <1>1, <1>4, <2>1 DEF VInv, FInv
    <3> QED
      BY <1>5, <1>6, <3>1 DEF InVoice
  <2>2. CASE h # g
    <3>1. run'[h] = run[h]
      BY <1>4, <2>2 DEF VInv, FInv
    <3> QED
      BY <1>5, <1>7, <3>1 DEF InVoice, VInv
  <2> QED
    BY <2>1, <2>2
<1>8. (\E S : editions \in Seq(S))' /\ Dated' /\ Heard' /\ Lowered'
  BY <1>5 DEF VInv, Dated, Heard, Lowered
<1> QED
  BY <1>1, <1>7, <1>8 DEF VInv

\* No row that is there already changes its mode: a run writes a story of its own only
\* when its job has no edition yet, and the story none of the rows.
LEMMA VoiceMaterialize ==
  ASSUME VInv, NEW g \in Generators, Materialize(g)
  PROVE  VInv'
<1>1. FInv'
  BY MaterializeStep DEF VInv
<1> DEFINE u == run[g].updates
           job == run[g].job
<1>2. /\ run[g] # None
      /\ \A h \in Generators \ {g} : run'[h] = run[h]
      /\ run'[g] = None
  BY DEF Materialize, VInv, FInv
<1>3. InVoice(run[g])
  BY <1>2 DEF VInv
<1>4. /\ DOMAIN ledger \subseteq DOMAIN ledger'
      /\ \A l \in DOMAIN ledger : ledger'[l].mode = ledger[l].mode
      /\ (\E S : editions \in Seq(S))'
      /\ Dated'
      /\ Heard'
      /\ Lowered'
  <2>1. CASE UNCHANGED <<ledger, editions>>
    BY <2>1 DEF VInv, Dated, Heard, Lowered
  <2>2. CASE /\ \A i \in DOMAIN editions : editions[i].job # job
             /\ editions' = Append(editions, [job |-> job, shown |-> run[g].shown,
                                               voice |-> run[g].voice])
             /\ ledger' = [l \in DOMAIN ledger \cup DOMAIN u |->
                             IF l \in DOMAIN u THEN u[l] ELSE ledger[l]]
    <3>1. ASSUME NEW l \in DOMAIN ledger
          PROVE  ledger'[l].mode = ledger[l].mode
      <4>1. l[1] # job
        BY <2>2 DEF VInv, Dated
      <4> QED
        BY <1>3, <2>2, <4>1 DEF InVoice
    <3>2. PICK S : editions \in Seq(S)
      BY DEF VInv
    <3> DEFINE e == [job |-> job, shown |-> run[g].shown, voice |-> run[g].voice]
    <3>3. editions \in Seq(S \cup {e}) /\ e \in S \cup {e}
      BY <3>2
    <3> HIDE DEF e
    <3>4. /\ editions' \in Seq(S \cup {e})
          /\ \A i \in DOMAIN editions : i \in DOMAIN editions' /\ editions'[i] = editions[i]
          /\ Len(editions) + 1 \in DOMAIN editions'
          /\ editions'[Len(editions) + 1] = e
      BY <2>2, <3>3 DEF e
    <3>5. e.job = job
      BY DEF e
    <3>6. ASSUME NEW l \in DOMAIN ledger'
          PROVE  \E i \in DOMAIN editions' : editions'[i].job = l[1]
      <4>1. CASE l \in DOMAIN ledger
        BY <3>4, <4>1 DEF VInv, Dated
      <4>2. CASE l \notin DOMAIN ledger
        <5>1. l[1] = job
          BY <1>3, <2>2, <4>2 DEF InVoice
        <5> QED
          BY <3>4, <3>5, <5>1
      <4> QED
        BY <4>1, <4>2
    <3>7. /\ DOMAIN editions' = DOMAIN editions \cup {Len(editions) + 1}
          /\ \A i \in DOMAIN editions : i < Len(editions) + 1
      BY <2>2, <3>3, <3>4
    <3>8. e.voice = run[g].voice
      BY DEF e
    <3>9. ASSUME NEW l \in DOMAIN e.voice
          PROVE  /\ l \in DOMAIN ledger' /\ e.voice[l].mode = ledger'[l].mode
                 /\ l \in DOMAIN ledger => e.voice[l].kind \in AllowedKinds(ledger[l].mode)
      <4>1. l \in DOMAIN u /\ e.voice[l].mode = u[l].mode
        BY <1>3, <3>8 DEF InVoice
      <4>2. l \in DOMAIN ledger => e.voice[l].kind \in AllowedKinds(ledger[l].mode)
        BY <1>3, <2>2, <3>8 DEF InVoice, VInv, Dated
      <4> QED
        BY <2>2, <4>1, <4>2
    <3>10. Heard'
      <4> SUFFICES ASSUME NEW i \in DOMAIN editions', NEW l \in DOMAIN editions'[i].voice
                   PROVE  l \in DOMAIN ledger' /\ editions'[i].voice[l].mode = ledger'[l].mode
        BY DEF Heard
      <4>1. CASE i \in DOMAIN editions
        BY <2>2, <3>1, <3>4, <4>1 DEF VInv, Heard
      <4>2. CASE i = Len(editions) + 1
        BY <3>4, <3>9, <4>2
      <4> QED
        BY <3>7, <4>1, <4>2
    <3>11. Lowered'
      <4> SUFFICES ASSUME NEW i \in DOMAIN editions', NEW k \in DOMAIN editions', i < k,
                          NEW l \in DOMAIN editions'[i].voice \cap DOMAIN editions'[k].voice
                   PROVE  MayFollow(editions'[i].voice[l], editions'[k].voice[l])
        BY DEF Lowered, MayFollow
      <4>1. i \in DOMAIN editions /\ editions'[i] = editions[i]
        BY <3>2, <3>4, <3>7
      <4>2. CASE k \in DOMAIN editions
        BY <3>4, <4>1, <4>2 DEF VInv, Lowered
      <4>3. CASE k = Len(editions) + 1
        <5>1. l \in DOMAIN ledger /\ editions[i].voice[l].mode = ledger[l].mode
          BY <4>1 DEF VInv, Heard
        <5>2. e.voice[l].kind \in AllowedKinds(ledger[l].mode)
          BY <3>4, <3>9, <4>3, <5>1
        <5> QED
          BY <3>4, <4>1, <4>3, <5>1, <5>2 DEF MayFollow, AllowedKinds
      <4> QED
        BY <3>7, <4>2, <4>3
    <3> QED
      BY <2>2, <3>1, <3>4, <3>6, <3>10, <3>11 DEF Dated
  <2> QED
    BY <2>1, <2>2 DEF Materialize
<1>5. ASSUME NEW h \in Generators, run'[h] # None
      PROVE  InVoice(run[h])'
  <2>1. run'[h] = run[h] /\ InVoice(run[h])
    BY <1>2, <1>5 DEF VInv
  <2> QED
    BY <1>4, <2>1 DEF InVoice
<1> QED
  BY <1>1, <1>4, <1>5 DEF VInv

LEMMA VoiceStep ==
  ASSUME VInv, [Next]_vars
  PROVE  VInv'
<1>1. CASE UNCHANGED vars
  BY <1>1 DEF vars, VInv, FInv, Serious, OneFake, Fakes, Dated, Heard, Lowered,
              MayFollow, InVoice
<1>2. ASSUME NEW g \in Generators, Abandon(g)
      PROVE  VInv'
  <2>1. FInv'
    BY <1>2, AbandonStep DEF VInv
  <2>2. UNCHANGED <<ledger, editions>>
    BY <1>2 DEF Abandon
  <2>3. \A h \in Generators : run'[h] # None => run'[h] = run[h]
    BY <1>2 DEF Abandon, VInv, FInv
  <2> QED BY <2>1, <2>2, <2>3 DEF VInv, Dated, Heard, Lowered, InVoice
<1> QED BY <1>1, <1>2, VoiceExecute, VoiceMaterialize DEF Next

\* Whatever the reader is told of a storyline, from its first part to its epilogue, is
\* in one mode, later parts never lead and satire stays minor: no generation, however
\* late its rows are written, changes the voice of a story.
THEOREM OneVoiceKept == Spec => []OneVoice
<1>1. Init => VInv
  <2> SUFFICES ASSUME Init PROVE VInv
    OBVIOUS
  <2>1. FInv
    BY DEF Init, FInv, Serious
  <2>2. editions \in Seq({})
    BY DEF Init
  <2> QED
    BY <2>1, <2>2 DEF Init, VInv, Dated, Heard, Lowered
<1>2. VInv /\ [Next]_vars => VInv'
  BY VoiceStep
<1>3. VInv => OneVoice
  <2> SUFFICES ASSUME VInv, NEW i \in DOMAIN editions, NEW k \in DOMAIN editions,
                      NEW l \in DOMAIN editions[i].voice \cap DOMAIN editions[k].voice
               PROVE  /\ editions[k].voice[l].mode = editions[i].voice[l].mode
                      /\ i < k => MayFollow(editions[i].voice[l], editions[k].voice[l])
    BY DEF OneVoice, MayFollow
  <2> QED
    BY DEF VInv, Heard, Lowered
<1> QED
  BY <1>1, <1>2, <1>3, PTL DEF Spec

-----------------------------------------------------------------------------
(* Rows and grants, for any number of generations at a time.               *)

LEMMA SlotsFinite == IsFiniteSet(Slots)
<1>1. SlotOrder \in Seq({"breaking-1", "breaking-2", "breaking-3", "lead", "major-1",
                         "major-2", "minor-1", "minor-2", "brief"})
  BY EditorialAssumption
<1>2. Len(SlotOrder) \in Nat /\ DOMAIN SlotOrder = 1..Len(SlotOrder)
  BY <1>1
<1>3. IsFiniteSet(1..Len(SlotOrder))
  <2>1. 1 \in Int /\ Len(SlotOrder) \in Int
    BY <1>2
  <2> QED BY <2>1, FS_Interval
<1>4. SlotOrder \in Surjection(DOMAIN SlotOrder, Slots)
  BY <1>1, <1>2 DEF Surjection, Slots
<1> QED BY <1>2, <1>3, <1>4, FS_Surjection

\* A storyline that a plan continues can be advanced as the plan wants it.
LEMMA ContinuedCanAdvance ==
  ASSUME NEW issue, NEW job, NEW c \in Continuations(issue, job), NEW l \in Range(c)
  PROVE  /\ l \in DOMAIN ledger
         /\ ledger[l].eligible <= job
         /\ CanAdvance(ledger[l], issue, IsEpilogue(l))
<1>1. PICK D \in SUBSET Slots : c \in [D -> Ordinary(issue, job) \cup Epilogues(issue, job)]
  BY DEF Continuations, PartialFunctions
<1>2. l \in Ordinary(issue, job) \cup Epilogues(issue, job)
  BY <1>1 DEF Range
<1>3. CASE l \in Ordinary(issue, job)
  BY <1>3 DEF Ordinary, Eligible, CanAdvance, IsEpilogue
<1>4. CASE l \in Epilogues(issue, job)
  BY <1>4 DEF Epilogues, Eligible, CanAdvance, IsEpilogue
<1> QED BY <1>2, <1>3, <1>4

\* What plan_edition draws passes validate_event_set.
LEMMA PlansAreValid ==
  ASSUME Serious(ledger), NEW issue, NEW job, NEW plan \in Plans(issue, job)
  PROVE  ValidEvents(Events(plan))
<1> DEFINE event == Events(plan)
           candidates == {s \in Slots : event[s].candidate}
<1>1. \A s \in Slots :
        /\ event[s].mode = plan.mode[s]
        /\ event[s].line = IF s \in DOMAIN plan.cont THEN plan.cont[s] ELSE None
        /\ event[s].candidate <=> s \in plan.start
        /\ event[s].best = MinimumReliability(s, plan.mode[s])
  BY DEF Events
<1> HIDE DEF event
<1>2. OneFake(plan)
  BY PlansHaveOneFake
<1>3. Cardinality({s \in Slots : event[s].mode = Fake}) <= 1
  <2>1. {s \in Slots : event[s].mode = Fake} = Fakes(plan)
    BY <1>1 DEF Fakes
  <2>2. Fakes(plan) = {} \/ \E s : Fakes(plan) = {s}
    BY <1>2 DEF OneFake
  <2>3. Cardinality(Fakes(plan)) \in {0, 1}
    <3>1. CASE Fakes(plan) = {}
      BY <3>1, FS_EmptySet, Zenon
    <3>2. CASE \E s : Fakes(plan) = {s}
      BY <3>2, FS_Singleton, Zenon
    <3> QED BY <2>2, <3>1, <3>2
  <2> QED BY <2>1, <2>3
<1>4. \A s, t \in Slots : event[s].line = event[t].line /\ event[s].line # None => s = t
  <2>1. \A s, t \in DOMAIN plan.cont : plan.cont[s] = plan.cont[t] => s = t
    <3>1. plan.cont \in Continuations(issue, job)
      BY PlanOf
    <3>2. \A c \in Continuations(issue, job) : \A s, t \in DOMAIN c : c[s] = c[t] => s = t
      BY DEF Continuations
    <3> QED BY <3>1, <3>2
  <2> QED BY <1>1, <2>1
<1>5. Cardinality({s \in Slots : event[s].candidate}) <= 2
  <2>1. {s \in Slots : event[s].candidate} = plan.start
    BY <1>1, PlanOf
  <2>2. Cardinality(plan.start) <= MaxNew
    BY DEF Plans
  <2>3. IsFiniteSet(plan.start)
    BY PlanOf, SlotsFinite, FS_Subset
  <2>4. Cardinality(plan.start) \in Nat
    BY <2>3, FS_CardinalityType
  <2>5. Cardinality(plan.start) <= 2
    BY <2>2, <2>4, EditorialAssumption
  <2> QED BY <2>1, <2>5, Zenon
<1>6. ASSUME NEW s \in Slots
      PROVE  /\ event[s].candidate => Kind[s] \in {"lead", "major", "minor", "brief"}
             /\ event[s].mode # Fake => event[s].best >= 50
             /\ Kind[s] \in Primary => event[s].best >= 70
  <2>1. Kind[s] \in {"breaking", "lead", "major", "minor", "brief"}
    BY EditorialAssumption
  <2>2. event[s].candidate => Kind[s] \in {"lead", "major", "minor", "brief"}
    BY <1>1, <2>1, PlanOf DEF CanStart
  <2>3. plan.mode[s] = Fake => Kind[s] \notin Primary
    BY <1>2 DEF OneFake, Fakes, Primary
  <2> QED BY <1>1, <2>2, <2>3 DEF MinimumReliability
<1> QED BY <1>3, <1>4, <1>5, <1>6 DEF ValidEvents, event

LEMMA PlansAreGranted ==
  ASSUME Serious(ledger), NEW issue, NEW job, NEW plan \in Plans(issue, job)
  PROVE  Granted(plan, issue)
BY PlansAreValid, PlanOf, ContinuedCanAdvance DEF Granted

-----------------------------------------------------------------------------
\* A row as TypeOK wants it.
RowOK(row) ==
  /\ row \in Rows
  /\ row.status = "cooling" <=> row.count < FinalAppearance
  /\ row.status = "cooling" <=> row.eligible # 0

LEMMA AdvancedOK ==
  ASSUME NEW row, RowOK(row), NEW issue \in Nat, NEW job \in Jobs, NEW gap \in Gaps,
         NEW epilogue \in BOOLEAN, CanAdvance(row, issue, epilogue)
  PROVE  RowOK(Advanced(row, issue, job, gap, epilogue))
<1> DEFINE after == Advanced(row, issue, job, gap, epilogue)
<1>1. /\ row \in [status : {"cooling", "closed", "epilogue"}, count : 1..FinalAppearance,
                  last : Nat, eligible : Nat, mode : Modes, fingerprint : Fingerprints]
      /\ row.count \in 1..FinalAppearance /\ job \in Nat /\ gap \in Nat \ {0}
      /\ FinalAppearance \in Nat
  BY EditorialAssumption DEF RowOK, Rows
<1>0. row = [status |-> row.status, count |-> row.count, last |-> row.last,
             eligible |-> row.eligible, mode |-> row.mode, fingerprint |-> row.fingerprint]
  BY <1>1
<1>2. CASE epilogue
  <2>1. after = [row EXCEPT !.status = "epilogue", !.last = issue, !.eligible = 0]
    BY <1>2 DEF Advanced
  <2>2. row.status = "closed"
    BY <1>2 DEF CanAdvance
  <2>a. after = [status |-> "epilogue", count |-> row.count, last |-> issue, eligible |-> 0,
                 mode |-> row.mode, fingerprint |-> row.fingerprint]
    BY <1>0, <2>1
  <2>3. after \in Rows
    BY <1>1, <2>a DEF Rows
  <2>4. after.status = "epilogue" /\ after.count = row.count /\ after.eligible = 0
    BY <2>a
  <2>5. ~(row.count < FinalAppearance)
    BY <2>2 DEF RowOK
  <2> HIDE DEF after
  <2>6. RowOK(after)
    BY <2>3, <2>4, <2>5 DEF RowOK
  <2> QED BY <2>6 DEF after
<1>3. CASE ~epilogue
  <2>1. row.status = "cooling" /\ row.count < FinalAppearance
    BY <1>3 DEF CanAdvance
  <2>2. CASE row.count + 1 = FinalAppearance
    <3>1. after = [row EXCEPT !.status = "closed", !.count = @ + 1, !.last = issue,
                              !.eligible = 0]
      BY <1>3, <2>2 DEF Advanced
    <3>a. after = [status |-> "closed", count |-> row.count + 1, last |-> issue,
                   eligible |-> 0, mode |-> row.mode, fingerprint |-> row.fingerprint]
      BY <1>0, <3>1
    <3>2. after \in Rows
      BY <1>1, <2>1, <3>a DEF Rows
    <3>3. after.status = "closed" /\ after.count = row.count + 1 /\ after.eligible = 0
      BY <3>a
    <3> HIDE DEF after
    <3>4. RowOK(after)
      BY <1>1, <2>2, <3>2, <3>3 DEF RowOK
    <3> QED BY <3>4 DEF after
  <2>3. CASE row.count + 1 # FinalAppearance
    <3>1. after = [row EXCEPT !.status = "cooling", !.count = @ + 1, !.last = issue,
                              !.eligible = job + gap]
      BY <1>3, <2>3 DEF Advanced
    <3>a. after = [status |-> "cooling", count |-> row.count + 1, last |-> issue,
                   eligible |-> job + gap, mode |-> row.mode, fingerprint |-> row.fingerprint]
      BY <1>0, <3>1
    <3>2. after \in Rows
      BY <1>1, <2>1, <3>a DEF Rows
    <3>3. /\ after.status = "cooling" /\ after.count = row.count + 1
          /\ after.eligible = job + gap
      BY <3>a
    <3> HIDE DEF after
    <3>4. RowOK(after)
      BY <1>1, <2>1, <2>3, <3>2, <3>3 DEF RowOK
    <3> QED BY <3>4 DEF after
  <2> QED BY <2>2, <2>3
<1> QED BY <1>2, <1>3

\* execute, taken apart: what it has drawn and what it leaves.
Prepares(g, job, plan, fp, gap) ==
  LET issue == Len(editions) + 1
  IN /\ \A i \in DOMAIN editions : editions[i].job # job
     /\ fp \in [plan.start -> Fingerprints]
     /\ gap \in [plan.start \cup DOMAIN plan.cont -> Gaps]
     /\ Fresh(plan, fp)
     /\ run'[g] = [job |-> job, granted |-> Granted(plan, issue), plan |-> plan,
                   prompted |-> Prompted, updates |-> Updates(plan, job, issue, fp, gap),
                   shown |-> Shown(plan, job), voice |-> Voice(plan, job)]
     /\ \A h \in Generators \ {g} : run'[h] = run[h]

LEMMA ExecutePrepares ==
  ASSUME DOMAIN run = Generators, NEW g \in Generators, Execute(g)
  PROVE  \E job \in Jobs : \E plan \in Plans(Len(editions) + 1, job) :
           \E fp, gap : Prepares(g, job, plan, fp, gap)
<1> DEFINE issue == Len(editions) + 1
<1>1. PICK job \in Jobs :
        /\ \A i \in DOMAIN editions : editions[i].job # job
        /\ \E plan \in Plans(issue, job) :
             \E fp \in [plan.start -> Fingerprints],
                gap \in [plan.start \cup DOMAIN plan.cont -> Gaps] :
               /\ Fresh(plan, fp)
               /\ run' = [run EXCEPT ![g] =
                    [job |-> job, granted |-> Granted(plan, issue), plan |-> plan,
                     prompted |-> Prompted,
                     updates |-> Updates(plan, job, issue, fp, gap),
                     shown |-> Shown(plan, job), voice |-> Voice(plan, job)]]
  BY DEF Execute
<1> HIDE DEF issue
<1>2. PICK plan \in Plans(issue, job) :
        \E fp \in [plan.start -> Fingerprints],
           gap \in [plan.start \cup DOMAIN plan.cont -> Gaps] :
          /\ Fresh(plan, fp)
          /\ run' = [run EXCEPT ![g] =
               [job |-> job, granted |-> Granted(plan, issue), plan |-> plan,
                prompted |-> Prompted,
                updates |-> Updates(plan, job, issue, fp, gap),
                shown |-> Shown(plan, job), voice |-> Voice(plan, job)]]
  BY <1>1
<1>3. PICK fp \in [plan.start -> Fingerprints],
           gap \in [plan.start \cup DOMAIN plan.cont -> Gaps] :
        /\ Fresh(plan, fp)
        /\ run' = [run EXCEPT ![g] =
             [job |-> job, granted |-> Granted(plan, issue), plan |-> plan,
              prompted |-> Prompted,
              updates |-> Updates(plan, job, issue, fp, gap),
              shown |-> Shown(plan, job), voice |-> Voice(plan, job)]]
  BY <1>2
<1>4. Prepares(g, job, plan, fp, gap)
  <2>1. /\ run'[g] = [job |-> job, granted |-> Granted(plan, issue), plan |-> plan,
                      prompted |-> Prompted,
                      updates |-> Updates(plan, job, issue, fp, gap),
                      shown |-> Shown(plan, job), voice |-> Voice(plan, job)]
        /\ \A h \in Generators \ {g} : run'[h] = run[h]
    BY <1>3
  <2> QED BY <1>1, <1>3, <2>1 DEF Prepares, issue
<1> QED BY <1>2, <1>4 DEF issue

\* The rows a run would write, one by one: begun by it, or advanced.
LEMMA UpdateOf ==
  ASSUME Serious(ledger), NEW issue, NEW job, NEW plan \in Plans(issue, job),
         NEW fp \in [plan.start -> Fingerprints],
         NEW gap \in [plan.start \cup DOMAIN plan.cont -> Gaps],
         NEW l \in DOMAIN Updates(plan, job, issue, fp, gap)
  PROVE  \/ \E s \in plan.start :
              /\ l = <<job, s>>
              /\ Updates(plan, job, issue, fp, gap)[l]
                   = Created(job, issue, plan.mode[s], fp[s], gap[s])
         \/ /\ l \in Range(plan.cont)
            /\ l \notin {<<job, s>> : s \in plan.start}
            /\ \E n \in Gaps : Updates(plan, job, issue, fp, gap)[l]
                                 = Advanced(ledger[l], issue, job, n, IsEpilogue(l))
<1> DEFINE u == Updates(plan, job, issue, fp, gap)
<1>1. CASE l \in {<<job, s>> : s \in plan.start}
  <2>1. PICK s \in plan.start : l = <<job, s>>
    BY <1>1
  <2>2. u[l] = Created(job, issue, plan.mode[s], fp[s], gap[s])
    BY <2>1 DEF Updates
  <2> QED BY <2>1, <2>2
<1>2. CASE l \notin {<<job, s>> : s \in plan.start}
  <2>1. l \in Range(plan.cont)
    BY <1>2 DEF Updates
  <2> DEFINE s == CHOOSE s \in DOMAIN plan.cont : plan.cont[s] = l
  <2>2. s \in DOMAIN plan.cont
    BY <2>1 DEF Range
  <2>3. u[l] = Advanced(ledger[l], issue, job, gap[s], IsEpilogue(l))
    BY <1>2, <2>1 DEF Updates
  <2>4. gap[s] \in Gaps
    BY <2>2
  <2> QED BY <1>2, <2>1, <2>3, <2>4
<1> QED BY <1>1, <1>2

LEMMA UpdatesOK ==
  ASSUME Serious(ledger), DOMAIN ledger \subseteq Lines,
         \A l \in DOMAIN ledger : RowOK(ledger[l]),
         NEW issue \in Nat, NEW job \in Jobs, NEW plan \in Plans(issue, job),
         NEW fp \in [plan.start -> Fingerprints],
         NEW gap \in [plan.start \cup DOMAIN plan.cont -> Gaps]
  PROVE  LET u == Updates(plan, job, issue, fp, gap)
         IN DOMAIN u \subseteq Lines /\ \A l \in DOMAIN u : RowOK(u[l])
<1> DEFINE u == Updates(plan, job, issue, fp, gap)
<1> SUFFICES ASSUME NEW l \in DOMAIN u PROVE l \in Lines /\ RowOK(u[l])
  OBVIOUS
<1>0. \/ \E s \in plan.start :
           /\ l = <<job, s>>
           /\ u[l] = Created(job, issue, plan.mode[s], fp[s], gap[s])
      \/ /\ l \in Range(plan.cont)
         /\ \E n \in Gaps : u[l] = Advanced(ledger[l], issue, job, n, IsEpilogue(l))
  <2>1. \/ \E s \in plan.start :
             /\ l = <<job, s>>
             /\ Updates(plan, job, issue, fp, gap)[l]
                  = Created(job, issue, plan.mode[s], fp[s], gap[s])
        \/ /\ l \in Range(plan.cont)
           /\ l \notin {<<job, s>> : s \in plan.start}
           /\ \E n \in Gaps : Updates(plan, job, issue, fp, gap)[l]
                                = Advanced(ledger[l], issue, job, n, IsEpilogue(l))
    BY UpdateOf, SMTT(30)
  <2> QED BY <2>1, Zenon
<1>1. CASE \E s \in plan.start :
             /\ l = <<job, s>>
             /\ u[l] = Created(job, issue, plan.mode[s], fp[s], gap[s])
  <2>1. PICK s \in plan.start :
             /\ l = <<job, s>>
             /\ u[l] = Created(job, issue, plan.mode[s], fp[s], gap[s])
    BY <1>1
  <2>2. s \in Slots /\ plan.mode[s] \in Modes
    BY PlanOf DEF Plans
  <2>3. /\ fp[s] \in Fingerprints /\ gap[s] \in Nat \ {0} /\ job \in Nat \ {0}
        /\ FinalAppearance \in Nat \ {0, 1}
    BY EditorialAssumption
  <2>4. RowOK(Created(job, issue, plan.mode[s], fp[s], gap[s]))
    <3> HIDE DEF u
    <3>1. Created(job, issue, plan.mode[s], fp[s], gap[s]) \in Rows
      BY <2>2, <2>3 DEF Created, Rows
    <3>2. LET c == Created(job, issue, plan.mode[s], fp[s], gap[s])
          IN c.status = "cooling" /\ c.count = 1 /\ c.eligible = job + gap[s]
      BY DEF Created
    <3> QED BY <2>3, <3>1, <3>2 DEF RowOK
  <2> QED BY <2>1, <2>2, <2>4 DEF Lines
<1>2. CASE /\ l \in Range(plan.cont)
           /\ \E n \in Gaps : u[l] = Advanced(ledger[l], issue, job, n, IsEpilogue(l))
  <2>1. PICK n \in Gaps : u[l] = Advanced(ledger[l], issue, job, n, IsEpilogue(l))
    BY <1>2
  <2>2. l \in DOMAIN ledger /\ CanAdvance(ledger[l], issue, IsEpilogue(l))
    BY <1>2, PlanOf, ContinuedCanAdvance
  <2>3. IsEpilogue(l) \in BOOLEAN
    BY DEF IsEpilogue
  <2>4. RowOK(Advanced(ledger[l], issue, job, n, IsEpilogue(l)))
    BY <2>2, <2>3, AdvancedOK
  <2> QED BY <2>1, <2>2, <2>4
<1> QED BY <1>0, <1>1, <1>2

\* The ledger is well-typed, and so is what any run would write; no run was refused.
EInv ==
  /\ VInv
  /\ DOMAIN ledger \subseteq Lines
  /\ \A l \in DOMAIN ledger : RowOK(ledger[l])
  /\ \A i \in DOMAIN editions : editions[i].job \in Jobs
  /\ \A g \in Generators : run[g] # None =>
       /\ run[g].granted
       /\ run[g].job \in Jobs
       /\ DOMAIN run[g].updates \subseteq Lines
       /\ \A l \in DOMAIN run[g].updates : RowOK(run[g].updates[l])

\* Rows are typed in the ledger and in the runs.
RunOK(r) ==
  /\ r.granted
  /\ r.job \in Jobs
  /\ DOMAIN r.updates \subseteq Lines
  /\ \A l \in DOMAIN r.updates : RowOK(r.updates[l])

LEMMA TypedExecute ==
  ASSUME EInv, NEW g \in Generators, Execute(g)
  PROVE  EInv'
<1>1. VInv'
  BY VoiceExecute DEF EInv
<1>2. UNCHANGED <<ledger, editions>>
  BY DEF Execute
<1> DEFINE issue == Len(editions) + 1
<1>3. PICK job \in Jobs : \E plan \in Plans(issue, job) :
        \E fp, gap : Prepares(g, job, plan, fp, gap)
  BY ExecutePrepares DEF EInv, VInv, FInv
<1>4. PICK plan \in Plans(issue, job) : \E fp, gap : Prepares(g, job, plan, fp, gap)
  BY <1>3
<1>5. PICK fp, gap : Prepares(g, job, plan, fp, gap)
  BY <1>4
<1>6. issue \in Nat
  BY DEF EInv, VInv
<1>7. RunOK(run'[g])
  <2>1. Granted(plan, issue)
    BY PlansAreGranted DEF EInv, VInv, FInv
  <2>2. LET u == Updates(plan, job, issue, fp, gap)
        IN DOMAIN u \subseteq Lines /\ \A l \in DOMAIN u : RowOK(u[l])
    <3>1. /\ fp \in [plan.start -> Fingerprints]
          /\ gap \in [plan.start \cup DOMAIN plan.cont -> Gaps]
      BY <1>5 DEF Prepares
    <3> HIDE DEF issue
    <3> QED BY <1>6, <3>1, UpdatesOK DEF EInv, VInv, FInv
  <2>3. /\ run'[g].granted = Granted(plan, issue)
        /\ run'[g].job = job
        /\ run'[g].updates = Updates(plan, job, issue, fp, gap)
    BY <1>5 DEF Prepares
  <2> QED BY <2>1, <2>2, <2>3 DEF RunOK
<1>8. \A h \in Generators \ {g} : run'[h] = run[h]
  BY <1>5 DEF Prepares
<1> QED BY <1>1, <1>2, <1>7, <1>8 DEF EInv, RunOK, RowOK

LEMMA TypedMaterialize ==
  ASSUME EInv, NEW g \in Generators, Materialize(g)
  PROVE  EInv'
<1>1. VInv'
  BY VoiceMaterialize DEF EInv
<1>2. /\ run[g] # None /\ run'[g] = None
      /\ \A h \in Generators \ {g} : run'[h] = run[h]
  BY DEF Materialize, EInv, VInv, FInv
<1>3. CASE UNCHANGED <<ledger, editions>>
  BY <1>1, <1>2, <1>3 DEF EInv, RowOK
<1>4. CASE /\ editions' = Append(editions, [job |-> run[g].job, shown |-> run[g].shown,
                                            voice |-> run[g].voice])
           /\ ledger' = [l \in DOMAIN ledger \cup DOMAIN run[g].updates |->
                           IF l \in DOMAIN run[g].updates THEN run[g].updates[l]
                           ELSE ledger[l]]
  <2>1. /\ DOMAIN ledger' \subseteq Lines
        /\ \A l \in DOMAIN ledger' : RowOK(ledger'[l])
    BY <1>2, <1>4 DEF EInv
  <2>2. \A i \in DOMAIN editions' : editions'[i].job \in Jobs
    <3> DEFINE e == [job |-> run[g].job, shown |-> run[g].shown,
                     voice |-> run[g].voice]
    <3>1. e.job \in Jobs
      BY <1>2 DEF EInv
    <3>2. PICK S : editions \in Seq(S)
      BY DEF EInv, VInv
    <3> HIDE DEF e
    <3>3. editions \in Seq(S \cup {e}) /\ e \in S \cup {e}
      BY <3>2
    <3>4. /\ DOMAIN editions' = DOMAIN editions \cup {Len(editions) + 1}
          /\ \A i \in DOMAIN editions : editions'[i] = editions[i]
          /\ editions'[Len(editions) + 1] = e
      BY <1>4, <3>3 DEF e
    <3> QED BY <3>1, <3>4 DEF EInv
  <2> QED BY <1>1, <1>2, <2>1, <2>2 DEF EInv, RowOK
<1> QED BY <1>3, <1>4 DEF Materialize

LEMMA TypedStep ==
  ASSUME EInv, [Next]_vars
  PROVE  EInv'
<1>1. CASE UNCHANGED vars
  <2>1. VInv'
    BY <1>1, VoiceStep DEF EInv
  <2> QED BY <1>1, <2>1 DEF vars, EInv, RowOK
<1>2. ASSUME NEW g \in Generators, Abandon(g)
      PROVE  EInv'
  <2>1. VInv'
    BY <1>2, VoiceStep DEF EInv, Next
  <2>2. UNCHANGED <<ledger, editions>>
    BY <1>2 DEF Abandon
  <2>3. \A h \in Generators : run'[h] # None => run'[h] = run[h]
    BY <1>2 DEF Abandon, EInv, VInv, FInv
  <2> QED BY <2>1, <2>2, <2>3 DEF EInv, RowOK
<1> QED BY <1>1, <1>2, TypedExecute, TypedMaterialize DEF Next

LEMMA TypedInit ==
  ASSUME Init
  PROVE  EInv
<1>1. FInv
  BY DEF Init, FInv, Serious
<1>2. editions \in Seq({})
  BY DEF Init
<1> QED BY <1>1, <1>2 DEF Init, EInv, VInv, Dated, Heard, Lowered

\* The ledger is a ledger: rows are open below the final appearance and have a date
\* to return at only while open, whichever runs overlap and whichever is lost.
THEOREM TypeCorrect == Spec => []TypeOK
<1>1. EInv => TypeOK
  BY DEF EInv, TypeOK, RowOK
<1> QED BY <1>1, TypedInit, TypedStep, PTL DEF Spec

\* No plan is refused after the fact: validate_event_set and advance_storyline find in
\* order whatever plan_edition draws from whatever the ledger has become.
THEOREM PlansGranted == Spec => []NothingRefused
<1>1. EInv => NothingRefused
  BY DEF EInv, NothingRefused
<1> QED BY <1>1, TypedInit, TypedStep, PTL DEF Spec

-----------------------------------------------------------------------------
(* One generation at a time, as the lease of the control plane has it.     *)

OneAtATime == \A g, h \in Generators : g = h

\* The ledger as it will be when the run's rows are written.
Merged(rows) ==
  [l \in DOMAIN ledger \cup DOMAIN rows |-> IF l \in DOMAIN rows THEN rows[l] ELSE ledger[l]]

Apart(rows) ==
  \A k, l \in DOMAIN rows : rows[k].fingerprint = rows[l].fingerprint => k = l

DInv ==
  /\ EInv
  /\ Apart(ledger)
  /\ \A g \in Generators : run[g] # None => Apart(Merged(run[g].updates))

\* A row keeps its fingerprint when its story goes on.
LEMMA AdvancedKeepsFingerprint ==
  ASSUME NEW row, IsRow(row), NEW issue, NEW job, NEW gap, NEW epilogue
  PROVE  Advanced(row, issue, job, gap, epilogue).fingerprint = row.fingerprint
<1> DEFINE r == [status |-> row.status, count |-> row.count, last |-> row.last,
                 eligible |-> row.eligible, mode |-> row.mode,
                 fingerprint |-> row.fingerprint]
<1>1. Advanced(row, issue, job, gap, epilogue) = Advanced(r, issue, job, gap, epilogue)
  BY DEF IsRow
<1>2. CASE epilogue
  BY <1>1, <1>2 DEF Advanced
<1>3. CASE ~epilogue
  BY <1>1, <1>3 DEF Advanced
<1> QED BY <1>2, <1>3

LEMMA MergedApart ==
  ASSUME Serious(ledger), Apart(ledger), NEW issue, NEW job, NEW plan \in Plans(issue, job),
         NEW fp \in [plan.start -> Fingerprints],
         NEW gap \in [plan.start \cup DOMAIN plan.cont -> Gaps],
         Fresh(plan, fp)
  PROVE  Apart(Merged(Updates(plan, job, issue, fp, gap)))
<1> DEFINE u == Updates(plan, job, issue, fp, gap)
           m == Merged(u)
           started == {<<job, s>> : s \in plan.start}
<1>1. DOMAIN u = Range(plan.cont) \cup started /\ DOMAIN m = DOMAIN ledger \cup DOMAIN u
  BY DEF Updates, Merged
<1>2. ASSUME NEW l \in DOMAIN m, l \in started
      PROVE  \E s \in plan.start : l = <<job, s>> /\ m[l].fingerprint = fp[s]
  <2>1. PICK s \in plan.start : l = <<job, s>>
    BY <1>2
  <2>2. u[l] = Created(job, issue, plan.mode[s], fp[s], gap[s]) /\ l \in DOMAIN u
    BY <2>1 DEF Updates
  <2>3. m[l] = u[l]
    BY <2>2 DEF Merged
  <2>4. m[l].fingerprint = fp[s]
    BY <2>2, <2>3 DEF Created
  <2> QED BY <2>1, <2>4
<1>3. ASSUME NEW l \in DOMAIN m, l \notin started
      PROVE  l \in DOMAIN ledger /\ m[l].fingerprint = ledger[l].fingerprint
  <2>1. CASE l \in DOMAIN u
    <3>1. l \in Range(plan.cont)
      BY <1>1, <1>3, <2>1
    <3>2. l \in DOMAIN ledger
      BY <3>1, PlanOf, ContinuedCanAdvance
    <3>3. PICK n : u[l] = Advanced(ledger[l], issue, job, n, IsEpilogue(l))
      BY <1>3, <3>1 DEF Updates
    <3>4. u[l].fingerprint = ledger[l].fingerprint
      BY <3>2, <3>3, AdvancedKeepsFingerprint DEF Serious
    <3>5. m[l] = u[l]
      BY <2>1 DEF Merged
    <3> QED BY <3>2, <3>4, <3>5
  <2>2. CASE l \notin DOMAIN u
    BY <1>1, <2>2 DEF Merged
  <2> QED BY <2>1, <2>2
<1>4. ASSUME NEW k \in DOMAIN m, NEW l \in DOMAIN m, m[k].fingerprint = m[l].fingerprint
      PROVE  k = l
  <2>1. \A s \in plan.start, n \in DOMAIN ledger : fp[s] # ledger[n].fingerprint
    BY DEF Fresh
  <2>2. \A s, t \in plan.start : fp[s] = fp[t] => s = t
    BY DEF Fresh
  <2> HIDE DEF m, u, started
  <2>3. CASE k \in started /\ l \in started
    BY <1>2, <1>4, <2>2, <2>3
  <2>4. CASE k \in started /\ l \notin started
    BY <1>2, <1>3, <1>4, <2>1, <2>4
  <2>5. CASE k \notin started /\ l \in started
    BY <1>2, <1>3, <1>4, <2>1, <2>5
  <2>6. CASE k \notin started /\ l \notin started
    BY <1>3, <1>4, <2>6 DEF Apart
  <2> QED BY <2>3, <2>4, <2>5, <2>6
<1> QED BY <1>4 DEF Apart

\* Two storylines of the ledger never share a fingerprint, as long as the ledger a
\* response is compared with is the one its rows are written to: with one generation
\* at a time, however many runs are lost and in whatever order jobs are taken.
THEOREM StorylinesDistinct ==
  ASSUME OneAtATime
  PROVE  Spec => []DistinctStorylines
<1>1. Init => DInv
  BY TypedInit DEF Init, DInv, Apart
<1>2. DInv /\ [Next]_vars => DInv'
  <2> SUFFICES ASSUME DInv, [Next]_vars PROVE DInv'
    OBVIOUS
  <2>1. EInv'
    BY TypedStep DEF DInv
  <2>2. CASE UNCHANGED vars
    BY <2>1, <2>2 DEF vars, DInv, Apart, Merged
  <2>3. ASSUME NEW g \in Generators, Abandon(g) \/ Materialize(g)
        PROVE  DInv'
    <3>1. run[g] # None /\ \A h \in Generators : run'[h] = None
      BY <2>3 DEF Abandon, Materialize, OneAtATime, DInv, EInv, VInv, FInv
    <3>2. Apart(ledger)'
      <4>1. CASE ledger' = ledger
        BY <4>1 DEF DInv, Apart
      <4>2. CASE ledger' = Merged(run[g].updates)
        BY <3>1, <4>2 DEF DInv, Apart
      <4> QED BY <2>3, <4>1, <4>2 DEF Abandon, Materialize, Merged
    <3> QED BY <2>1, <3>1, <3>2 DEF DInv
  <2>4. ASSUME NEW g \in Generators, Execute(g)
        PROVE  DInv'
    <3>1. UNCHANGED <<ledger, editions>>
      BY <2>4 DEF Execute
    <3> DEFINE issue == Len(editions) + 1
    <3>2. PICK job \in Jobs : \E plan \in Plans(issue, job) :
            \E fp, gap : Prepares(g, job, plan, fp, gap)
      BY <2>4, ExecutePrepares DEF DInv, EInv, VInv, FInv
    <3>3. PICK plan \in Plans(issue, job) : \E fp, gap : Prepares(g, job, plan, fp, gap)
      BY <3>2
    <3>4. PICK fp, gap : Prepares(g, job, plan, fp, gap)
      BY <3>3
    <3>5. Apart(Merged(run'[g].updates))
      <4>1. /\ fp \in [plan.start -> Fingerprints]
            /\ gap \in [plan.start \cup DOMAIN plan.cont -> Gaps]
            /\ Fresh(plan, fp)
            /\ run'[g].updates = Updates(plan, job, issue, fp, gap)
        BY <3>4 DEF Prepares
      <4> HIDE DEF issue
      <4>2. Apart(Merged(Updates(plan, job, issue, fp, gap)))
        BY <4>1, MergedApart DEF DInv, EInv, VInv, FInv
      <4> QED BY <4>1, <4>2
    <3>6. \A h \in Generators : Apart(Merged(run[h].updates))'
      <4>1. Apart(Merged(run[g].updates))'
        <5>1. PICK rows : rows = run'[g].updates
          OBVIOUS
        <5>2. Apart(Merged(rows))
          BY <3>5, <5>1
        <5>3. Merged(run[g].updates)' = Merged(rows)
          BY <3>1, <5>1 DEF Merged
        <5> QED BY <5>2, <5>3 DEF Apart
      <4> QED BY <4>1 DEF OneAtATime
    <3> QED BY <2>1, <3>1, <3>6 DEF DInv, Apart
  <2> QED BY <2>2, <2>3, <2>4 DEF Next
<1>3. DInv => DistinctStorylines
  BY DEF DInv, Apart, DistinctStorylines
<1> QED BY <1>1, <1>2, <1>3, PTL DEF Spec

-----------------------------------------------------------------------------
(* Editorial implements Serial.                                            *)

Told(l) == {i \in DOMAIN editions : l \in DOMAIN editions[i].shown}
JobsOf(l) == {editions[i].job : i \in Told(l)}

\* A row says of its story what the issues say: how often it was told while it can go
\* on, and, while it is open, a date to return at after all of them.
Tells(row, told, jobs) ==
  /\ row.status = "cooling" => told = row.count /\ \A j \in jobs : j < row.eligible
  /\ row.status = "closed" => told = FinalAppearance

AsPrinted ==
  /\ \A l \in DOMAIN ledger : /\ Told(l) # {}
                              /\ Tells(ledger[l], Cardinality(Told(l)), JobsOf(l))
  /\ \A i \in DOMAIN editions : DOMAIN editions[i].shown \subseteq DOMAIN ledger

\* The issue a run would print fits, and the rows it would write tell of it.
Prints(r) ==
  /\ PrintedStories!Fits([job |-> r.job, shown |-> r.shown, voice |-> r.voice])
  /\ DOMAIN r.updates = DOMAIN r.shown
  /\ \A l \in DOMAIN r.updates :
       Tells(r.updates[l], Cardinality(Told(l)) + 1, JobsOf(l) \cup {r.job})

RInv ==
  /\ EInv
  /\ AsPrinted
  /\ \A g \in Generators : run[g] # None => Prints(run[g])

\* Serial counts as Editorial does.
LEMMA SameNumbers ==
  /\ \A S : PrintedStories!Cardinality(S) = Cardinality(S)
  /\ \A l : PrintedStories!Told(l) = Told(l)
BY DEF PrintedStories!Cardinality, Cardinality, PrintedStories!Told, Told

LEMMA ToldFinite ==
  ASSUME \E S : editions \in Seq(S), NEW l
  PROVE  IsFiniteSet(Told(l)) /\ Cardinality(Told(l)) \in Nat /\ Told(l) \subseteq Nat
<1>1. DOMAIN editions = 1..Len(editions) /\ Len(editions) \in Int /\ 1 \in Int
  OBVIOUS
<1>2. IsFiniteSet(DOMAIN editions)
  BY <1>1, FS_Interval
<1>3. IsFiniteSet(Told(l))
  BY <1>2, FS_Subset DEF Told
<1> QED BY <1>1, <1>3, FS_CardinalityType DEF Told

\* A plan's continuations are no more than its slots for them, its new stories no more
\* than the slots that start one.
LEMMA PlanSizes ==
  ASSUME NEW issue, NEW job, NEW plan \in Plans(issue, job)
  PROVE  /\ Cardinality(Range(plan.cont)) <= MaxContinuations
         /\ Cardinality({<<job, s>> : s \in plan.start}) <= MaxNew
<1> DEFINE started == {<<job, s>> : s \in plan.start}
<1>1. plan.cont \in Continuations(issue, job) /\ plan.start \subseteq Slots
  BY PlanOf
<1>2. /\ DOMAIN plan.cont \subseteq Slots
      /\ Cardinality(DOMAIN plan.cont) <= MaxContinuations
  <2>1. \A c \in Continuations(issue, job) : Cardinality(DOMAIN c) <= MaxContinuations
    BY DEF Continuations
  <2> QED BY <1>1, <2>1, ContinuationOf
<1>3. Cardinality(plan.start) <= MaxNew
  BY DEF Plans
<1>4. IsFiniteSet(DOMAIN plan.cont) /\ IsFiniteSet(plan.start)
  BY <1>1, <1>2, SlotsFinite, FS_Subset
<1>5. PICK D \in SUBSET Slots :
        plan.cont \in [D -> Ordinary(issue, job) \cup Epilogues(issue, job)]
  BY <1>1 DEF Continuations, PartialFunctions
<1>6. plan.cont \in Surjection(DOMAIN plan.cont, Range(plan.cont))
  BY <1>5 DEF Surjection, Range
<1>7. Cardinality(Range(plan.cont)) <= Cardinality(DOMAIN plan.cont)
      /\ IsFiniteSet(Range(plan.cont))
  BY <1>4, <1>6, FS_Surjection
<1>8. [s \in plan.start |-> <<job, s>>] \in Surjection(plan.start, started)
  BY DEF Surjection
<1>9. Cardinality(started) <= Cardinality(plan.start) /\ IsFiniteSet(started)
  BY <1>4, <1>8, FS_Surjection
<1>10. /\ Cardinality(Range(plan.cont)) \in Nat /\ Cardinality(DOMAIN plan.cont) \in Nat
       /\ Cardinality(started) \in Nat /\ Cardinality(plan.start) \in Nat
  BY <1>4, <1>7, <1>9, FS_CardinalityType
<1> HIDE DEF started
<1>11. Cardinality(started) <= MaxNew
  BY <1>3, <1>9, <1>10, EditorialAssumption
<1> QED BY <1>2, <1>7, <1>10, <1>11, EditorialAssumption DEF started

\* What the next appearance, or the epilogue, makes of a row.
LEMMA AdvancedRow ==
  ASSUME NEW row, IsRow(row), NEW issue, NEW job, NEW gap, NEW epilogue, NEW after,
         after = Advanced(row, issue, job, gap, epilogue)
  PROVE  /\ epilogue => after.status = "epilogue"
         /\ ~epilogue =>
              /\ after.status \in {"cooling", "closed"}
              /\ after.status = "cooling" => /\ after.count = row.count + 1
                                             /\ after.eligible = job + gap
              /\ after.status = "closed" => row.count + 1 = FinalAppearance
<1> DEFINE r == [status |-> row.status, count |-> row.count, last |-> row.last,
                 eligible |-> row.eligible, mode |-> row.mode,
                 fingerprint |-> row.fingerprint]
<1>1. after = Advanced(r, issue, job, gap, epilogue)
  BY DEF IsRow
<1>2. CASE epilogue
  BY <1>1, <1>2 DEF Advanced
<1>3. CASE ~epilogue /\ row.count + 1 = FinalAppearance
  BY <1>1, <1>3 DEF Advanced
<1>4. CASE ~epilogue /\ row.count + 1 # FinalAppearance
  BY <1>1, <1>4 DEF Advanced
<1> QED BY <1>2, <1>3, <1>4

\* What a run prepared from the ledger as it stands would print and write.
LEMMA PreparedPrints ==
  ASSUME EInv, AsPrinted, NEW job \in Jobs, NEW issue, NEW plan \in Plans(issue, job),
         NEW fp \in [plan.start -> Fingerprints],
         NEW gap \in [plan.start \cup DOMAIN plan.cont -> Gaps],
         \A i \in DOMAIN editions : editions[i].job # job
  PROVE  LET u == Updates(plan, job, issue, fp, gap)
             shown == Shown(plan, job)
         IN /\ PrintedStories!Fits([job |-> job, shown |-> shown, voice |-> Voice(plan, job)])
            /\ DOMAIN u = DOMAIN shown
            /\ \A l \in DOMAIN u :
                 Tells(u[l], Cardinality(Told(l)) + 1, JobsOf(l) \cup {job})
<1> DEFINE u == Updates(plan, job, issue, fp, gap)
           shown == Shown(plan, job)
           started == {<<job, s>> : s \in plan.start}
<1>1. /\ DOMAIN u = Range(plan.cont) \cup started
      /\ DOMAIN shown = Range(plan.cont) \cup started
  BY DEF Updates, Shown
<1>2. ASSUME NEW l, IsFiniteSet(Told(l))
      PROVE  Cardinality(Told(l)) \in Nat
  BY <1>2, FS_CardinalityType
<1>3. ASSUME NEW l \in Range(plan.cont)
      PROVE  /\ l \in DOMAIN ledger /\ Told(l) # {} /\ l \notin started
             /\ shown[l] = Appearance(l)
             /\ ledger[l].eligible <= job
             /\ CanAdvance(ledger[l], issue, IsEpilogue(l))
             /\ Tells(ledger[l], Cardinality(Told(l)), JobsOf(l))
             /\ RowOK(ledger[l])
  <2>1. /\ l \in DOMAIN ledger /\ ledger[l].eligible <= job
        /\ CanAdvance(ledger[l], issue, IsEpilogue(l))
    BY PlanOf, ContinuedCanAdvance
  <2>2. l \notin started
    BY <2>1 DEF EInv, VInv, Dated
  <2>3. shown[l] = Appearance(l)
    BY DEF Shown
  <2> QED BY <2>1, <2>2, <2>3 DEF AsPrinted, EInv
<1>4. ASSUME NEW l \in started
      PROVE  Told(l) = {} /\ l \notin Range(plan.cont) /\ shown[l] = 1 /\ l \in Lines
  <2>1. PICK s \in plan.start : l = <<job, s>>
    OBVIOUS
  <2>2. l \notin DOMAIN ledger
    BY <2>1 DEF EInv, VInv, Dated
  <2>3. l \notin Range(plan.cont)
    BY <1>3
  <2>4. Told(l) = {}
    BY <2>2 DEF Told, AsPrinted
  <2>5. shown[l] = 1
    BY <1>1, <2>3 DEF Shown
  <2>6. s \in Slots
    BY PlanOf
  <2> QED BY <2>1, <2>3, <2>4, <2>5, <2>6 DEF Lines
<1>5. ASSUME NEW l \in DOMAIN u
      PROVE  Cardinality(Told(l)) \in Nat /\ \A j \in JobsOf(l) : j \in Nat
  <2>1. Cardinality(Told(l)) \in Nat
    BY ToldFinite DEF EInv, VInv
  <2>2. \A i \in Told(l) : editions[i].job \in Nat
    BY EditorialAssumption DEF Told, EInv
  <2> QED BY <2>1, <2>2 DEF JobsOf
<1>6. job \in Nat /\ FinalAppearance \in Nat \ {0, 1} /\ Gaps \subseteq Nat \ {0}
  BY EditorialAssumption
<1>7. ASSUME NEW l \in Range(plan.cont)
      PROVE  /\ shown[l] = Cardinality(Told(l)) + 1
             /\ PrintedStories!Continues(l, job)
             /\ Tells(u[l], Cardinality(Told(l)) + 1, JobsOf(l) \cup {job})
  <2>1. PICK n \in Gaps : u[l] = Advanced(ledger[l], issue, job, n, IsEpilogue(l))
    <3>1. Serious(ledger) /\ l \in DOMAIN u
      BY <1>1 DEF EInv, VInv, FInv
    <3>2. \/ \E s \in plan.start :
               /\ l = <<job, s>>
               /\ Updates(plan, job, issue, fp, gap)[l]
                    = Created(job, issue, plan.mode[s], fp[s], gap[s])
          \/ /\ l \in Range(plan.cont)
             /\ l \notin {<<job, s>> : s \in plan.start}
             /\ \E n \in Gaps : Updates(plan, job, issue, fp, gap)[l]
                                  = Advanced(ledger[l], issue, job, n, IsEpilogue(l))
      BY <3>1, UpdateOf, SMTT(30)
    <3> QED BY <1>3, <3>2
  <2>2. /\ Told(l) = PrintedStories!Told(l)
        /\ JobsOf(l) = {editions[i].job : i \in Told(l)}
        /\ Cardinality(Told(l)) \in Nat /\ \A j \in JobsOf(l) : j \in Nat
        /\ Cardinality(Told(l)) = PrintedStories!Cardinality(PrintedStories!Told(l))
    BY <1>1, <1>5, SameNumbers DEF JobsOf
  <2>a. /\ IsEpilogue(l) => u[l].status = "epilogue"
        /\ ~IsEpilogue(l) =>
             /\ u[l].status \in {"cooling", "closed"}
             /\ u[l].status = "cooling" => /\ u[l].count = ledger[l].count + 1
                                           /\ u[l].eligible = job + n
             /\ u[l].status = "closed" => ledger[l].count + 1 = FinalAppearance
    <3>1. IsRow(ledger[l])
      BY <1>3 DEF EInv, VInv, FInv, Serious
    <3>2. PICK after, row : after = u[l] /\ row = ledger[l]
      OBVIOUS
    <3>3. IsRow(row) /\ after = Advanced(row, issue, job, n, IsEpilogue(l))
      BY <2>1, <3>1, <3>2
    <3>4. /\ IsEpilogue(l) => after.status = "epilogue"
          /\ ~IsEpilogue(l) =>
               /\ after.status \in {"cooling", "closed"}
               /\ after.status = "cooling" => /\ after.count = row.count + 1
                                              /\ after.eligible = job + n
               /\ after.status = "closed" => row.count + 1 = FinalAppearance
      BY <3>3, AdvancedRow
    <3> QED BY <3>2, <3>4
  <2>3. CASE IsEpilogue(l)
    <3>1. ledger[l].status = "closed" /\ Cardinality(Told(l)) = FinalAppearance
      BY <1>3, <2>3 DEF IsEpilogue, Tells
    <3>2. shown[l] = FinalAppearance + 1
      BY <1>3, <2>3 DEF Appearance
    <3>3. u[l].status = "epilogue"
      BY <2>a, <2>3
    <3>4. PrintedStories!Continues(l, job)
      <4>1. PrintedStories!Cardinality(PrintedStories!Told(l)) = FinalAppearance
        BY <2>2, <3>1
      <4> QED BY <1>6, <4>1 DEF PrintedStories!Continues
    <3> QED BY <3>1, <3>2, <3>3, <3>4 DEF Tells
  <2>4. CASE ~IsEpilogue(l)
    <3>1. /\ ledger[l].status = "cooling" /\ ledger[l].count < FinalAppearance
          /\ Cardinality(Told(l)) = ledger[l].count
          /\ \A j \in JobsOf(l) : j < ledger[l].eligible
      BY <1>3, <2>4 DEF CanAdvance, Tells
    <3>2. shown[l] = ledger[l].count + 1
      BY <1>3, <2>4 DEF Appearance
    <3>3. ledger[l].eligible \in Nat /\ ledger[l].count \in Nat
      BY <1>3, <1>6 DEF RowOK, Rows
    <3>4. \A j \in JobsOf(l) : j < job
      <4>1. ledger[l].eligible <= job
        BY <1>3
      <4>2. job \in Nat /\ ledger[l].eligible \in Nat
        BY <1>6, <3>3
      <4>3. \A j \in JobsOf(l) : j \in Nat /\ j < ledger[l].eligible
        BY <2>2, <3>1
      <4> QED BY <4>1, <4>2, <4>3
    <3>5. /\ u[l].status \in {"cooling", "closed"}
          /\ u[l].status = "cooling" => /\ u[l].count = ledger[l].count + 1
                                        /\ u[l].eligible = job + n
          /\ u[l].status = "closed" => ledger[l].count + 1 = FinalAppearance
      BY <2>a, <2>4
    <3>6. \A j \in JobsOf(l) \cup {job} : j < job + n
      <4>1. n \in Nat \ {0} /\ job \in Nat
        BY <1>6
      <4>2. \A j \in JobsOf(l) : j \in Nat /\ j < job
        BY <2>2, <3>4
      <4> QED BY <4>1, <4>2
    <3>7. Tells(u[l], Cardinality(Told(l)) + 1, JobsOf(l) \cup {job})
      BY <3>1, <3>5, <3>6 DEF Tells
    <3>8. PrintedStories!Continues(l, job)
      <4>1. \A i \in PrintedStories!Told(l) : editions[i].job < job
        BY <2>2, <3>4 DEF JobsOf
      <4>2. PrintedStories!Cardinality(PrintedStories!Told(l)) <= FinalAppearance
        BY <1>6, <2>2, <3>1, <3>3
      <4> QED BY <4>1, <4>2 DEF PrintedStories!Continues
    <3> QED BY <3>1, <3>2, <3>7, <3>8
  <2> QED BY <2>3, <2>4
<1>8. ASSUME NEW l \in started
      PROVE  /\ shown[l] = Cardinality(Told(l)) + 1
             /\ Tells(u[l], Cardinality(Told(l)) + 1, JobsOf(l) \cup {job})
  <2>1. PICK s \in plan.start : l = <<job, s>>
    OBVIOUS
  <2>2. u[l] = Created(job, issue, plan.mode[s], fp[s], gap[s])
    BY <2>1 DEF Updates
  <2>3. u[l].status = "cooling" /\ u[l].count = 1 /\ u[l].eligible = job + gap[s]
    BY <2>2 DEF Created
  <2>4. Cardinality(Told(l)) = 0 /\ JobsOf(l) = {}
    BY <1>4, FS_EmptySet DEF JobsOf
  <2>5. job < job + gap[s]
    <3>1. gap[s] \in Nat \ {0} /\ job \in Nat
      BY <1>6
    <3> QED BY <3>1
  <2> QED BY <1>4, <2>3, <2>4, <2>5 DEF Tells
<1>9. PrintedStories!Fits([job |-> job, shown |-> shown, voice |-> Voice(plan, job)])
  <2>1. DOMAIN shown \subseteq Lines
    BY <1>1, <1>3, <1>4 DEF EInv
  <2>2. /\ \A l : Told(l) = PrintedStories!Told(l)
        /\ \A S : Cardinality(S) = PrintedStories!Cardinality(S)
    BY SameNumbers
  <2>3. {l \in DOMAIN shown : Told(l) # {}} = Range(plan.cont)
    BY <1>1, <1>3, <1>4
  <2>4. DOMAIN shown \ Range(plan.cont) = started
    BY <1>1, <1>4
  <2>5. /\ Cardinality(Range(plan.cont)) <= MaxContinuations
        /\ Cardinality(started) <= MaxNew
    BY PlanSizes
  <2>6. \A l \in DOMAIN shown : shown[l] = Cardinality(Told(l)) + 1
    BY <1>1, <1>7, <1>8
  <2> HIDE DEF shown, started
  <2> DEFINE continued == {l \in DOMAIN shown : PrintedStories!Told(l) # {}}
  <2>7. continued = Range(plan.cont)
    BY <2>2, <2>3
  <2> HIDE DEF continued
  <2>8. /\ Cardinality(continued) <= MaxContinuations
        /\ Cardinality(DOMAIN shown \ continued) <= MaxNew
        /\ \A l \in continued : PrintedStories!Continues(l, job)
        /\ \A l \in DOMAIN shown : shown[l] = Cardinality(PrintedStories!Told(l)) + 1
    BY <1>7, <2>2, <2>4, <2>5, <2>6, <2>7
  <2> DEFINE issued == [job |-> job, shown |-> shown, voice |-> Voice(plan, job)]
  <2>9. issued.job = job /\ issued.shown = shown
    OBVIOUS
  <2> HIDE DEF issued
  <2>10. PrintedStories!Fits(issued)
    BY <2>1, <2>2, <2>8, <2>9 DEF PrintedStories!Fits, continued
  <2> QED BY <2>10 DEF issued
<1> QED BY <1>1, <1>7, <1>8, <1>9

LEMMA RefinesExecute ==
  ASSUME OneAtATime, RInv, NEW g \in Generators, Execute(g)
  PROVE  RInv' /\ UNCHANGED editions
<1>1. UNCHANGED <<ledger, editions>>
  BY DEF Execute
<1>2. EInv'
  BY TypedExecute DEF RInv
<1> DEFINE issue == Len(editions) + 1
<1>3. PICK job \in Jobs : \E plan \in Plans(issue, job) :
        \E fp, gap : Prepares(g, job, plan, fp, gap)
  BY ExecutePrepares DEF RInv, EInv, VInv, FInv
<1>4. PICK plan \in Plans(issue, job) : \E fp, gap : Prepares(g, job, plan, fp, gap)
  BY <1>3
<1>5. PICK fp, gap : Prepares(g, job, plan, fp, gap)
  BY <1>4
<1>6. /\ \A i \in DOMAIN editions : editions[i].job # job
      /\ fp \in [plan.start -> Fingerprints]
      /\ gap \in [plan.start \cup DOMAIN plan.cont -> Gaps]
      /\ run'[g].job = job
      /\ run'[g].updates = Updates(plan, job, issue, fp, gap)
      /\ run'[g].shown = Shown(plan, job)
      /\ run'[g].voice = Voice(plan, job)
  BY <1>5 DEF Prepares
<1> HIDE DEF issue
<1>7. Prints(run'[g])
  <2>1. LET u == Updates(plan, job, issue, fp, gap)
            shown == Shown(plan, job)
        IN /\ PrintedStories!Fits([job |-> job, shown |-> shown, voice |-> Voice(plan, job)])
           /\ DOMAIN u = DOMAIN shown
           /\ \A l \in DOMAIN u :
                Tells(u[l], Cardinality(Told(l)) + 1, JobsOf(l) \cup {job})
    BY <1>6, PreparedPrints DEF RInv
  <2> QED BY <1>6, <2>1 DEF Prints
<1>8. AsPrinted'
  BY <1>1 DEF RInv, AsPrinted, Told, JobsOf
<1>9. Prints(run[g])'
  <2>1. PICK r : r = run'[g]
    OBVIOUS
  <2>2. Prints(r)' <=> Prints(r)
    BY <1>1 DEF Prints, Told, JobsOf, PrintedStories!Fits, PrintedStories!Told,
                PrintedStories!Continues
  <2>3. Prints(run[g])' <=> Prints(r)'
    BY <2>1
  <2> QED BY <1>7, <2>1, <2>2, <2>3
<1> QED BY <1>1, <1>2, <1>8, <1>9 DEF RInv, OneAtATime

\* The issue that is appended fits, and the ledger tells of it.
LEMMA RefinesMaterialize ==
  ASSUME OneAtATime, RInv, NEW g \in Generators, Materialize(g)
  PROVE  RInv' /\ [PrintedStories!Next]_editions
<1> DEFINE r == run[g]
           e == [job |-> r.job, shown |-> r.shown, voice |-> r.voice]
           n == Len(editions) + 1
<1>1. r # None /\ Prints(r)
  BY DEF Materialize, RInv
<1>2. EInv'
  BY TypedMaterialize DEF RInv
<1>3. \A h \in Generators : run'[h] = None
  BY DEF Materialize, OneAtATime, RInv, EInv, VInv, FInv
<1>4. /\ editions' = Append(editions, e)
      /\ ledger' = [l \in DOMAIN ledger \cup DOMAIN r.updates |->
                      IF l \in DOMAIN r.updates THEN r.updates[l] ELSE ledger[l]]
  BY <1>1 DEF Materialize, Prints, PrintedStories!Fits
<1>5. PrintedStories!Fits(e)
  BY <1>1 DEF Prints
<1>6. e.shown = r.shown /\ e.job = r.job
  OBVIOUS
<1> HIDE DEF e
<1>7. PICK S : editions \in Seq(S) /\ e \in S
  <2>1. PICK T : editions \in Seq(T)
    BY DEF RInv, EInv, VInv
  <2>2. editions \in Seq(T \cup {e}) /\ e \in T \cup {e}
    BY <2>1
  <2> QED BY <2>2
<1>8. /\ n \in Nat \ {0} /\ n \notin DOMAIN editions
      /\ editions' \in Seq(S) /\ Len(editions') = n
      /\ DOMAIN editions' = DOMAIN editions \cup {n}
      /\ \A i \in DOMAIN editions : editions'[i] = editions[i]
      /\ editions'[n] = e
  BY <1>4, <1>7
<1>9. PrintedStories!Next
  <2>1. SubSeq(editions', 1, Len(editions)) = editions
    BY <1>4, <1>7
  <2> QED BY <1>5, <1>8, <2>1 DEF PrintedStories!Next
<1>10. ASSUME NEW l, l \in DOMAIN r.shown
       PROVE  /\ Cardinality(Told(l))' = Cardinality(Told(l)) + 1
              /\ JobsOf(l)' = JobsOf(l) \cup {r.job}
              /\ Told(l)' # {}
  <2>1. Told(l)' = Told(l) \cup {n} /\ n \notin Told(l)
    BY <1>6, <1>8, <1>10 DEF Told
  <2>2. IsFiniteSet(Told(l)) /\ Cardinality(Told(l)) \in Nat
    BY <1>7, ToldFinite
  <2>3. Cardinality(Told(l) \cup {n}) = Cardinality(Told(l)) + 1
    BY <2>1, <2>2, FS_AddElement
  <2>4. JobsOf(l)' = JobsOf(l) \cup {r.job}
    BY <1>6, <1>8, <2>1 DEF JobsOf, Told
  <2> QED BY <2>1, <2>3, <2>4
<1>11. ASSUME NEW l, l \notin DOMAIN r.shown
       PROVE  Told(l)' = Told(l) /\ JobsOf(l)' = JobsOf(l)
  <2>1. Told(l)' = Told(l)
    BY <1>6, <1>8, <1>11 DEF Told
  <2>2. \A i \in Told(l) : editions'[i] = editions[i]
    BY <1>8 DEF Told
  <2> QED BY <2>1, <2>2 DEF JobsOf
<1>12. DOMAIN r.updates = DOMAIN r.shown
  BY <1>1 DEF Prints
<1>13. AsPrinted'
  <2>1. ASSUME NEW l \in DOMAIN ledger'
        PROVE  Told(l)' # {} /\ Tells(ledger'[l], Cardinality(Told(l))', JobsOf(l)')
    <3>1. CASE l \in DOMAIN r.updates
      <4>1. Tells(r.updates[l], Cardinality(Told(l)) + 1, JobsOf(l) \cup {r.job})
        BY <1>1, <3>1 DEF Prints
      <4>2. ledger'[l] = r.updates[l]
        BY <1>4, <3>1
      <4> QED BY <1>10, <1>12, <3>1, <4>1, <4>2
    <3>2. CASE l \notin DOMAIN r.updates
      <4>1. l \in DOMAIN ledger /\ ledger'[l] = ledger[l]
        BY <1>4, <3>2
      <4> QED BY <1>11, <1>12, <3>2, <4>1 DEF RInv, AsPrinted
    <3> QED BY <3>1, <3>2
  <2>2. \A i \in DOMAIN editions' : DOMAIN editions'[i].shown \subseteq DOMAIN ledger'
    BY <1>4, <1>6, <1>8, <1>12 DEF RInv, AsPrinted
  <2> QED BY <2>1, <2>2 DEF AsPrinted, Tells
<1> QED BY <1>2, <1>3, <1>9, <1>13 DEF RInv

\* Editorial implements Serial: with its statuses, counts and dates, abandoned runs and
\* jobs out of schedule order, one generation at a time gives the reader four parts and
\* an epilogue, numbered in order and at their distance.
THEOREM Refinement ==
  ASSUME OneAtATime
  PROVE  Spec => ImplementsSerial
<1>1. Init => RInv /\ PrintedStories!Init
  BY TypedInit DEF Init, RInv, AsPrinted, PrintedStories!Init
<1>2. RInv /\ [Next]_vars => RInv' /\ [PrintedStories!Next]_editions
  <2> SUFFICES ASSUME RInv, [Next]_vars PROVE RInv' /\ [PrintedStories!Next]_editions
    OBVIOUS
  <2>1. EInv'
    BY TypedStep DEF RInv
  <2>2. CASE UNCHANGED vars
    <3>1. AsPrinted'
      BY <2>2 DEF vars, RInv, AsPrinted, Told, JobsOf
    <3>2. ASSUME NEW g \in Generators, run'[g] # None PROVE Prints(run[g])'
      <4>1. PICK r : r = run[g] /\ r = run'[g]
        BY <2>2 DEF vars
      <4>2. Prints(r)' <=> Prints(r)
        BY <2>2 DEF vars, Prints, Told, JobsOf, PrintedStories!Fits, PrintedStories!Told,
                    PrintedStories!Continues
      <4>3. Prints(run[g])' <=> Prints(r)'
        BY <4>1
      <4> QED BY <3>2, <4>1, <4>2, <4>3 DEF RInv
    <3> QED BY <2>1, <2>2, <3>1, <3>2 DEF vars, RInv
  <2>3. ASSUME NEW g \in Generators, Abandon(g)
        PROVE  RInv' /\ UNCHANGED editions
    <3>1. UNCHANGED <<ledger, editions>> /\ \A h \in Generators : run'[h] = None
      BY <2>3 DEF Abandon, OneAtATime, RInv, EInv, VInv, FInv
    <3>2. AsPrinted'
      BY <3>1 DEF RInv, AsPrinted, Told, JobsOf
    <3> QED BY <2>1, <3>1, <3>2 DEF RInv
  <2> QED BY <2>2, <2>3, RefinesExecute, RefinesMaterialize DEF Next
<1> QED BY <1>1, <1>2, PTL DEF Spec, ImplementsSerial, PrintedStories!Spec
=============================================================================
