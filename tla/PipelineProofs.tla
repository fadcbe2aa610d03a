---------------------------- MODULE PipelineProofs ----------------------------
(***************************************************************************)
(* Proofs about Pipeline for any number of processes, releases, changes of *)
(* the release and paragraphs: what is returned is what was verified, of   *)
(* one release and within the calls (PInv), which does not depend on the   *)
(* artwork; and about the artwork, for any number of processes, keys and   *)
(* sizes of the bucket (AInv): how full the bucket gets, which images go   *)
(* from it and that the image a run shows was stored.                      *)
(***************************************************************************)
EXTENDS Pipeline, Counting

Executes == [pc : ExecSteps, planned : Releases \cup {NoRelease},
             lore : Releases \cup {NoRelease}, calls : Nat,
             retrying : BOOLEAN, page : Pages, written : 0..2, validated : 0..2,
             verified : 0..2, image : Keys \cup {NoKey}]

Finished == {"budget", "artwork", "seal", "prepared"}

\* How far an execute has come says what it has written, called and passed.
Progress(e) ==
  /\ e.pc \in {"retrieve", "planner", "writer"} => e.written = 0
  /\ e.pc \in {"retrieve", "planner"} => e.calls = 0
  /\ e.pc = "writer" => e.calls = 1
  /\ e.pc = "repair" => e.written = 1 /\ e.calls = 2 /\ MaxRepairCalls = 1
  /\ e.pc \in {"verifier"} \cup Finished =>
       /\ e.written = 1 \/ (e.written = 2 /\ MaxRepairCalls = 1)
       /\ e.validated = e.written
       /\ Passes(e.page)
  /\ e.pc = "verifier" => e.calls = e.written + 1
  /\ e.pc \in Finished => e.calls = e.written + 2 /\ e.verified = e.written
  /\ e.pc = "idle" => e.calls = 0 /\ e.written = 0
  /\ e.pc = "raised" => e.calls <= 3 + MaxRepairCalls

\* The plan's release is that of the lore from the first call on.
OfOneRelease(e) ==
  e.pc \in {"planner", "writer", "repair", "verifier"} \cup Finished => e.lore = e.planned

Sound(e) ==
  /\ e \in Executes
  /\ Progress(e)
  /\ OfOneRelease(e)
  /\ e.retrying => provider = "cloudflare_workers_ai"

PInv ==
  /\ provider \in Providers
  /\ release \in Releases
  /\ exec \in [Procs -> Executes]
  /\ \A p \in Procs : Sound(exec[p])

-----------------------------------------------------------------------------
\* What an execute is after one more answer.
Same(e, f) ==
  /\ f.planned = e.planned /\ f.lore = e.lore /\ f.page = e.page
  /\ f.written = e.written /\ f.validated = e.validated

LEMMA AnsweredFields ==
  ASSUME NEW p, exec[p] \in Executes, NEW step \in ExecSteps
  PROVE  LET f == [Answered(p) EXCEPT !.pc = step]
         IN /\ f \in Executes
            /\ f.pc = step /\ f.calls = exec[p].calls + 1 /\ f.retrying = FALSE
            /\ f.verified = exec[p].verified
            /\ Same(exec[p], f)
<1> DEFINE e == exec[p]
           f == [Answered(p) EXCEPT !.pc = step]
<1>1. e.calls + 1 \in Nat
  BY DEF Executes
<1>2. [e EXCEPT !.calls = e.calls + 1] \in Executes
  BY <1>1 DEF Executes
<1>3. Answered(p) \in Executes
  BY <1>1, <1>2 DEF Executes, Answered
<1>4. f \in Executes
  BY <1>3 DEF Executes
<1>5. /\ f.pc = step /\ f.calls = e.calls + 1 /\ f.retrying = FALSE
      /\ f.verified = e.verified /\ Same(e, f)
  BY DEF Answered, Executes, Same
<1> QED
  BY <1>4, <1>5

-----------------------------------------------------------------------------
\* The execute that has not begun.
LEMMA NoExecSound == Sound(NoExec)
  BY PipelineAssumption
  DEF Sound, NoExec, Executes, ExecSteps, Blank, Pages, Progress, Finished, OfOneRelease

\* A step of p that makes its execute a sound one keeps the invariant.
LEMMA OneMoves ==
  ASSUME PInv, NEW p \in Procs, NEW e, Becomes(p, e), Sound(e),
         UNCHANGED <<provider, release>>
  PROVE  PInv'
  BY DEF PInv, Becomes, Sound

\* An execute may be given up wherever a call has failed or is over.
LEMMA RaisedSound ==
  ASSUME PInv, NEW p \in Procs, ~At(p, "idle")
  PROVE  Sound([exec[p] EXCEPT !.pc = "raised"])
<1> DEFINE e == exec[p]
<1>1. Sound(e) /\ e.pc # "idle"
  BY DEF PInv, At
<1> HIDE DEF e
<1>2. [e EXCEPT !.pc = "raised"] \in Executes
  BY <1>1 DEF Sound, Executes, ExecSteps
<1>3. e.calls <= 3 + MaxRepairCalls
  BY <1>1, PipelineAssumption DEF Sound, Executes, ExecSteps, Progress, Finished
<1> QED
  BY <1>1, <1>2, <1>3
  DEF Sound, Executes, Progress, Finished, OfOneRelease, e

LEMMA RaiseStep ==
  ASSUME PInv, NEW p \in Procs, ~At(p, "idle"), Raise(p), UNCHANGED <<provider, release>>
  PROVE  PInv'
<1>1. Becomes(p, [exec[p] EXCEPT !.pc = "raised"])
  BY DEF Raise, Goto, Becomes, PInv
<1> QED
  BY <1>1, RaisedSound, OneMoves

\* A call that does not answer, or not as it should: it is repeated, which only Cloudflare's
\* answers allow, or raises.
LEMMA CallFailsStep ==
  ASSUME PInv, NEW p \in Procs, exec[p].pc \in {"planner", "writer", "repair", "verifier"},
         CallFails(p), UNCHANGED <<provider, release>>
  PROVE  PInv'
<1> DEFINE e == exec[p]
<1>1. Sound(e) /\ ~At(p, "idle")
  BY DEF PInv, At
<1>2. ASSUME Refused(p)
      PROVE  PInv'
  <2>1. PICK answer \in Answers \ {"answer"} :
          IF Repeats(p, answer) THEN Becomes(p, [exec[p] EXCEPT !.retrying = TRUE])
          ELSE Raise(p)
    BY <1>2 DEF Refused
  <2>2. CASE Repeats(p, answer)
    <3>1. provider = "cloudflare_workers_ai"
      BY <2>1, <2>2 DEF Repeats, Answers, CodexAnswers, Providers, PInv
    <3>2. Sound([e EXCEPT !.retrying = TRUE])
      BY <1>1, <3>1 DEF Sound, Executes, Progress, OfOneRelease
    <3> QED
      BY <2>1, <2>2, <3>2, OneMoves
  <2>3. CASE ~Repeats(p, answer)
    BY <1>1, <2>1, <2>3, RaiseStep
  <2> QED
    BY <2>2, <2>3
<1>3. ASSUME QuotaSpent(p)
      PROVE  PInv'
  BY <1>1, <1>3, RaiseStep DEF QuotaSpent
<1>4. ASSUME Malformed(p)
      PROVE  PInv'
  <2> DEFINE f == [Answered(p) EXCEPT !.pc = "raised"]
  <2>1. Becomes(p, f)
    BY <1>4 DEF Malformed
  <2>2. e.calls + 1 <= 3 + MaxRepairCalls
    <3>1. /\ e.calls \in Nat /\ Progress(e)
          /\ e.pc \in {"planner", "writer", "repair", "verifier"}
      BY <1>1 DEF Sound, Executes
    <3> QED
      BY <3>1, PipelineAssumption DEF Progress
  <2>3. /\ f \in Executes
        /\ f.pc = "raised" /\ f.calls = e.calls + 1 /\ f.retrying = FALSE
    BY <1>1, AnsweredFields DEF Sound, ExecSteps
  <2> HIDE DEF f
  <2>4. Sound(f)
    BY <2>2, <2>3 DEF Sound, Progress, Finished, OfOneRelease
  <2> QED
    BY <1>1, <2>1, <2>4, OneMoves
<1> QED
  BY <1>2, <1>3, <1>4 DEF CallFails

-----------------------------------------------------------------------------
LEMMA BeginStep ==
  ASSUME PInv, NEW p \in Procs, Begin(p)
  PROVE  PInv'
<1> DEFINE e == [NoExec EXCEPT !.pc = "retrieve", !.planned = release]
<1>1. Sound(e)
  BY NoExecSound
  DEF PInv, Sound, NoExec, Executes, ExecSteps, Progress, Finished, OfOneRelease
<1> QED
  BY <1>1, OneMoves DEF Begin, Becomes

LEMMA RetrieveStep ==
  ASSUME PInv, NEW p \in Procs, Retrieve(p)
  PROVE  PInv'
<1> DEFINE e == [exec[p] EXCEPT !.lore = release, !.pc = "planner"]
<1>1. Sound(exec[p]) /\ exec[p].pc = "retrieve" /\ UNCHANGED <<provider, release>>
  BY DEF PInv, Retrieve, At, Alone
<1>2. CASE PaletteFits(p) /\ Becomes(p, [Retrieved(p) EXCEPT !.pc = "planner"])
  <2>1. Becomes(p, e)
    BY <1>1, <1>2 DEF Retrieved, Sound, Executes
  <2>2. Sound(e)
    BY <1>1, <1>2
    DEF PInv, PaletteFits, Sound, Executes, ExecSteps, Progress, Finished, OfOneRelease
  <2> QED
    BY <1>1, <2>1, <2>2, OneMoves
<1>3. CASE Raise(p)
  BY <1>1, <1>3, RaiseStep DEF At
<1> QED
  BY <1>2, <1>3 DEF Retrieve

LEMMA PlanStep ==
  ASSUME PInv, NEW p \in Procs, PlanEvents(p)
  PROVE  PInv'
<1> DEFINE e == [Answered(p) EXCEPT !.pc = "writer"]
<1>1. Sound(exec[p]) /\ exec[p].pc = "planner" /\ UNCHANGED <<provider, release>>
  BY DEF PInv, PlanEvents, At, Alone
<1>2. CASE Becomes(p, e)
  <2>1. /\ e \in Executes
        /\ e.pc = "writer" /\ e.calls = exec[p].calls + 1 /\ e.retrying = FALSE
        /\ Same(exec[p], e)
    BY <1>1, AnsweredFields DEF Sound, ExecSteps
  <2>2. /\ exec[p].calls = 0 /\ exec[p].written = 0
        /\ exec[p].lore = exec[p].planned
    BY <1>1 DEF Sound, Progress, OfOneRelease
  <2> HIDE DEF e
  <2>3. Sound(e)
    BY <2>1, <2>2 DEF Sound, Progress, Finished, OfOneRelease, Same
  <2> QED
    BY <1>1, <1>2, <2>3, OneMoves
<1>3. CASE CallFails(p)
  BY <1>1, <1>3, CallFailsStep
<1> QED
  BY <1>2, <1>3 DEF PlanEvents

\* What becomes of an edition that was answered and is looked at by the validators,
\* which send it to the verifier or to next.
Looked(e, page, next) ==
  LET answered == [e EXCEPT !.calls = @ + 1, !.retrying = FALSE]
      drafted == [answered EXCEPT !.written = @ + 1, !.page = page]
  IN [drafted EXCEPT !.pc = IF Passes(page) THEN "verifier" ELSE next,
                     !.validated = IF Passes(page) THEN e.written + 1 ELSE @]

LEMMA LookedSound ==
  ASSUME NEW e, Sound(e), NEW page \in Pages, NEW next,
         \/ e.pc = "writer" /\ next \in {"repair", "raised"}
         \/ e.pc = "repair" /\ next = "raised",
         next = "repair" => MaxRepairCalls = 1
  PROVE  Sound(Looked(e, page, next))
<1> DEFINE f == Looked(e, page, next)
<1>0. e \in Executes
  BY DEF Sound
<1>1. /\ f.calls = e.calls + 1 /\ f.written = e.written + 1 /\ f.page = page
      /\ f.retrying = FALSE /\ f.lore = e.lore /\ f.planned = e.planned
      /\ f.pc = IF Passes(page) THEN "verifier" ELSE next
      /\ f.validated = IF Passes(page) THEN e.written + 1 ELSE e.validated
  BY <1>0 DEF Looked, Executes
<1>2. e.calls \in Nat /\ e.written \in {0, 1} /\ e.calls = e.written + 1
  <2>1. e.calls \in Nat /\ Progress(e) /\ e.pc \in {"writer", "repair"}
    BY DEF Sound, Executes
  <2> QED
    BY <2>1 DEF Progress
<1>3. f \in Executes
  <2>1. /\ e.calls + 1 \in Nat /\ e.written + 1 \in 0..2
        /\ (IF Passes(page) THEN e.written + 1 ELSE e.validated) \in 0..2
        /\ (IF Passes(page) THEN "verifier" ELSE next) \in ExecSteps
    BY <1>0, <1>2 DEF Executes, ExecSteps
  <2> DEFINE a == [e EXCEPT !.calls = @ + 1]
             b == [a EXCEPT !.retrying = FALSE]
             c == [b EXCEPT !.written = @ + 1, !.page = page]
             v == IF Passes(page) THEN e.written + 1 ELSE e.validated
             n == IF Passes(page) THEN "verifier" ELSE next
  <2>2. a \in Executes
    BY <1>0, <2>1 DEF Executes
  <2>3. b \in Executes /\ b.written = e.written /\ b.validated = e.validated
    <3>1. a.written = e.written /\ a.validated = e.validated
      BY <1>0 DEF Executes
    <3> HIDE DEF a
    <3> QED
      BY <2>2, <3>1 DEF Executes
  <2>4. c \in Executes /\ c.validated = e.validated
    <3> HIDE DEF b
    <3> QED
      BY <2>1, <2>3 DEF Executes
  <2>5. f = [c EXCEPT !.pc = n, !.validated = v]
    <3>1. f = [c EXCEPT !.pc = n,
                        !.validated = IF Passes(page) THEN e.written + 1 ELSE c.validated]
      BY DEF Looked
    <3> HIDE DEF c
    <3> QED
      BY <2>4, <3>1
  <2> HIDE DEF c, f, n, v
  <2>6. n \in ExecSteps /\ v \in 0..2
    BY <2>1 DEF n, v
  <2> QED
    BY <2>4, <2>5, <2>6 DEF Executes
<1>4. OfOneRelease(f)
  BY <1>1 DEF Sound, OfOneRelease
<1>5. Progress(f)
  <2>1. CASE Passes(page)
    BY <1>1, <1>2, <2>1 DEF Progress, Finished, Sound
  <2>2. CASE ~Passes(page)
    BY <1>1, <1>2, <2>2, PipelineAssumption DEF Progress, Finished, Sound
  <2> QED
    BY <2>1, <2>2
<1> QED
  BY <1>1, <1>3, <1>4, <1>5 DEF Sound

LEMMA WriteStep ==
  ASSUME PInv, NEW p \in Procs, Write(p)
  PROVE  PInv'
<1> DEFINE e == exec[p]
           next == IF MaxRepairCalls = 1 THEN "repair" ELSE "raised"
<1>1. Sound(e) /\ e.pc = "writer" /\ UNCHANGED <<provider, release>>
  BY DEF PInv, Write, At, Alone
<1>2. CASE \E page \in Pages : Becomes(p, DraftChecked(Draft(Answered(p), page)))
  <2>1. PICK page \in Pages : Becomes(p, DraftChecked(Draft(Answered(p), page)))
    BY <1>2
  <2>2. DraftChecked(Draft(Answered(p), page)) = Looked(e, page, next)
    BY <1>1 DEF DraftChecked, Draft, Answered, Validated, Looked, Sound, Executes
  <2>3. Sound(Looked(e, page, next))
    BY <1>1, LookedSound
  <2> QED
    BY <1>1, <2>1, <2>2, <2>3, OneMoves
<1>3. CASE CallFails(p)
  BY <1>1, <1>3, CallFailsStep
<1> QED
  BY <1>2, <1>3 DEF Write

\* The repaired articles are pages.
LEMMA ArticlesPages ==
  ASSUME NEW page \in Pages, NEW fallback \in Pages
  PROVE  /\ Articles(page, fallback) \in Pages
         /\ Articles(page, fallback).short \subseteq fallback.short
  BY DEF Articles, Pages

LEMMA RepairStep ==
  ASSUME PInv, NEW p \in Procs, Repair(p)
  PROVE  PInv'
<1> DEFINE e == exec[p]
<1>1. Sound(e) /\ e.pc = "repair" /\ UNCHANGED <<provider, release>>
  BY DEF PInv, Repair, At, Alone
<1>2. CASE \E page \in Pages :
             Becomes(p, RepairChecked(Draft(Answered(p), Articles(page, exec[p].page))))
  <2>1. PICK page \in Pages :
          Becomes(p, RepairChecked(Draft(Answered(p), Articles(page, exec[p].page))))
    BY <1>2
  <2> DEFINE articles == Articles(page, e.page)
  <2>2. articles \in Pages
    BY <1>1, ArticlesPages DEF Sound, Executes
  <2> HIDE DEF articles
  <2>3. RepairChecked(Draft(Answered(p), articles)) = Looked(e, articles, "raised")
    BY <1>1 DEF RepairChecked, Draft, Answered, Validated, Looked, Sound, Executes
  <2>4. Sound(Looked(e, articles, "raised"))
    BY <1>1, <2>2, LookedSound
  <2> QED
    BY <1>1, <2>1, <2>3, <2>4, OneMoves DEF articles
<1>3. CASE CallFails(p)
  BY <1>1, <1>3, CallFailsStep
<1> QED
  BY <1>2, <1>3 DEF Repair

LEMMA VerifyStep ==
  ASSUME PInv, NEW p \in Procs, Verify(p)
  PROVE  PInv'
<1> DEFINE b == [Answered(p) EXCEPT !.pc = "budget"]
           e == [b EXCEPT !.verified = exec[p].written]
<1>1. Sound(exec[p]) /\ exec[p].pc = "verifier" /\ UNCHANGED <<provider, release>>
  BY DEF PInv, Verify, At, Alone
<1>2. CASE Becomes(p, [Answered(p) EXCEPT !.pc = "budget", !.verified = exec[p].written])
  <2>1. /\ b \in Executes
        /\ b.pc = "budget" /\ b.calls = exec[p].calls + 1 /\ b.retrying = FALSE
        /\ Same(exec[p], b)
    BY <1>1, AnsweredFields DEF Sound, ExecSteps
  <2>2. Becomes(p, e)
    BY <1>2
  <2> HIDE DEF b
  <2>3. exec[p].written \in 0..2
    BY <1>1 DEF Sound, Executes
  <2>4. /\ e \in Executes
        /\ e.pc = "budget" /\ e.calls = exec[p].calls + 1 /\ e.retrying = FALSE
        /\ Same(exec[p], e)
        /\ e.verified = exec[p].written
    BY <2>1, <2>3 DEF Executes, Same
  <2>5. exec[p].pc = "verifier" /\ Progress(exec[p]) /\ OfOneRelease(exec[p])
    BY <1>1 DEF Sound
  <2> HIDE DEF e
  <2>6. Sound(e)
    BY <2>4, <2>5 DEF Sound, Progress, Finished, OfOneRelease, Same
  <2> QED
    BY <1>1, <2>2, <2>6, OneMoves
<1>3. CASE CallFails(p)
  BY <1>1, <1>3, CallFailsStep
<1> QED
  BY <1>2, <1>3 DEF Verify

\* The steps after the calls go on with the edition as it is, or raise.
LEMMA FinishedSound ==
  ASSUME PInv, NEW p \in Procs, exec[p].pc \in Finished, NEW step \in Finished
  PROVE  /\ Sound([exec[p] EXCEPT !.pc = step])
         /\ \A image \in Keys \cup {NoKey} :
              Sound([exec[p] EXCEPT !.pc = step, !.image = image])
<1> DEFINE e == exec[p]
           f == [e EXCEPT !.pc = step]
           Like(x) == /\ x.written = e.written /\ x.calls = e.calls /\ x.page = e.page
                      /\ x.verified = e.verified /\ x.validated = e.validated
                      /\ x.lore = e.lore /\ x.planned = e.planned
                      /\ x.retrying = e.retrying
<1>1. Sound(e) /\ e \in Executes
  BY DEF PInv, Sound
<1>2. step \in ExecSteps
  BY DEF Finished, ExecSteps
<1>3. ASSUME NEW x \in Executes, x.pc = step, Like(x)
      PROVE  Sound(x)
  <2>1. Progress(e) /\ OfOneRelease(e) /\ e.pc \in Finished /\ x.pc \in Finished
    BY <1>1, <1>3 DEF Sound
  <2>2. Progress(x) /\ OfOneRelease(x)
    BY <1>3, <2>1 DEF Progress, OfOneRelease, Finished
  <2> QED
    BY <1>1, <1>3, <2>2 DEF Sound
<1>4. f \in Executes /\ f.pc = step /\ Like(f)
  BY <1>1, <1>2 DEF Executes
<1>5. ASSUME NEW image \in Keys \cup {NoKey}
      PROVE  LET x == [e EXCEPT !.pc = step, !.image = image]
             IN x \in Executes /\ x.pc = step /\ Like(x)
  BY <1>1, <1>2 DEF Executes
<1> QED
  BY <1>3, <1>4, <1>5

LEMMA GoOn ==
  ASSUME PInv, NEW p \in Procs, exec[p].pc \in Finished, NEW step \in Finished,
         Goto(p, step), UNCHANGED <<provider, release>>
  PROVE  PInv'
<1>1. Becomes(p, [exec[p] EXCEPT !.pc = step])
  BY DEF Goto, Becomes, PInv
<1> QED
  BY <1>1, FinishedSound, OneMoves

LEMMA FinishingSteps ==
  ASSUME PInv, NEW p \in Procs, Budget(p) \/ NoArtwork(p) \/ Seal(p)
  PROVE  PInv'
<1>1. UNCHANGED <<provider, release>>
  BY DEF Budget, NoArtwork, Seal, Alone
<1>2. exec[p].pc \in Finished /\ ~At(p, "idle")
  BY DEF Budget, NoArtwork, Seal, At, Finished
<1>3. Raise(p) \/ \E step \in Finished : Goto(p, step)
  BY DEF Budget, NoArtwork, Seal, Finished
<1> QED
  BY <1>1, <1>2, <1>3, RaiseStep, GoOn

-----------------------------------------------------------------------------
(* The bucket without what is removed.                                     *)

OneEach(s) == \A i, k \in DOMAIN s : s[i] = s[k] => i = k
Members(s) == {s[i] : i \in DOMAIN s}

\* What is left of a list: the rest, in its order, and nothing of it further from the
\* end than it was.
LeftOf(w, s, n, S) ==
  /\ Members(w) = {s[i] : i \in 1..n} \ S
  /\ OneEach(w)
  /\ \A i \in DOMAIN w : \E k \in 1..n : w[i] = s[k] /\ Len(w) - i <= n - k

LEMMA LeftOfOneMore ==
  ASSUME NEW s \in Seq(Keys), OneEach(s), NEW S, NEW n \in 1..Len(s),
         NEW v \in Seq(Keys), LeftOf(v, s, n - 1, S),
         NEW w, w = IF s[n] \in S THEN v ELSE Append(v, s[n])
  PROVE  w \in Seq(Keys) /\ LeftOf(w, s, n, S)
<1>1. {s[i] : i \in 1..n} = {s[i] : i \in 1..(n - 1)} \cup {s[n]} /\ n \in DOMAIN s
  OBVIOUS
<1>2. CASE s[n] \in S
  <2>1. w = v /\ Members(w) = {s[i] : i \in 1..n} \ S
    BY <1>1, <1>2 DEF LeftOf
  <2>2. ASSUME NEW i \in DOMAIN v
        PROVE  \E k \in 1..n : v[i] = s[k] /\ Len(v) - i <= n - k
    <3>1. PICK k \in 1..(n - 1) : v[i] = s[k] /\ Len(v) - i <= (n - 1) - k
      BY DEF LeftOf
    <3>2. Len(v) \in Nat /\ i \in Nat /\ k \in Nat /\ n \in Nat /\ k \in 1..n
      OBVIOUS
    <3>3. Len(v) - i <= n - k
      BY <3>1, <3>2
    <3> QED BY <3>1, <3>2, <3>3
  <2> QED BY <2>1, <2>2 DEF LeftOf
<1>3. CASE s[n] \notin S
  <2>1. /\ w \in Seq(Keys) /\ Len(w) = Len(v) + 1 /\ DOMAIN v = 1..Len(v)
        /\ DOMAIN w = DOMAIN v \cup {Len(v) + 1}
        /\ \A i \in DOMAIN v : w[i] = v[i]
        /\ w[Len(v) + 1] = s[n]
    BY <1>1, <1>3
  <2>2. Members(w) = Members(v) \cup {s[n]}
    BY <2>1 DEF Members
  <2>3. Members(w) = {s[i] : i \in 1..n} \ S
    BY <1>1, <1>3, <2>2 DEF LeftOf
  <2>4. s[n] \notin Members(v)
    <3>1. \A i \in 1..(n - 1) : i \in DOMAIN s /\ i # n
      OBVIOUS
    <3> QED BY <1>1, <3>1 DEF LeftOf, OneEach
  <2>5. OneEach(w)
    BY <2>1, <2>4 DEF LeftOf, OneEach, Members
  <2>6. ASSUME NEW i \in DOMAIN w
        PROVE  \E k \in 1..n : w[i] = s[k] /\ Len(w) - i <= n - k
    <3>1. CASE i \in DOMAIN v
      <4>1. PICK k \in 1..(n - 1) : v[i] = s[k] /\ Len(v) - i <= (n - 1) - k
        BY <3>1 DEF LeftOf
      <4>2. /\ Len(v) \in Nat /\ i \in Nat /\ k \in Nat /\ n \in Nat /\ k \in 1..n
            /\ Len(w) = Len(v) + 1
        BY <2>1, <3>1
      <4>3. Len(w) - i <= n - k
        BY <4>1, <4>2
      <4> QED BY <2>1, <3>1, <4>1, <4>2, <4>3
    <3>2. CASE i = Len(v) + 1
      <4>1. Len(w) - i <= n - n /\ n \in 1..n
        BY <2>1, <3>2
      <4> QED BY <2>1, <3>2, <4>1
    <3> QED BY <2>1, <3>1, <3>2
  <2> QED BY <2>1, <2>3, <2>5, <2>6 DEF LeftOf
<1> QED BY <1>2, <1>3

LEMMA WithoutLeaves ==
  ASSUME NEW s \in Seq(Keys), OneEach(s), NEW S
  PROVE  /\ Without(s, S) \in Seq(Keys)
         /\ LeftOf(Without(s, S), s, Len(s), S)
<1> DEFINE Next1(g, i) == IF i = 0 THEN << >>
                       ELSE IF s[i] \in S THEN g[i - 1] ELSE Append(g[i - 1], s[i])
           Kept(g, n) == g = [i \in 0..n |-> Next1(g, i)]
           kept == CHOOSE g : Kept(g, Len(s))
           N == {n \in 0..Len(s) : ~ \E g : Kept(g, n)}
           M == {n \in 0..Len(s) : ~ (kept[n] \in Seq(Keys) /\ LeftOf(kept[n], s, n, S))}
<1>1. Without(s, S) = kept[Len(s)]
  BY DEF Without
<1>2. N = {}
  <2> SUFFICES ASSUME N # {} PROVE FALSE
    OBVIOUS
  <2>1. PICK n \in N : \A m \in N : n <= m
    <3>1. N \in SUBSET Nat
      OBVIOUS
    <3> HIDE DEF N
    <3> QED BY <3>1, LeastNumber
  <2>2. CASE n = 0
    <3> DEFINE g == [i \in 0..n |-> << >>]
    <3>1. \A i \in 0..n : Next1(g, i) = << >>
      BY <2>2
    <3> HIDE DEF Next1
    <3>2. Kept(g, n)
      BY <3>1
    <3> QED BY <3>2
  <2>3. CASE n # 0
    <3>0. n \in 0..Len(s)
      OBVIOUS
    <3>1. n - 1 \in 0..Len(s) /\ n - 1 \notin N /\ n \in Nat
      <4> HIDE DEF N
      <4> QED BY <2>1, <2>3, <3>0
    <3>2. PICK g : Kept(g, n - 1)
      BY <3>1
    <3> DEFINE h == [i \in 0..n |-> IF i = n THEN Next1(g, n) ELSE g[i]]
    <3>3. \A i \in 0..n : h[i] = Next1(h, i)
      <4> TAKE i \in 0..n
      <4>1. CASE i = 0
        BY <2>3, <3>1, <3>2, <4>1
      <4>2. CASE i # 0
        <5>1. i - 1 \in 0..(n - 1) /\ h[i - 1] = g[i - 1]
          BY <3>1, <4>2
        <5>2. h[i] = Next1(g, i)
          <6>1. i # n => i \in 0..(n - 1)
            BY <3>1
          <6>2. \A k \in 0..(n - 1) : g[k] = Next1(g, k)
            <7> HIDE DEF Next1
            <7> QED BY <3>2
          <6> HIDE DEF Next1
          <6> QED BY <6>1, <6>2
        <5>3. Next1(h, i) = Next1(g, i)
          <6> HIDE DEF h
          <6> QED BY <4>2, <5>1
        <5> HIDE DEF h, Next1
        <5> QED BY <5>2, <5>3
      <4> QED BY <4>1, <4>2
    <3>4. Kept(h, n)
      <4>1. h = [i \in 0..n |-> h[i]]
        OBVIOUS
      <4> HIDE DEF h, Next1
      <4> QED BY <3>3, <4>1
    <3> QED BY <3>4
  <2> QED BY <2>2, <2>3
<1>3. Kept(kept, Len(s))
  <2>1. Len(s) \in 0..Len(s)
    OBVIOUS
  <2>2. \E g : Kept(g, Len(s))
    BY <1>2, <2>1
  <2> HIDE DEF Kept
  <2> QED BY <2>2
<1>4. \A i \in 0..Len(s) : kept[i] = Next1(kept, i)
  <2> HIDE DEF kept, Next1
  <2> QED BY <1>3
<1> HIDE DEF kept, N
<1>5. M = {}
  <2> SUFFICES ASSUME M # {} PROVE FALSE
    OBVIOUS
  <2>1. PICK n \in M : \A m \in M : n <= m
    <3>1. M \in SUBSET Nat
      OBVIOUS
    <3> HIDE DEF M
    <3> QED BY <3>1, LeastNumber
  <2>2. CASE n = 0
    <3>1. kept[n] = << >>
      BY <1>4, <2>2
    <3>2. LeftOf(<< >>, s, 0, S)
      BY DEF LeftOf, Members, OneEach
    <3>3. << >> \in Seq(Keys)
      OBVIOUS
    <3>4. ~ (kept[n] \in Seq(Keys) /\ LeftOf(kept[n], s, n, S))
      OBVIOUS
    <3> HIDE DEF M
    <3> QED BY <2>2, <3>1, <3>2, <3>3, <3>4
  <2>3. CASE n # 0
    <3>1. n - 1 \in 0..Len(s) /\ n - 1 \notin M /\ n \in 1..Len(s)
      BY <2>1, <2>3
    <3>2. kept[n - 1] \in Seq(Keys) /\ LeftOf(kept[n - 1], s, n - 1, S)
      BY <3>1
    <3>3. kept[n] = IF s[n] \in S THEN kept[n - 1] ELSE Append(kept[n - 1], s[n])
      BY <1>4, <2>3
    <3>4. kept[n] \in Seq(Keys) /\ LeftOf(kept[n], s, n, S)
      <4> HIDE DEF M
      <4> PICK v, w : v = kept[n - 1] /\ w = kept[n]
        OBVIOUS
      <4>1. v \in Seq(Keys) /\ LeftOf(v, s, n - 1, S)
        BY <3>2
      <4>2. w = IF s[n] \in S THEN v ELSE Append(v, s[n])
        BY <3>3
      <4>3. w \in Seq(Keys) /\ LeftOf(w, s, n, S)
        BY <3>1, <4>1, <4>2, LeftOfOneMore
      <4> QED BY <4>3
    <3> QED BY <3>4
  <2> QED BY <2>2, <2>3
<1>6. Len(s) \in 0..Len(s)
  OBVIOUS
<1> QED BY <1>1, <1>5, <1>6

-----------------------------------------------------------------------------
(* The invariant of the bucket.                                            *)

\* The uploads of u after the last one of key k, and those of k.
Since(u, k) == {i \in DOMAIN u : \A j \in i..Len(u) : u[j] # k}
Newer(u, k) == Cardinality(Since(u, k))
UploadsOf(u, k) == {i \in DOMAIN u : u[i] = k}

Known == Members(uploaded)
Aged(k) == Once(k) => UploadsSince(k) >= MaxStored - 1

Deleting == {p \in Procs : art[p].pc = "delete"}
Uploading == {p \in Procs : art[p].pc = "upload"}
DoomedBy(T) == UNION {Doomed(p) : p \in T}

ArtRows == [pc : ArtSteps, key : Keys \cup {NoKey}, listed : Seq(Keys), tries : 0..MaxRetries]

ArtTyped ==
  /\ bucket \in Seq(Keys)
  /\ OneEach(bucket)
  /\ uploaded \in Seq(Keys)
  /\ art \in [Procs -> ArtRows]
  /\ \A p \in Procs : art[p].pc # "off" => art[p].key \in Keys

\* What the removals under way leave has room for the uploads under way and for one
\* of each process that removes: whichever of the removals come before the others.
Room ==
  \A T \in SUBSET Deleting :
    Cardinality(Stored \ DoomedBy(T)) + Cardinality(Uploading) + Cardinality(T)
      <= MaxStored - 1 + Cardinality(Procs)

\* The bucket is in the order of the uploads, what is listed to be removed was old
\* when it was listed, and what is gone was listed.
Ages ==
  /\ Stored \subseteq Known
  /\ \A i \in DOMAIN bucket : Newer(uploaded, bucket[i]) >= Len(bucket) - i
  /\ \A p \in Deleting : \A k \in Doomed(p) : k \in Known /\ Aged(k)
  /\ \A k \in Known : k \in Stored \/ Aged(k)
  /\ \A p \in Procs : art[p].pc = "kept" => art[p].key \in Known

AInv == ArtTyped /\ Room /\ Ages

\* A sequence that has each element once has as many as it is long.
LEMMA LengthIsCount ==
  ASSUME NEW s \in Seq(Keys), OneEach(s)
  PROVE  IsFiniteSet(Members(s)) /\ Cardinality(Members(s)) = Len(s)
<1> DEFINE D == 1..Len(s)
           T == Members(s)
           f == [i \in D |-> s[i]]
<1>1. IsFiniteSet(D) /\ Cardinality(D) = Len(s) /\ DOMAIN s = D
  <2>1. Len(s) \in Nat /\ 1 \in Int /\ Len(s) \in Int /\ DOMAIN s = D
    OBVIOUS
  <2>2. IsFiniteSet(D) /\ Cardinality(D) = IF 1 > Len(s) THEN 0 ELSE Len(s) - 1 + 1
    BY <2>1, FS_Interval
  <2> QED BY <2>1, <2>2
<1>2. f \in Bijection(D, T)
  <2>1. f \in [D -> T]
    BY <1>1 DEF Members
  <2>2. \A t \in T : \E i \in D : f[i] = t
    BY <1>1 DEF Members
  <2>3. \A i, k \in D : f[i] = f[k] => i = k
    BY <1>1 DEF OneEach
  <2> QED BY <2>1, <2>2, <2>3 DEF Bijection, Injection, Surjection, IsInjective
<1>3. IsFiniteSet(T) /\ Cardinality(D) = Cardinality(T)
  <2>1. ExistsBijection(D, T)
    BY <1>2 DEF ExistsBijection
  <2> HIDE DEF D, T
  <2> QED BY <1>1, <2>1, FS_Bijection
<1> QED BY <1>1, <1>3

LEMMA StoredIsIn ==
  ASSUME ArtTyped
  PROVE  /\ Stored = Members(bucket) /\ IsFiniteSet(Stored) /\ Cardinality(Stored) = Len(bucket)
         /\ Len(bucket) \in Nat
<1>1. bucket \in Seq(Keys) /\ OneEach(bucket)
  BY DEF ArtTyped
<1>2. Stored = Members(bucket)
  BY DEF Stored, Members
<1> QED BY <1>1, <1>2, LengthIsCount

\* A set of processes has a size.
LEMMA FewProcs ==
  ASSUME NEW T \in SUBSET Procs
  PROVE  IsFiniteSet(T) /\ Cardinality(T) \in Nat /\ Cardinality(T) <= Cardinality(Procs)
         /\ Cardinality(Procs) \in Nat
BY ArtworkAssumption, FS_Subset, FS_CardinalityType

-----------------------------------------------------------------------------
(* What an upload does to the age of the others.                           *)

LEMMA SinceIsNewer == \A k : UploadsSince(k) = Newer(uploaded, k)
  BY DEF UploadsSince, Newer, Since

LEMMA IndexSets ==
  ASSUME NEW u \in Seq(Keys), NEW S \in SUBSET DOMAIN u
  PROVE  IsFiniteSet(S) /\ Cardinality(S) \in Nat
<1>1. DOMAIN u = 1..Len(u) /\ Len(u) \in Int /\ 1 \in Int
  OBVIOUS
<1>2. IsFiniteSet(1..Len(u))
  BY <1>1, FS_Interval
<1> QED BY <1>1, <1>2, FS_Subset, FS_CardinalityType

LEMMA OneMoreUpload ==
  ASSUME NEW u \in Seq(Keys), NEW key \in Keys, NEW k, k # key,
         NEW w, w = Append(u, key)
  PROVE  /\ Cardinality(Since(w, k)) = Cardinality(Since(u, k)) + 1
         /\ UploadsOf(w, k) = UploadsOf(u, k)
<1> DEFINE n == Len(u) + 1
<1>1. /\ DOMAIN u = 1..Len(u) /\ Len(u) \in Nat
      /\ Len(w) = n /\ DOMAIN w = DOMAIN u \cup {n} /\ n \notin DOMAIN u
      /\ w[n] = key
      /\ \A i \in DOMAIN u : w[i] = u[i]
  OBVIOUS
<1>2. \A i \in DOMAIN u : i..n = (i..Len(u)) \cup {n} /\ i..Len(u) \subseteq DOMAIN u
  BY <1>1
<1>3. n..n = {n}
  BY <1>1
<1> HIDE DEF n
<1>4. Since(w, k) = Since(u, k) \cup {n}
  BY <1>1, <1>2, <1>3 DEF Since
<1>5. UploadsOf(w, k) = UploadsOf(u, k)
  BY <1>1 DEF UploadsOf
<1>6. n \notin Since(u, k)
  BY <1>1 DEF Since
<1>7. IsFiniteSet(Since(u, k))
  <2>1. Since(u, k) \in SUBSET DOMAIN u
    BY DEF Since
  <2> QED BY <2>1, IndexSets
<1> QED BY <1>4, <1>5, <1>6, <1>7, FS_AddElement

\* What is uploaded again is there more than once.
LEMMA SecondUpload ==
  ASSUME NEW u \in Seq(Keys), NEW key \in Members(u), NEW w, w = Append(u, key)
  PROVE  Cardinality(UploadsOf(w, key)) # 1
<1>1. key \in Keys
  BY DEF Members
<1>2. /\ Len(u) \in Nat /\ DOMAIN w = DOMAIN u \cup {Len(u) + 1} /\ Len(u) + 1 \notin DOMAIN u
      /\ w[Len(u) + 1] = key /\ w \in Seq(Keys)
      /\ \A i \in DOMAIN u : w[i] = u[i]
  BY <1>1
<1>3. PICK i \in DOMAIN u : u[i] = key
  BY DEF Members
<1>4. i \in UploadsOf(w, key) /\ Len(u) + 1 \in UploadsOf(w, key) /\ i # Len(u) + 1
  BY <1>2, <1>3 DEF UploadsOf
<1>5. SUFFICES ASSUME Cardinality(UploadsOf(w, key)) = 1 PROVE FALSE
  OBVIOUS
<1>6. IsFiniteSet(UploadsOf(w, key))
  <2>1. UploadsOf(w, key) \in SUBSET DOMAIN w
    BY DEF UploadsOf
  <2> QED BY <1>2, <2>1, IndexSets
<1>7. PICK x : UploadsOf(w, key) = {x}
  BY <1>5, <1>6, FS_Singleton
<1> QED BY <1>4, <1>7

\* The ages after an upload of key.
LEMMA PutAges ==
  ASSUME ArtTyped, NEW key \in Keys, uploaded' = Append(uploaded, key)
  PROVE  /\ Known' = Known \cup {key}
         /\ \A k \in Known : Aged(k) => Aged(k)'
         /\ \A k : k # key => Newer(uploaded', k) = Newer(uploaded, k) + 1
         /\ \A k : Newer(uploaded, k) \in Nat /\ Newer(uploaded', k) \in Nat
<1> PICK u, w : u = uploaded /\ w = uploaded'
  OBVIOUS
<1>1. u \in Seq(Keys) /\ w = Append(u, key) /\ w \in Seq(Keys)
  BY DEF ArtTyped
<1>2. Known = Members(u) /\ Known' = Members(w)
  BY DEF Known, Members
<1>3. Members(w) = Members(u) \cup {key}
  <2>1. /\ DOMAIN w = DOMAIN u \cup {Len(u) + 1} /\ Len(u) + 1 \notin DOMAIN u
        /\ w[Len(u) + 1] = key
        /\ \A i \in DOMAIN u : w[i] = u[i]
    BY <1>1
  <2> QED BY <2>1 DEF Members
<1>4. ASSUME NEW k
      PROVE  /\ UploadsSince(k) = Cardinality(Since(u, k))
             /\ UploadsSince(k)' = Cardinality(Since(w, k))
             /\ Once(k) <=> Cardinality(UploadsOf(u, k)) = 1
             /\ Once(k)' <=> Cardinality(UploadsOf(w, k)) = 1
             /\ Cardinality(Since(u, k)) \in Nat
             /\ Cardinality(Since(w, k)) \in Nat
  <2>1. UploadsSince(k) = Cardinality(Since(u, k)) /\ UploadsSince(k)' = Cardinality(Since(w, k))
    BY DEF UploadsSince, Since
  <2>2. /\ Once(k) <=> Cardinality(UploadsOf(u, k)) = 1
        /\ Once(k)' <=> Cardinality(UploadsOf(w, k)) = 1
    BY DEF Once, UploadsOf
  <2>3. Since(u, k) \in SUBSET DOMAIN u /\ Since(w, k) \in SUBSET DOMAIN w
    BY DEF Since
  <2> QED BY <1>1, <2>1, <2>2, <2>3, IndexSets
<1>5. ASSUME NEW k, k # key
      PROVE  /\ Cardinality(Since(w, k)) = Cardinality(Since(u, k)) + 1
             /\ UploadsOf(w, k) = UploadsOf(u, k)
  <2>1. u \in Seq(Keys) /\ key \in Keys /\ k # key /\ w = Append(u, key)
    BY <1>1, <1>5
  <2>2. Cardinality(Since(w, k)) = Cardinality(Since(u, k)) + 1
    BY <2>1, OneMoreUpload
  <2>3. UploadsOf(w, k) = UploadsOf(u, k)
    BY <2>1, OneMoreUpload, Zenon
  <2> QED BY <2>2, <2>3
<1>6. \A k : k # key => UploadsSince(k)' = UploadsSince(k) + 1
  BY <1>4, <1>5
<1>7. ASSUME NEW k \in Known, Aged(k)
      PROVE  Aged(k)'
  <2>1. CASE k # key
    <3>1. Once(k)' => Once(k)
      BY <1>4, <1>5, <2>1
    <3>2. UploadsSince(k)' = UploadsSince(k) + 1 /\ UploadsSince(k) \in Nat
      BY <1>4, <1>6, <2>1
    <3> QED BY <1>7, <3>1, <3>2, ArtworkAssumption DEF Aged
  <2>2. CASE k = key
    <3>1. key \in Members(u)
      BY <1>2, <1>7, <2>2
    <3>2. Cardinality(UploadsOf(w, key)) # 1
      BY <1>1, <3>1, SecondUpload
    <3> QED BY <1>4, <2>2, <3>2 DEF Aged
  <2> QED BY <2>1, <2>2
<1>8. /\ \A k : k # key => Newer(uploaded', k) = Newer(uploaded, k) + 1
      /\ \A k : Newer(uploaded, k) \in Nat /\ Newer(uploaded', k) \in Nat
  BY <1>4, <1>5 DEF Newer
<1> QED BY <1>2, <1>3, <1>7, <1>8

-----------------------------------------------------------------------------
(* The steps of the artwork as the invariant sees them.                    *)

\* The bucket is left alone and the process neither lists nor removes nor uploads.
Rests(r) == SameBucket /\ r.pc \notin {"upload", "delete"} /\ (r.pc = "kept" => r.key \in Known)

Lists(r) ==
  /\ SameBucket
  /\ r.listed = SubSeq(bucket, 1, Excess(bucket))
  /\ r.pc = IF Excess(bucket) = 0 THEN "upload" ELSE "delete"

Removes(p, r) ==
  /\ art[p].pc = "delete"
  /\ bucket' = Without(bucket, Doomed(p))
  /\ UNCHANGED uploaded
  /\ r.pc \in {"upload", "fallback"}

Adds(p, r) ==
  /\ art[p].pc = "upload"
  /\ Put(art[p].key)
  /\ r.key = art[p].key
  /\ r.pc \in {"kept", "fallback"}

Moved(p, r) ==
  /\ r \in ArtRows
  /\ r.pc # "off" => r.key \in Keys
  /\ art' = [art EXCEPT ![p] = r]
  /\ Rests(r) \/ Lists(r) \/ Removes(p, r) \/ Adds(p, r)

LEMMA GotoRow ==
  ASSUME ArtTyped, NEW p \in Procs, NEW step \in ArtSteps, art[p].pc # "off", ArtGoto(p, step)
  PROVE  \E r \in ArtRows : /\ r.pc = step /\ r.key = art[p].key /\ r.key \in Keys
                            /\ art' = [art EXCEPT ![p] = r]
<1> DEFINE r == [art[p] EXCEPT !.pc = step]
<1>1. art[p] \in ArtRows /\ art[p].key \in Keys
  BY DEF ArtTyped
<1>2. r \in ArtRows /\ r.pc = step /\ r.key = art[p].key
  BY <1>1 DEF ArtRows
<1>3. art' = [art EXCEPT ![p] = r]
  BY DEF ArtGoto
<1> QED BY <1>1, <1>2, <1>3

LEMMA GotoRests ==
  ASSUME ArtTyped, NEW p \in Procs, NEW step \in ArtSteps \ {"upload", "delete"},
         art[p].pc # "off", ArtGoto(p, step), SameBucket, step = "kept" => art[p].key \in Known
  PROVE  \E r : Moved(p, r)
<1>1. PICK r \in ArtRows : /\ r.pc = step /\ r.key = art[p].key /\ r.key \in Keys
                           /\ art' = [art EXCEPT ![p] = r]
  BY GotoRow
<1>2. Rests(r)
  BY <1>1 DEF Rests
<1> QED BY <1>1, <1>2 DEF Moved

LEMMA GivesUp ==
  ASSUME ArtTyped, NEW p \in Procs, art[p].pc # "off", FallsBack(p) \/ TokenRefused(p)
  PROVE  \E r : Moved(p, r)
BY GotoRests DEF FallsBack, TokenRefused, ArtSteps, Outcomes

LEMMA ArtMoves ==
  ASSUME ArtTyped, Ages, NEW p \in Procs,
         ArtStep(p) \/ ArtOver(p) \/ \E key \in Keys : StartArtwork(p, key)
  PROVE  \E r : Moved(p, r)
<1>0. art[p] \in ArtRows /\ (art[p].pc # "off" => art[p].key \in Keys)
  BY DEF ArtTyped
<1>1. CASE Load(p) \/ Reload(p)
  <2>1. art[p].pc # "off"
    BY <1>1 DEF Load, Reload, ArtAt
  <2>2. PICK absent \in {"draw", "fallback"} : LoadExisting(p, absent)
    BY <1>1 DEF Load, Reload
  <2>3. CASE art[p].key \in Stored /\ ArtGoto(p, "kept") /\ SameBucket
    <3>1. art[p].key \in Known /\ "kept" \in ArtSteps \ {"upload", "delete"}
      BY <2>3 DEF Ages, ArtSteps, Outcomes
    <3> QED BY <2>1, <2>3, <3>1, GotoRests
  <2>4. CASE ArtGoto(p, absent) /\ SameBucket
    <3>1. absent \in ArtSteps \ {"upload", "delete"} /\ absent # "kept"
      BY DEF ArtSteps, Outcomes
    <3> QED BY <2>1, <2>4, <3>1, GotoRests
  <2> QED BY <2>1, <2>2, <2>3, <2>4, GivesUp DEF LoadExisting
<1>2. CASE Draw(p)
  <2>1. art[p].pc = "draw" /\ SameBucket
    BY <1>2 DEF Draw, ArtAt
  <2>2. CASE ArtGoto(p, "list") \/ ArtGoto(p, "fallback")
    <3>1. {"list", "fallback"} \subseteq ArtSteps \ {"upload", "delete"}
      BY DEF ArtSteps, Outcomes
    <3> QED BY <2>1, <2>2, <3>1, GotoRests
  <2>3. CASE art[p].tries < MaxRetries /\ art' = [art EXCEPT ![p].tries = @ + 1]
    <3> DEFINE r == [art[p] EXCEPT !.tries = art[p].tries + 1]
    <3>1. art[p].tries + 1 \in 0..MaxRetries
      <4>1. art[p].tries \in 0..MaxRetries
        BY <1>0 DEF ArtRows
      <4> QED BY <2>3, <4>1, ArtworkAssumption
    <3>2. r \in ArtRows /\ r.pc = "draw" /\ r.key = art[p].key
      BY <1>0, <2>1, <3>1 DEF ArtRows
    <3>3. art' = [art EXCEPT ![p] = r]
      BY <2>3
    <3> HIDE DEF r
    <3>4. Rests(r)
      BY <2>1, <3>2 DEF Rests
    <3> QED BY <1>0, <2>1, <3>2, <3>3, <3>4 DEF Moved
  <2> QED BY <1>2, <2>2, <2>3 DEF Draw
<1>3. CASE ListStored(p)
  <2>1. art[p].pc = "list"
    BY <1>3 DEF ListStored, ArtAt
  <2> DEFINE listed == SubSeq(bucket, 1, Excess(bucket))
             step == IF Excess(bucket) = 0 THEN "upload" ELSE "delete"
             r == [art[p] EXCEPT !.listed = listed, !.pc = step]
  <2>2. CASE art' = [art EXCEPT ![p].listed = listed, ![p].pc = step] /\ SameBucket
    <3>1. listed \in Seq(Keys)
      <4>1. bucket \in Seq(Keys) /\ MaxStored \in Nat
        BY ArtworkAssumption DEF ArtTyped
      <4>2. Excess(bucket) \in Nat /\ Excess(bucket) <= Len(bucket)
        BY <4>1, ArtworkAssumption DEF Excess
      <4> QED BY <4>1, <4>2
    <3>2. step \in ArtSteps
      BY DEF ArtSteps
    <3>3. art' = [art EXCEPT ![p] = r]
      BY <2>2 DEF ArtTyped
    <3> HIDE DEF listed, step
    <3>4. r \in ArtRows /\ r.pc = step /\ r.key = art[p].key /\ r.listed = listed
      BY <1>0, <3>1, <3>2 DEF ArtRows
    <3> HIDE DEF r
    <3>5. Lists(r)
      BY <2>2, <3>4 DEF Lists, listed, step
    <3> QED BY <1>0, <2>1, <3>3, <3>4, <3>5 DEF Moved
  <2> QED BY <1>3, <2>1, <2>2, GivesUp DEF ListStored
<1>4. CASE DeleteExcess(p)
  <2>1. art[p].pc = "delete"
    BY <1>4 DEF DeleteExcess, ArtAt
  <2>2. CASE /\ bucket' = Without(bucket, Doomed(p))
             /\ ArtGoto(p, "upload") \/ ArtGoto(p, "fallback")
             /\ UNCHANGED uploaded
    <3>1. PICK step \in {"upload", "fallback"} : ArtGoto(p, step)
      BY <2>2
    <3>2. step \in ArtSteps
      BY DEF ArtSteps, Outcomes
    <3>3. PICK r \in ArtRows : /\ r.pc = step /\ r.key = art[p].key /\ r.key \in Keys
                               /\ art' = [art EXCEPT ![p] = r]
      BY <2>1, <3>1, <3>2, GotoRow
    <3>4. Removes(p, r)
      BY <2>1, <2>2, <3>3 DEF Removes
    <3> QED BY <3>3, <3>4 DEF Moved
  <2> QED BY <1>4, <2>1, <2>2, GivesUp DEF DeleteExcess
<1>5. CASE Upload(p)
  <2>1. art[p].pc = "upload"
    BY <1>5 DEF Upload, ArtAt
  <2>2. CASE Put(art[p].key) /\ (ArtGoto(p, "kept") \/ ArtGoto(p, "fallback"))
    <3>1. PICK step \in {"kept", "fallback"} : ArtGoto(p, step)
      BY <2>2
    <3>2. step \in ArtSteps
      BY DEF ArtSteps, Outcomes
    <3>3. PICK r \in ArtRows : /\ r.pc = step /\ r.key = art[p].key /\ r.key \in Keys
                               /\ art' = [art EXCEPT ![p] = r]
      BY <2>1, <3>1, <3>2, GotoRow
    <3>4. Adds(p, r)
      BY <2>1, <2>2, <3>3 DEF Adds
    <3> QED BY <3>3, <3>4 DEF Moved
  <2>3. CASE SameBucket /\ (ArtGoto(p, "reload") \/ ArtGoto(p, "fallback"))
    <3>1. {"reload", "fallback"} \subseteq ArtSteps \ {"upload", "delete"}
      BY DEF ArtSteps, Outcomes
    <3> QED BY <2>1, <2>3, <3>1, GotoRests
  <2> QED BY <1>5, <2>1, <2>2, <2>3, GivesUp DEF Upload, AfterFailedUpload
<1>6. CASE ArtOver(p)
  <2>1. NoArt \in ArtRows /\ NoArt.pc = "off"
    BY ArtworkAssumption DEF NoArt, ArtRows, ArtSteps
  <2>2. Rests(NoArt)
    BY <1>6, <2>1 DEF Rests, ArtOver
  <2> QED BY <1>6, <2>1, <2>2 DEF Moved, ArtOver
<1>7. ASSUME NEW key \in Keys, StartArtwork(p, key)
      PROVE  \E r : Moved(p, r)
  <2> DEFINE r == [NoArt EXCEPT !.pc = "load", !.key = key]
  <2>1. r \in ArtRows /\ r.pc = "load" /\ r.key = key
    <3>1. NoArt \in ArtRows
      BY ArtworkAssumption DEF NoArt, ArtRows, ArtSteps
    <3> QED BY <3>1 DEF ArtRows, ArtSteps
  <2>2. art' = [art EXCEPT ![p] = r] /\ SameBucket
    BY <1>7 DEF StartArtwork
  <2> HIDE DEF r
  <2>3. Rests(r)
    BY <2>1, <2>2 DEF Rests
  <2> QED BY <2>1, <2>2, <2>3 DEF Moved
<1> QED
  BY <1>1, <1>2, <1>3, <1>4, <1>5, <1>6, <1>7 DEF ArtStep

-----------------------------------------------------------------------------
(* Every step keeps the invariant.                                         *)

\* What a move leaves of the other processes.
LEMMA OthersStay ==
  ASSUME ArtTyped, NEW p \in Procs, NEW r, Moved(p, r)
  PROVE  /\ art' \in [Procs -> ArtRows]
         /\ art'[p] = r
         /\ \A q \in Procs \ {p} : art'[q] = art[q] /\ Doomed(q)' = Doomed(q)
         /\ Doomed(p)' = Members(r.listed)
         /\ \A q \in Procs \ {p} : q \in Deleting' <=> q \in Deleting
         /\ \A q \in Procs \ {p} : q \in Uploading' <=> q \in Uploading
         /\ p \in Deleting' <=> r.pc = "delete"
         /\ p \in Uploading' <=> r.pc = "upload"
         /\ Deleting \subseteq Procs /\ Uploading \subseteq Procs
         /\ Deleting' \subseteq Procs /\ Uploading' \subseteq Procs
<1>1. /\ art' \in [Procs -> ArtRows] /\ art'[p] = r
      /\ \A q \in Procs \ {p} : art'[q] = art[q]
  BY DEF ArtTyped, Moved
<1>2. \A q \in Procs \ {p} : Doomed(q)' = Doomed(q)
  BY <1>1 DEF Doomed
<1>3. Doomed(p)' = Members(r.listed)
  BY <1>1 DEF Doomed, Members
<1> QED BY <1>1, <1>2, <1>3 DEF Deleting, Uploading

\* What a removal leaves.
LEMMA Removed ==
  ASSUME ArtTyped, NEW p \in Procs, NEW r, Removes(p, r)
  PROVE  /\ bucket' \in Seq(Keys)
         /\ OneEach(bucket')
         /\ Stored' = Stored \ Doomed(p)
         /\ \A i \in DOMAIN bucket' : \E k \in DOMAIN bucket :
              bucket'[i] = bucket[k] /\ Len(bucket') - i <= Len(bucket) - k
<1> PICK s, w, S : s = bucket /\ w = bucket' /\ S = Doomed(p)
  OBVIOUS
<1>1. s \in Seq(Keys) /\ OneEach(s) /\ w = Without(s, S)
  BY DEF ArtTyped, Removes
<1>2. w \in Seq(Keys) /\ LeftOf(w, s, Len(s), S)
  BY <1>1, WithoutLeaves
<1>3. DOMAIN s = 1..Len(s)
  BY <1>1
<1>4. Stored' = Members(w) /\ Stored = Members(s)
  BY DEF Stored, Members
<1>5. Members(w) = Members(s) \ S /\ OneEach(w)
  BY <1>2, <1>3 DEF LeftOf, Members
<1>6. \A i \in DOMAIN w : \E k \in DOMAIN s : w[i] = s[k] /\ Len(w) - i <= Len(s) - k
  BY <1>2, <1>3 DEF LeftOf
<1> QED BY <1>2, <1>4, <1>5, <1>6

\* What an upload adds.
LEMMA Added ==
  ASSUME ArtTyped, NEW p \in Procs, NEW r, Adds(p, r)
  PROVE  /\ art[p].key \in Keys
         /\ bucket' \in Seq(Keys) /\ uploaded' \in Seq(Keys)
         /\ OneEach(bucket')
         /\ Stored' = Stored \cup {art[p].key}
         /\ uploaded' = Append(uploaded, art[p].key)
         /\ Len(bucket') = Len(bucket) + 1 /\ Len(bucket) \in Nat
         /\ DOMAIN bucket' = DOMAIN bucket \cup {Len(bucket) + 1}
         /\ bucket'[Len(bucket) + 1] = art[p].key
         /\ \A i \in DOMAIN bucket : bucket'[i] = bucket[i] /\ bucket[i] # art[p].key
<1> PICK s, w, key : s = bucket /\ w = bucket' /\ key = art[p].key
  OBVIOUS
<1>1. /\ s \in Seq(Keys) /\ OneEach(s) /\ key \in Keys /\ w = Append(s, key)
      /\ uploaded \in Seq(Keys) /\ uploaded' = Append(uploaded, key)
      /\ \A i \in DOMAIN s : s[i] # key
  BY DEF ArtTyped, Adds, Put, Stored
<1>2. /\ w \in Seq(Keys) /\ Len(w) = Len(s) + 1 /\ Len(s) \in Nat
      /\ DOMAIN w = DOMAIN s \cup {Len(s) + 1} /\ Len(s) + 1 \notin DOMAIN s
      /\ w[Len(s) + 1] = key
      /\ \A i \in DOMAIN s : w[i] = s[i]
      /\ uploaded' \in Seq(Keys)
  BY <1>1
<1>3. OneEach(w)
  BY <1>1, <1>2 DEF OneEach
<1>4. Stored' = Members(w) /\ Stored = Members(s)
  BY DEF Stored, Members
<1>5. Members(w) = Members(s) \cup {key}
  BY <1>2 DEF Members
<1> QED BY <1>1, <1>2, <1>3, <1>4, <1>5

LEMMA MovedTyped ==
  ASSUME ArtTyped, NEW p \in Procs, NEW r, Moved(p, r)
  PROVE  ArtTyped'
<1>1. bucket' \in Seq(Keys) /\ OneEach(bucket') /\ uploaded' \in Seq(Keys)
  <2>1. CASE SameBucket
    BY <2>1 DEF ArtTyped, SameBucket
  <2>2. CASE Removes(p, r)
    BY <2>2, Removed DEF ArtTyped, Removes
  <2>3. CASE Adds(p, r)
    BY <2>3, Added
  <2> QED BY <2>1, <2>2, <2>3 DEF Moved, Rests, Lists
<1>2. /\ art' \in [Procs -> ArtRows]
      /\ \A q \in Procs : art'[q].pc # "off" => art'[q].key \in Keys
  BY OthersStay DEF ArtTyped, Moved
<1> QED BY <1>1, <1>2 DEF ArtTyped

\* The images that are left when those listed for removal are gone.
LEMMA ListedLeaves ==
  ASSUME ArtTyped, NEW r, Lists(r)
  PROVE  /\ Excess(bucket) = 0 => Cardinality(Stored) <= MaxStored - 1
         /\ Excess(bucket) # 0 =>
              /\ Cardinality(Stored \ Members(r.listed)) = MaxStored - 1
              /\ \A k \in Members(r.listed) : \E i \in DOMAIN bucket :
                   k = bucket[i] /\ Len(bucket) - i >= MaxStored - 1
<1>1. /\ bucket \in Seq(Keys) /\ OneEach(bucket) /\ Len(bucket) \in Nat
      /\ DOMAIN bucket = 1..Len(bucket)
      /\ MaxStored \in Nat /\ MaxStored > 0
  BY ArtworkAssumption DEF ArtTyped
<1>2. Stored = Members(bucket) /\ IsFiniteSet(Stored) /\ Cardinality(Stored) = Len(bucket)
  BY StoredIsIn
<1>3. CASE Len(bucket) < MaxStored
  BY <1>1, <1>2, <1>3 DEF Excess
<1>4. CASE Len(bucket) >= MaxStored
  <2> PICK e, l : e = Excess(bucket) /\ l = r.listed
    OBVIOUS
  <2>1. /\ e = Len(bucket) - MaxStored + 1 /\ e \in Nat /\ e # 0 /\ e <= Len(bucket)
        /\ l = SubSeq(bucket, 1, e)
    BY <1>1, <1>4 DEF Excess, Lists
  <2>2. /\ l \in Seq(Keys) /\ Len(l) = e /\ DOMAIN l = 1..e
        /\ \A i \in 1..e : l[i] = bucket[i] /\ i \in DOMAIN bucket
    BY <1>1, <2>1
  <2>3. OneEach(l)
    BY <1>1, <2>2 DEF OneEach
  <2>4. Cardinality(Members(l)) = e
    BY <2>2, <2>3, LengthIsCount
  <2>5. Stored \cap Members(l) = Members(l)
    BY <1>2, <2>2 DEF Members
  <2>6. Cardinality(Stored \ Members(l)) = Cardinality(Stored) - Cardinality(Stored \cap Members(l))
    BY <1>2, FS_Difference
  <2>7. Cardinality(Stored \ Members(l)) = MaxStored - 1
    <3>1. Cardinality(Stored \cap Members(l)) = e
      BY <2>4, <2>5
    <3>2. PICK a, b, c : /\ a = Cardinality(Stored) /\ b = Cardinality(Stored \cap Members(l))
                         /\ c = Cardinality(Stored \ Members(l))
      OBVIOUS
    <3>3. c = a - b /\ a = Len(bucket) /\ b = e
      BY <1>2, <2>6, <3>1, <3>2
    <3> QED BY <1>1, <2>1, <3>2, <3>3
  <2>8. \A k \in Members(l) : \E i \in DOMAIN bucket : k = bucket[i] /\ Len(bucket) - i >= MaxStored - 1
    <3>1. \A i \in 1..e : Len(bucket) - i >= MaxStored - 1
      BY <1>1, <2>1
    <3> QED BY <2>2, <3>1 DEF Members
  <2> QED BY <2>1, <2>7, <2>8
<1> QED BY <1>1, <1>3, <1>4

\* Two disjoint sets of processes are at most all of them.
LEMMA Disjoint ==
  ASSUME NEW S \in SUBSET Procs, NEW T \in SUBSET Procs, S \cap T = {}
  PROVE  Cardinality(S) + Cardinality(T) <= Cardinality(Procs)
<1>1. IsFiniteSet(S) /\ IsFiniteSet(T) /\ Cardinality(S) \in Nat /\ Cardinality(T) \in Nat
  BY FewProcs
<1>2. Cardinality(S \cup T) = Cardinality(S) + Cardinality(T) - Cardinality(S \cap T)
  BY <1>1, FS_Union
<1>3. Cardinality(S \cap T) = 0
  BY FS_EmptySet
<1>4. Cardinality(S \cup T) <= Cardinality(Procs)
  BY FewProcs
<1> QED BY <1>1, <1>2, <1>3, <1>4

\* A set of processes, before and after one of them has moved.
LEMMA OneProc ==
  ASSUME NEW S \in SUBSET Procs, NEW T \in SUBSET Procs, NEW p \in Procs,
         \A q \in Procs \ {p} : q \in S <=> q \in T
  PROVE  /\ Cardinality(S) \in Nat /\ Cardinality(T) \in Nat
         /\ p \in S /\ p \notin T => Cardinality(S) = Cardinality(T) + 1
         /\ p \notin S /\ p \in T => Cardinality(T) = Cardinality(S) + 1
         /\ (p \in S <=> p \in T) => Cardinality(S) = Cardinality(T)
<1>1. IsFiniteSet(S) /\ IsFiniteSet(T) /\ Cardinality(S) \in Nat /\ Cardinality(T) \in Nat
  BY FewProcs
<1>2. CASE p \in S /\ p \notin T
  <2>1. S = T \cup {p}
    BY <1>2
  <2> QED BY <1>1, <1>2, <2>1, FS_AddElement
<1>3. CASE p \notin S /\ p \in T
  <2>1. T = S \cup {p}
    BY <1>3
  <2> QED BY <1>1, <1>3, <2>1, FS_AddElement
<1>4. CASE p \in S <=> p \in T
  <2>1. S = T
    BY <1>4
  <2> QED BY <1>1, <1>4, <2>1
<1> QED BY <1>1, <1>2, <1>3, <1>4

\* A set of images and a part of it.
LEMMA Fewer ==
  ASSUME NEW S, IsFiniteSet(S), NEW T, T \subseteq S
  PROVE  /\ IsFiniteSet(T) /\ Cardinality(S) \in Nat /\ Cardinality(T) \in Nat
         /\ Cardinality(T) <= Cardinality(S)
BY FS_Subset, FS_CardinalityType

\* Room in numbers: stored, uploading and removing processes.
LEMMA RoomFor ==
  ASSUME ArtTyped, Room, NEW T \in SUBSET Deleting
  PROVE  /\ Cardinality(Stored \ DoomedBy(T)) \in Nat
         /\ Cardinality(Uploading) \in Nat
         /\ Cardinality(T) \in Nat
         /\ Cardinality(Stored \ DoomedBy(T)) + Cardinality(Uploading) + Cardinality(T)
              <= MaxStored - 1 + Cardinality(Procs)
<1>1. T \in SUBSET Procs /\ Uploading \in SUBSET Procs
  BY DEF Deleting, Uploading
<1>2. IsFiniteSet(Stored)
  BY StoredIsIn
<1>3. Cardinality(Stored \ DoomedBy(T)) \in Nat
  BY <1>2, Fewer
<1> QED BY <1>1, <1>3, FewProcs DEF Room

LEMMA MovedRoom ==
  ASSUME ArtTyped, Room, NEW p \in Procs, NEW r, Moved(p, r)
  PROVE  Room'
<1> SUFFICES ASSUME NEW T \in SUBSET Deleting'
             PROVE  Cardinality(Stored' \ DoomedBy(T)') + Cardinality(Uploading') + Cardinality(T)
                      <= MaxStored - 1 + Cardinality(Procs)
  BY DEF Room
<1> DEFINE T0 == T \ {p}
<1> PICK now, left, up, before : now = Stored' \ DoomedBy(T)' /\ left = Stored \ DoomedBy(T0)
                                 /\ up = Uploading' /\ before = Uploading
  OBVIOUS
<1>1. /\ \A q \in T0 : q \in Procs /\ q # p /\ Doomed(q)' = Doomed(q) /\ q \in Deleting
      /\ T0 \in SUBSET Deleting /\ T \in SUBSET Procs
      /\ up \in SUBSET Procs /\ before \in SUBSET Procs
      /\ \A q \in Procs \ {p} : q \in up <=> q \in before
      /\ p \in up <=> r.pc = "upload"
      /\ p \in T => r.pc = "delete"
  BY OthersStay
<1>2. DoomedBy(T)' = UNION {Doomed(q)' : q \in T}
  BY DEF DoomedBy
<1>3. DoomedBy(T0) \subseteq DoomedBy(T)'
  BY <1>1, <1>2 DEF DoomedBy
<1>4. /\ IsFiniteSet(Stored) /\ IsFiniteSet(Stored') /\ IsFiniteSet(left) /\ IsFiniteSet(now)
      /\ Cardinality(now) \in Nat /\ Cardinality(left) \in Nat
  <2>1. IsFiniteSet(Stored) /\ IsFiniteSet(Stored')
    <3>1. ArtTyped'
      BY MovedTyped
    <3> PICK w : w = bucket'
      OBVIOUS
    <3>2. w \in Seq(Keys) /\ OneEach(w) /\ Stored' = Members(w)
      BY <3>1 DEF ArtTyped, Stored, Members, OneEach
    <3>3. IsFiniteSet(Stored')
      BY <3>2, LengthIsCount
    <3> QED BY <3>3, StoredIsIn
  <2>2. now \subseteq Stored' /\ left \subseteq Stored
    OBVIOUS
  <2> QED BY <2>1, <2>2, Fewer
<1>5. /\ Cardinality(left) + Cardinality(before) + Cardinality(T0) <= MaxStored - 1 + Cardinality(Procs)
      /\ Cardinality(T0) \in Nat
  BY <1>1, RoomFor
<1>6. /\ Cardinality(up) \in Nat /\ Cardinality(before) \in Nat /\ Cardinality(T) \in Nat
      /\ Cardinality(Procs) \in Nat /\ MaxStored \in Nat
  BY <1>1, FewProcs, ArtworkAssumption
<1> HIDE DEF T0
<1>7. /\ p \notin T => T0 = T
      /\ p \in before /\ p \notin up => Cardinality(before) = Cardinality(up) + 1
      /\ p \notin before /\ p \in up => Cardinality(up) = Cardinality(before) + 1
      /\ (p \in before <=> p \in up) => Cardinality(up) = Cardinality(before)
  BY <1>1, OneProc DEF T0
<1>a. CASE Rests(r)
  <2>1. p \notin T /\ p \notin up /\ Stored' = Stored
    BY <1>1, <1>a DEF Rests, SameBucket, Stored
  <2>2. now \subseteq left
    BY <1>3, <2>1
  <2>3. Cardinality(now) <= Cardinality(left)
    BY <1>4, <2>2, Fewer
  <2> QED BY <1>4, <1>5, <1>6, <1>7, <2>1, <2>3
<1>b. CASE Lists(r)
  <2>1. Stored' = Stored
    BY <1>b DEF Lists, SameBucket, Stored
  <2>2. p \in up => p \notin T
    BY <1>1
  <2>3. up \cap T = {}
    BY <1>1, <2>2 DEF Deleting, Uploading
  <2>4. CASE p \in up \/ p \in T
    <3>1. Cardinality(now) <= MaxStored - 1
      <4>1. CASE p \in up
        <5>1. Excess(bucket) = 0
          BY <1>1, <1>b, <4>1 DEF Lists
        <5>2. Cardinality(Stored) <= MaxStored - 1 /\ now \subseteq Stored
          BY <1>b, <2>1, <5>1, ListedLeaves
        <5> QED BY <1>4, <1>6, <5>2, Fewer
      <4>2. CASE p \in T
        <5>1. Excess(bucket) # 0
          BY <1>1, <1>b, <4>2 DEF Lists
        <5>2. Cardinality(Stored \ Members(r.listed)) = MaxStored - 1
          BY <1>b, <5>1, ListedLeaves
        <5>3. now \subseteq Stored \ Members(r.listed)
          <6>1. Doomed(p)' = Members(r.listed)
            BY OthersStay
          <6> QED BY <1>2, <2>1, <4>2, <6>1
        <5>4. IsFiniteSet(Stored \ Members(r.listed))
          BY <1>4, Fewer
        <5> QED BY <5>2, <5>3, <5>4, Fewer
      <4> QED BY <2>4, <4>1, <4>2
    <3>2. Cardinality(up) + Cardinality(T) <= Cardinality(Procs)
      BY <1>1, <2>3, Disjoint
    <3> QED BY <1>4, <1>6, <3>1, <3>2
  <2>5. CASE p \notin up /\ p \notin T
    <3>1. now \subseteq left
      BY <1>3, <2>1
    <3>2. Cardinality(now) <= Cardinality(left)
      BY <1>4, <3>1, Fewer
    <3> QED BY <1>4, <1>5, <1>6, <1>7, <2>5, <3>2
  <2> QED BY <2>4, <2>5
<1>c. CASE Removes(p, r)
  <2>1. p \notin T /\ p \notin before /\ p \in Deleting
    BY <1>1, <1>c DEF Removes, Deleting, Uploading
  <2> DEFINE T1 == T \cup {p}
             kept == Stored \ DoomedBy(T1)
  <2>2. T1 \in SUBSET Deleting
    BY <1>1, <1>7, <2>1
  <2>3. Cardinality(T1) = Cardinality(T) + 1
    <3>1. IsFiniteSet(T)
      BY <1>1, FewProcs
    <3> QED BY <2>1, <3>1, FS_AddElement
  <2>4. Cardinality(kept) + Cardinality(before) + Cardinality(T1) <= MaxStored - 1 + Cardinality(Procs)
    BY <2>2, RoomFor
  <2>5. now \subseteq kept
    <3>1. Stored' = Stored \ Doomed(p)
      BY <1>c, Removed
    <3>2. DoomedBy(T1) = DoomedBy(T0) \cup Doomed(p)
      BY <1>7, <2>1 DEF DoomedBy
    <3> QED BY <1>3, <3>1, <3>2
  <2>6. Cardinality(now) <= Cardinality(kept) /\ Cardinality(kept) \in Nat
    <3>1. IsFiniteSet(kept)
      BY <1>4, Fewer
    <3> HIDE DEF kept
    <3> QED BY <2>5, <3>1, Fewer
  <2>7. Cardinality(up) <= Cardinality(before) + 1
    BY <1>6, <1>7
  <2> HIDE DEF T1, kept
  <2> QED BY <1>4, <1>6, <2>3, <2>4, <2>6, <2>7
<1>d. CASE Adds(p, r)
  <2>1. p \in before /\ p \notin up /\ p \notin T
    BY <1>1, <1>d DEF Adds, Uploading
  <2>2. now \subseteq left \cup {art[p].key}
    <3>1. Stored' = Stored \cup {art[p].key}
      BY <1>d, Added
    <3> QED BY <1>3, <3>1
  <2>3. Cardinality(now) <= Cardinality(left) + 1
    <3> PICK more : more = left \cup {art[p].key}
      OBVIOUS
    <3>1. IsFiniteSet(more) /\ Cardinality(more) <= Cardinality(left) + 1
      <4>1. /\ IsFiniteSet(more)
            /\ Cardinality(more) = IF art[p].key \in left THEN Cardinality(left)
                                   ELSE Cardinality(left) + 1
        BY <1>4, FS_AddElement
      <4> QED BY <1>4, <4>1
    <3>2. Cardinality(now) <= Cardinality(more) /\ Cardinality(more) \in Nat
      BY <2>2, <3>1, Fewer
    <3> QED BY <1>4, <3>1, <3>2
  <2> QED BY <1>4, <1>5, <1>6, <1>7, <2>1, <2>3
<1> QED
  BY <1>a, <1>b, <1>c, <1>d DEF Moved

LEMMA MovedAges ==
  ASSUME AInv, NEW p \in Procs, NEW r, Moved(p, r)
  PROVE  Ages'
<1> USE DEF AInv
<1>1. /\ \A q \in Procs \ {p} : art'[q] = art[q] /\ Doomed(q)' = Doomed(q)
      /\ art'[p] = r /\ Doomed(p)' = Members(r.listed)
      /\ \A q \in Procs \ {p} : q \in Deleting' <=> q \in Deleting
      /\ p \in Deleting' <=> r.pc = "delete"
      /\ Deleting' \subseteq Procs
  BY OthersStay
<1>2. \A q \in Deleting' \ {p} : \A k \in Doomed(q)' : k \in Known /\ Aged(k)
  BY <1>1 DEF Ages
<1>3. ASSUME UNCHANGED uploaded
      PROVE  /\ Known' = Known
             /\ \A k : Aged(k)' <=> Aged(k)
  BY <1>3 DEF Known, Aged, Once, UploadsSince
<1>a. CASE Rests(r) \/ Lists(r)
  <2>1. bucket' = bucket /\ UNCHANGED uploaded /\ Stored' = Stored
    BY <1>a DEF Rests, Lists, SameBucket, Stored
  <2>2. r.pc = "kept" => r.key \in Known
    BY <1>a DEF Rests, Lists
  <2>3. ASSUME p \in Deleting', NEW k \in Doomed(p)'
        PROVE  k \in Known /\ Aged(k)
    <3>1. Lists(r) /\ Excess(bucket) # 0
      BY <1>1, <1>a, <2>3 DEF Rests, Lists
    <3>2. PICK i \in DOMAIN bucket : k = bucket[i] /\ Len(bucket) - i >= MaxStored - 1
      <4>1. k \in Members(r.listed)
        BY <1>1, <2>3
      <4>2. \A x \in Members(r.listed) : \E i \in DOMAIN bucket :
              x = bucket[i] /\ Len(bucket) - i >= MaxStored - 1
        BY <3>1, ListedLeaves
      <4> QED BY <4>1, <4>2
    <3>3. k \in Known /\ UploadsSince(k) >= Len(bucket) - i
      BY <3>2, SinceIsNewer DEF Ages, Stored
    <3>4. UploadsSince(k) \in Nat /\ Len(bucket) - i \in Int /\ MaxStored - 1 \in Int
      <4>1. /\ Len(bucket) \in Nat /\ DOMAIN bucket = 1..Len(bucket) /\ uploaded \in Seq(Keys)
        BY DEF ArtTyped
      <4>2. UploadsSince(k) \in Nat
        <5>1. Since(uploaded, k) \in SUBSET DOMAIN uploaded
          BY DEF Since
        <5> QED BY <4>1, <5>1, IndexSets, SinceIsNewer DEF Newer
      <4> QED BY <4>1, <4>2, ArtworkAssumption
    <3>5. UploadsSince(k) >= MaxStored - 1
      BY <3>2, <3>3, <3>4
    <3> QED BY <3>3, <3>5 DEF Aged
  <2>4. \A q \in Procs : art'[q].pc = "kept" => art'[q].key \in Known
    BY <1>1, <2>2 DEF Ages
  <2>5. \A q \in Deleting' : \A k \in Doomed(q)' : k \in Known /\ Aged(k)
    BY <1>2, <2>3
  <2> QED BY <1>3, <2>1, <2>4, <2>5 DEF Ages
<1>b. CASE Removes(p, r)
  <2>1. UNCHANGED uploaded /\ p \in Deleting /\ r.pc # "delete" /\ r.pc # "kept"
    BY <1>b DEF Removes, Deleting
  <2>2. /\ Stored' = Stored \ Doomed(p)
        /\ \A i \in DOMAIN bucket' : \E k \in DOMAIN bucket :
              bucket'[i] = bucket[k] /\ Len(bucket') - i <= Len(bucket) - k
        /\ bucket' \in Seq(Keys)
    BY <1>b, Removed
  <2>3. ASSUME NEW i \in DOMAIN bucket'
        PROVE  Newer(uploaded, bucket'[i]) >= Len(bucket') - i
    <3>1. PICK k \in DOMAIN bucket : bucket'[i] = bucket[k] /\ Len(bucket') - i <= Len(bucket) - k
      BY <2>2
    <3>2. Newer(uploaded, bucket[k]) >= Len(bucket) - k
      BY DEF Ages
    <3>3. /\ Len(bucket) - k \in Int /\ Len(bucket') - i \in Int
          /\ Newer(uploaded, bucket[k]) \in Nat
      <4>1. /\ bucket \in Seq(Keys) /\ uploaded \in Seq(Keys)
        BY DEF ArtTyped
      <4>2. /\ Len(bucket) \in Nat /\ DOMAIN bucket = 1..Len(bucket)
            /\ Len(bucket') \in Nat /\ DOMAIN bucket' = 1..Len(bucket')
        BY <2>2, <4>1
      <4>3. \A x : Newer(uploaded, x) \in Nat
        <5> TAKE x
        <5>1. Since(uploaded, x) \in SUBSET DOMAIN uploaded
          BY DEF Since
        <5> QED BY <4>1, <5>1, IndexSets DEF Newer
      <4> QED BY <4>2, <4>3
    <3> QED BY <3>1, <3>2, <3>3
  <2>4. \A k \in Known : k \in Stored' \/ Aged(k)
    BY <2>1, <2>2 DEF Ages
  <2>5. \A q \in Procs : art'[q].pc = "kept" => art'[q].key \in Known
    BY <1>1, <2>1 DEF Ages
  <2>6. \A q \in Deleting' : \A k \in Doomed(q)' : k \in Known /\ Aged(k)
    BY <1>1, <1>2, <2>1
  <2>7. Stored' \subseteq Known
    BY <2>2 DEF Ages
  <2> QED BY <1>3, <2>1, <2>4, <2>5, <2>3, <2>6, <2>7 DEF Ages
<1>c. CASE Adds(p, r)
  <2> PICK key : key = art[p].key
    OBVIOUS
  <2>1. /\ key \in Keys /\ Stored' = Stored \cup {key} /\ uploaded' = Append(uploaded, key)
        /\ Len(bucket') = Len(bucket) + 1 /\ Len(bucket) \in Nat
        /\ DOMAIN bucket' = DOMAIN bucket \cup {Len(bucket) + 1}
        /\ bucket'[Len(bucket) + 1] = key
        /\ \A i \in DOMAIN bucket : bucket'[i] = bucket[i] /\ bucket[i] # key
        /\ r.key = key /\ r.pc # "delete"
    BY <1>c, Added DEF Adds
  <2>2. /\ Known' = Known \cup {key}
        /\ \A k \in Known : Aged(k) => Aged(k)'
        /\ \A k : k # key => Newer(uploaded', k) = Newer(uploaded, k) + 1
        /\ \A k : Newer(uploaded, k) \in Nat /\ Newer(uploaded', k) \in Nat
    BY <2>1, PutAges
  <2>3. ASSUME NEW i \in DOMAIN bucket'
        PROVE  Newer(uploaded', bucket'[i]) >= Len(bucket') - i
    <3>1. CASE i = Len(bucket) + 1
      <4>1. Newer(uploaded', key) \in Nat
        BY <2>2
      <4>2. Newer(uploaded', bucket'[i]) = Newer(uploaded', key)
        BY <2>1, <3>1
      <4> QED BY <2>1, <3>1, <4>1, <4>2
    <3>2. CASE i \in DOMAIN bucket
      <4>1. Newer(uploaded, bucket[i]) >= Len(bucket) - i /\ bucket[i] # key /\ bucket'[i] = bucket[i]
        BY <2>1, <3>2 DEF Ages
      <4>2. Newer(uploaded', bucket[i]) = Newer(uploaded, bucket[i]) + 1 /\ Newer(uploaded, bucket[i]) \in Nat
        BY <2>2, <4>1
      <4>3. i \in Nat
        BY <3>2 DEF ArtTyped
      <4> QED BY <2>1, <4>1, <4>2, <4>3
    <3> QED BY <2>1, <3>1, <3>2
  <2>4. \A k \in Known' : k \in Stored' \/ Aged(k)'
    BY <2>1, <2>2 DEF Ages
  <2>5. \A q \in Procs : art'[q].pc = "kept" => art'[q].key \in Known'
    BY <1>1, <2>1, <2>2 DEF Ages
  <2>6. \A q \in Deleting' : \A k \in Doomed(q)' : k \in Known' /\ Aged(k)'
    BY <1>1, <1>2, <2>1, <2>2
  <2>7. Stored' \subseteq Known'
    BY <2>1, <2>2 DEF Ages
  <2> QED BY <2>3, <2>4, <2>5, <2>6, <2>7 DEF Ages
<1> QED
  BY <1>a, <1>b, <1>c DEF Moved

LEMMA ArtInitHolds == ArtInit => AInv
<1> SUFFICES ASSUME ArtInit PROVE AInv
  OBVIOUS
<1>1. NoArt \in ArtRows /\ NoArt.pc = "off" /\ NoArt.listed = << >>
  BY ArtworkAssumption DEF NoArt, ArtRows, ArtSteps
<1>2. art \in [Procs -> ArtRows] /\ \A p \in Procs : art[p].pc = "off"
  BY <1>1 DEF ArtInit
<1>3. Stored = {} /\ Known = {} /\ Deleting = {} /\ Uploading = {}
  BY <1>2 DEF ArtInit, Stored, Known, Members, Deleting, Uploading
<1>4. ArtTyped
  BY <1>2 DEF ArtInit, ArtTyped, OneEach
<1>5. Room
  <2> SUFFICES ASSUME NEW T \in SUBSET Deleting
               PROVE  Cardinality(Stored \ DoomedBy(T)) + Cardinality(Uploading) + Cardinality(T)
                        <= MaxStored - 1 + Cardinality(Procs)
    BY DEF Room
  <2>1. Stored \ DoomedBy(T) = {} /\ Uploading = {} /\ T = {}
    BY <1>3
  <2>2. Cardinality({}) = 0 /\ Cardinality(Procs) \in Nat
    BY FewProcs, FS_EmptySet
  <2> QED BY <2>1, <2>2, ArtworkAssumption
<1>6. Ages
  BY <1>2, <1>3 DEF ArtInit, Ages
<1> QED BY <1>4, <1>5, <1>6 DEF AInv

LEMMA ArtStepKeeps ==
  ASSUME AInv, NEW p \in Procs,
         ArtStep(p) \/ ArtOver(p) \/ \E key \in Keys : StartArtwork(p, key)
  PROVE  AInv'
<1>1. PICK r : Moved(p, r)
  BY ArtMoves DEF AInv
<1> QED BY <1>1, MovedTyped, MovedRoom, MovedAges DEF AInv

LEMMA ArtRestKeeps ==
  ASSUME AInv, UNCHANGED artVars
  PROVE  AInv'
<1>1. bucket' = bucket /\ uploaded' = uploaded /\ art' = art
  BY DEF artVars
<1>2. ArtTyped'
  BY <1>1 DEF AInv, ArtTyped
<1>3. Stored' = Stored /\ Deleting' = Deleting /\ Uploading' = Uploading /\ Known' = Known
  BY <1>1 DEF Stored, Deleting, Uploading, Known
<1>4. /\ \A p : Doomed(p)' = Doomed(p)
      /\ \A k : Aged(k)' <=> Aged(k)
      /\ \A T : DoomedBy(T)' = DoomedBy(T)
  BY <1>1 DEF Doomed, DoomedBy, Aged, Once, UploadsSince
<1>5. Room'
  BY <1>3, <1>4 DEF AInv, Room
<1>6. Ages'
  BY <1>1, <1>3, <1>4 DEF AInv, Ages
<1> QED BY <1>2, <1>5, <1>6 DEF AInv

\* What the runs check follows.
LEMMA ArtProperties ==
  ASSUME AInv
  PROVE  ArtTypeOK /\ BucketBounded /\ NewestKept
<1> USE DEF AInv
<1>1. ArtTypeOK
  BY StoredIsIn DEF ArtTyped, ArtTypeOK, ArtRows
<1>2. BucketBounded
  <2>1. /\ Cardinality(Stored \ DoomedBy({})) \in Nat /\ Cardinality(Uploading) \in Nat
        /\ Cardinality({}) \in Nat
        /\ Cardinality(Stored \ DoomedBy({})) + Cardinality(Uploading) + Cardinality({})
             <= MaxStored - 1 + Cardinality(Procs)
    <3>1. {} \in SUBSET Deleting
      OBVIOUS
    <3> QED BY <3>1, RoomFor
  <2>2. Cardinality(Stored \ DoomedBy({})) = Cardinality(Stored)
    <3>1. Stored \ DoomedBy({}) = Stored
      BY DEF DoomedBy
    <3> QED BY <3>1
  <2>3. Cardinality(Stored) = Len(bucket) /\ Len(bucket) \in Nat /\ Cardinality(Procs) \in Nat
    BY StoredIsIn, FewProcs
  <2> PICK stored, up, none : /\ stored = Cardinality(Stored) /\ up = Cardinality(Uploading)
                              /\ none = Cardinality({})
    OBVIOUS
  <2>4. /\ up \in Nat /\ none \in Nat /\ stored = Len(bucket)
        /\ stored + up + none <= MaxStored - 1 + Cardinality(Procs)
    BY <2>1, <2>2, <2>3
  <2>5. stored <= MaxStored + Cardinality(Procs) - 1
    BY <2>3, <2>4, ArtworkAssumption
  <2> QED BY <2>4, <2>5 DEF BucketBounded
<1>3. NewestKept
  BY DEF Ages, Known, Members, Aged, NewestKept
<1> QED BY <1>1, <1>2, <1>3

-----------------------------------------------------------------------------
(* The artwork and the execute together.                                   *)

LEMMA IllustratedStep ==
  ASSUME PInv, ArtTyped, NEW p \in Procs, Illustrated(p)
  PROVE  PInv'
<1> DEFINE step == IF ArtAt(p, "escaped") THEN "raised" ELSE "seal"
           image == IF ArtAt(p, "kept") THEN art[p].key ELSE NoKey
<1>1. /\ Becomes(p, [exec[p] EXCEPT !.pc = step, !.image = image])
      /\ UNCHANGED <<provider, release>>
      /\ exec[p].pc = "artwork"
  BY DEF Illustrated, At
<1>2. image \in Keys \cup {NoKey}
  BY DEF ArtTyped, ArtRows
<1>3. CASE ArtAt(p, "escaped")
  <2>1. image = NoKey /\ step = "raised"
    BY <1>3 DEF ArtAt
  <2> DEFINE e == [exec[p] EXCEPT !.image = NoKey]
  <2>2. Sound(exec[p])
    BY DEF PInv
  <2>3. e \in Executes /\ e.pc = "artwork"
    BY <1>1, <2>2 DEF Sound, Executes
  <2>4. Sound([exec[p] EXCEPT !.pc = "artwork", !.image = NoKey])
    BY <1>1, FinishedSound DEF Finished
  <2>5. Sound([exec[p] EXCEPT !.pc = "raised", !.image = NoKey])
    <3> DEFINE f == [exec[p] EXCEPT !.pc = "artwork", !.image = NoKey]
               r == [f EXCEPT !.pc = "raised"]
    <3>1. f \in Executes /\ Progress(f)
      BY <2>4 DEF Sound
    <3>2. f.pc = "artwork" /\ f.retrying = exec[p].retrying
      BY <2>2 DEF Sound, Executes
    <3>3. f.calls \in Nat /\ f.calls <= 3 + MaxRepairCalls
      <4> HIDE DEF f
      <4> QED
        BY <3>1, <3>2, PipelineAssumption DEF Executes, Progress, Finished
    <3>4. r \in Executes /\ r.pc = "raised" /\ r.calls = f.calls /\ r.retrying = f.retrying
      <4> HIDE DEF f
      <4> QED
        BY <3>1 DEF Executes, ExecSteps
    <3>5. Sound(r)
      <4> HIDE DEF f, r
      <4> QED
        BY <2>2, <3>2, <3>3, <3>4 DEF Sound, Progress, Finished, OfOneRelease
    <3> QED
      BY <3>5
  <2> QED
    BY <1>1, <2>1, <2>5, OneMoves
<1>4. CASE ~ArtAt(p, "escaped")
  <2>1. step = "seal"
    BY <1>4
  <2>2. Sound([exec[p] EXCEPT !.pc = step, !.image = image])
    <3> HIDE DEF image
    <3> QED
      BY <1>1, <1>2, <2>1, FinishedSound DEF Finished
  <2> QED
    BY <1>1, <2>2, OneMoves
<1> QED
  BY <1>3, <1>4

-----------------------------------------------------------------------------
\* The image of an execute was stored.
ImagesKnown == \A p \in Procs : exec[p].image # NoKey => exec[p].image \in Known

Counts == begun \in 0..MaxRuns /\ changes \in 0..MaxChanges

IInv == PInv /\ AInv /\ ImagesKnown /\ Counts

LEMMA InitHolds == Init => IInv
<1> SUFFICES ASSUME Init PROVE IInv
  OBVIOUS
<1>1. PInv
  BY NoExecSound DEF Init, PInv, Sound
<1>2. AInv
  BY ArtInitHolds DEF Init
<1>3. ImagesKnown /\ Counts
  BY PipelineAssumption DEF Init, ImagesKnown, Counts, NoExec
<1> QED BY <1>1, <1>2, <1>3 DEF IInv

LEMMA ExecStepKeeps ==
  ASSUME IInv, NEW p \in Procs, ExecStep(p)
  PROVE  PInv'
<1>0. PInv /\ ArtTyped
  BY DEF IInv, AInv
<1>1. CASE Illustrate(p) \/ Illustrating(p)
  <2>1. UNCHANGED <<provider, release, exec>>
    BY <1>1 DEF Illustrate, Illustrating
  <2> QED BY <1>0, <2>1 DEF PInv, Sound
<1>2. CASE Taken(p)
  BY <1>0, <1>2, NoExecSound, OneMoves DEF Taken, Alone
<1> QED
  BY <1>0, <1>1, <1>2, RetrieveStep, PlanStep, WriteStep, RepairStep, VerifyStep,
     FinishingSteps, IllustratedStep
  DEF ExecStep

\* A step of one process moves no other's execute.
LEMMA OthersRest ==
  ASSUME IInv, NEW q \in Procs, Begin(q) \/ ExecStep(q) \/ Crash(q),
         NEW p \in Procs \ {q}
  PROVE  exec'[p] = exec[p]
<1>1. ASSUME NEW e, Becomes(q, e)
      PROVE  exec'[p] = exec[p]
  BY <1>1 DEF Becomes
<1>2. ASSUME NEW step, Goto(q, step)
      PROVE  exec'[p] = exec[p]
  BY <1>2 DEF Goto
<1>3. CallFails(q) => exec'[p] = exec[p]
  BY <1>1, <1>2 DEF CallFails, Refused, QuotaSpent, Malformed, Raise
<1>4. CASE Begin(q) \/ Crash(q) \/ Taken(q) \/ Illustrated(q)
  BY <1>1, <1>4 DEF Begin, Crash, Taken, Illustrated, Becomes
<1>5. CASE Retrieve(q) \/ Budget(q) \/ NoArtwork(q) \/ Seal(q)
  BY <1>1, <1>2, <1>5 DEF Retrieve, Budget, NoArtwork, Seal, Raise
<1>6. CASE PlanEvents(q) \/ Write(q) \/ Repair(q) \/ Verify(q)
  BY <1>1, <1>3, <1>6 DEF PlanEvents, Write, Repair, Verify
<1>7. CASE Illustrate(q) \/ Illustrating(q)
  BY <1>7 DEF Illustrate, Illustrating
<1> QED
  BY <1>4, <1>5, <1>6, <1>7 DEF ExecStep

\* The image of an execute is chosen with the outcome of the artwork and never later.
LEMMA ImageStays ==
  ASSUME IInv, NEW p \in Procs, Begin(p) \/ ExecStep(p) \/ Crash(p), ~Illustrated(p)
  PROVE  exec'[p].image \in {exec[p].image, NoKey}
<1>1. exec[p] \in Executes /\ DOMAIN exec = Procs
  BY DEF IInv, PInv
<1>2. ASSUME NEW e, Becomes(p, e), e.image \in {exec[p].image, NoKey}
      PROVE  exec'[p].image \in {exec[p].image, NoKey}
  BY <1>1, <1>2 DEF Becomes
<1>3. ASSUME NEW step, Goto(p, step)
      PROVE  exec'[p].image \in {exec[p].image, NoKey}
  BY <1>1, <1>3 DEF Goto, Executes
<1>4. ASSUME NEW step
      PROVE  [Answered(p) EXCEPT !.pc = step].image = exec[p].image
  BY <1>1 DEF Answered, Executes
<1>5. ASSUME CallFails(p)
      PROVE  exec'[p].image \in {exec[p].image, NoKey}
  <2>1. [exec[p] EXCEPT !.retrying = TRUE].image = exec[p].image
    BY <1>1 DEF Executes
  <2>2. Refused(p) => Raise(p) \/ Becomes(p, [exec[p] EXCEPT !.retrying = TRUE])
    BY DEF Refused
  <2> QED
    BY <1>2, <1>3, <1>4, <1>5, <2>1, <2>2 DEF CallFails, QuotaSpent, Malformed, Raise
<1>6. ASSUME NEW page, NEW next
      PROVE  Looked(exec[p], page, next).image = exec[p].image
  BY <1>1 DEF Looked, Executes
<1>7. CASE Begin(p)
  BY <1>1, <1>7 DEF Begin, NoExec
<1>8. CASE Crash(p) \/ Taken(p)
  BY <1>1, <1>8 DEF Crash, Taken, Becomes, NoExec
<1>9. CASE Retrieve(p)
  <2>1. [Retrieved(p) EXCEPT !.pc = "planner"].image = exec[p].image
    BY <1>1 DEF Retrieved, Executes
  <2> QED BY <1>2, <1>3, <1>9, <2>1 DEF Retrieve, Raise
<1>10. CASE Budget(p) \/ NoArtwork(p) \/ Seal(p)
  BY <1>3, <1>10 DEF Budget, NoArtwork, Seal, Raise
<1>11. CASE PlanEvents(p)
  BY <1>2, <1>4, <1>5, <1>11 DEF PlanEvents
<1>12. CASE Write(p)
  <2>1. CASE \E page \in Pages : Becomes(p, DraftChecked(Draft(Answered(p), page)))
    <3>1. PICK page \in Pages : Becomes(p, DraftChecked(Draft(Answered(p), page)))
      BY <2>1
    <3>2. DraftChecked(Draft(Answered(p), page))
            = Looked(exec[p], page, IF MaxRepairCalls = 1 THEN "repair" ELSE "raised")
      BY <1>1 DEF DraftChecked, Draft, Answered, Validated, Looked, Executes
    <3> QED BY <1>2, <1>6, <3>1, <3>2
  <2> QED BY <1>5, <1>12, <2>1 DEF Write
<1>13. CASE Repair(p)
  <2>1. CASE \E page \in Pages :
          Becomes(p, RepairChecked(Draft(Answered(p), Articles(page, exec[p].page))))
    <3>1. PICK page \in Pages :
            Becomes(p, RepairChecked(Draft(Answered(p), Articles(page, exec[p].page))))
      BY <2>1
    <3> PICK articles : articles = Articles(page, exec[p].page)
      OBVIOUS
    <3>2. RepairChecked(Draft(Answered(p), articles)) = Looked(exec[p], articles, "raised")
      BY <1>1 DEF RepairChecked, Draft, Answered, Validated, Looked, Executes
    <3> QED BY <1>2, <1>6, <3>1, <3>2
  <2> QED BY <1>5, <1>13, <2>1 DEF Repair
<1>14. CASE Verify(p)
  <2> DEFINE b == [Answered(p) EXCEPT !.pc = "budget"]
             e == [b EXCEPT !.verified = exec[p].written]
  <2>1. CASE Becomes(p, [Answered(p) EXCEPT !.pc = "budget", !.verified = exec[p].written])
    <3>1. b \in Executes /\ b.image = exec[p].image
      BY <1>1, <1>4, AnsweredFields DEF ExecSteps
    <3>2. Becomes(p, e)
      BY <2>1
    <3> HIDE DEF b
    <3>3. e.image = exec[p].image
      BY <3>1 DEF Executes
    <3> HIDE DEF e
    <3> QED BY <1>2, <3>2, <3>3
  <2> QED BY <1>5, <1>14, <2>1 DEF Verify
<1>15. CASE Illustrate(p) \/ Illustrating(p)
  BY <1>15 DEF Illustrate, Illustrating
<1> QED
  BY <1>7, <1>8, <1>9, <1>10, <1>11, <1>12, <1>13, <1>14, <1>15 DEF ExecStep

\* What a step of a process does to the artwork.
LEMMA ArtPart ==
  ASSUME NEW p \in Procs, Begin(p) \/ ExecStep(p) \/ Crash(p)
  PROVE  \/ UNCHANGED artVars
         \/ ArtStep(p) \/ ArtOver(p) \/ \E key \in Keys : StartArtwork(p, key)
BY DEF Begin, Crash, ExecStep, Retrieve, PlanEvents, Write, Repair, Verify, Budget, NoArtwork,
       Seal, Taken, Alone, Illustrate, Illustrating, Illustrated

\* What was uploaded stays so.
LEMMA KnownGrows ==
  ASSUME AInv, NEW p \in Procs,
         ArtStep(p) \/ ArtOver(p) \/ \E key \in Keys : StartArtwork(p, key)
  PROVE  Known \subseteq Known'
<1>1. PICK r : Moved(p, r)
  BY ArtMoves DEF AInv
<1>2. CASE Adds(p, r)
  <2>1. art[p].key \in Keys /\ uploaded' = Append(uploaded, art[p].key)
    BY <1>2, Added DEF AInv
  <2> QED BY <2>1, PutAges DEF AInv
<1>3. CASE UNCHANGED uploaded
  BY <1>3 DEF Known
<1> QED
  BY <1>1, <1>2, <1>3 DEF Moved, Rests, Lists, Removes, SameBucket

LEMMA ImagesKeep ==
  ASSUME IInv, NEW p \in Procs, Begin(p) \/ ExecStep(p) \/ Crash(p)
  PROVE  ImagesKnown'
<1>1. Known \subseteq Known'
  <2>1. UNCHANGED artVars => Known' = Known
    BY DEF artVars, Known
  <2> QED BY <2>1, ArtPart, KnownGrows DEF IInv
<1>2. \A q \in Procs \ {p} : exec'[q] = exec[q]
  BY OthersRest
<1>3. exec'[p].image # NoKey => exec'[p].image \in Known
  <2>1. CASE Illustrated(p)
    <3>1. /\ exec'[p] = [exec[p] EXCEPT
                           !.pc = IF ArtAt(p, "escaped") THEN "raised" ELSE "seal",
                           !.image = IF ArtAt(p, "kept") THEN art[p].key ELSE NoKey]
          /\ exec[p] \in Executes
      BY <2>1 DEF Illustrated, Becomes, IInv, PInv
    <3>2. exec'[p].image = IF ArtAt(p, "kept") THEN art[p].key ELSE NoKey
      BY <3>1 DEF Executes
    <3> QED BY <3>2 DEF ArtAt, IInv, AInv, Ages
  <2>2. CASE ~Illustrated(p)
    BY <2>2, ImageStays DEF IInv, ImagesKnown
  <2> QED BY <2>1, <2>2
<1> QED BY <1>1, <1>2, <1>3 DEF IInv, ImagesKnown

LEMMA CountsKeep ==
  ASSUME IInv, NEW p \in Procs, Begin(p) \/ ExecStep(p) \/ Crash(p)
  PROVE  Counts'
<1>1. CASE Begin(p)
  BY <1>1, PipelineAssumption DEF Begin, IInv, Counts
<1>2. CASE UNCHANGED <<begun, changes>>
  BY <1>2 DEF IInv, Counts
<1> QED
  BY <1>1, <1>2
  DEF Crash, ExecStep, Retrieve, PlanEvents, Write, Repair, Verify, Budget, NoArtwork,
      Seal, Taken, Alone, Illustrate, Illustrating, Illustrated

LEMMA StepKeeps ==
  ASSUME IInv, [Next]_vars
  PROVE  IInv'
<1>1. CASE UNCHANGED vars
  <2>1. AInv' /\ Known' = Known
    BY <1>1, ArtRestKeeps DEF vars, IInv, Known, artVars
  <2> QED
    BY <1>1, <2>1 DEF vars, IInv, PInv, Sound, ImagesKnown, Counts
<1>2. CASE ReleaseChanges
  <2>1. AInv' /\ Known' = Known
    BY <1>2, ArtRestKeeps DEF ReleaseChanges, IInv, Known, artVars
  <2>2. PInv'
    BY <1>2 DEF ReleaseChanges, IInv, PInv, Sound
  <2>3. ImagesKnown' /\ Counts'
    BY <1>2, <2>1, PipelineAssumption DEF ReleaseChanges, IInv, ImagesKnown, Counts
  <2> QED BY <2>1, <2>2, <2>3 DEF IInv
<1>3. ASSUME NEW p \in Procs, Begin(p) \/ ExecStep(p) \/ Crash(p)
      PROVE  IInv'
  <2>1. PInv'
    <3>1. CASE Crash(p)
      BY <3>1, NoExecSound, OneMoves DEF Crash, IInv
    <3> QED
      BY <1>3, <3>1, BeginStep, ExecStepKeeps DEF IInv
  <2>2. AInv'
    BY <1>3, ArtPart, ArtStepKeeps, ArtRestKeeps DEF IInv
  <2> QED BY <1>3, <2>1, <2>2, ImagesKeep, CountsKeep DEF IInv
<1> QED
  BY <1>1, <1>2, <1>3 DEF Next

LEMMA Invariant == Spec => []IInv
  BY InitHolds, StepKeeps, PTL DEF Spec

\* What execute returns is the edition the verifier read and the validators last
\* passed, for any number of processes and whatever the model answers.
THEOREM ReturnedAsVerified == Spec => []VerifiedAsWritten
<1>1. IInv => VerifiedAsWritten
  BY DEF IInv, PInv, Sound, Progress, Finished, VerifiedAsWritten
<1> QED
  BY <1>1, Invariant, PTL

\* With the three normal calls that an edition takes, the limit execute checks after
\* the calls were made is never passed.
THEOREM CallsStayBounded ==
  ASSUME MaxNormalCalls >= 3
  PROVE  Spec => []CallsBounded
<1>1. ASSUME IInv, NEW p \in Procs
      PROVE  /\ exec[p].calls <= MaxCalls
             /\ exec[p].retrying => provider = "cloudflare_workers_ai"
  <2>1. /\ exec[p].calls \in Nat /\ exec[p].pc \in ExecSteps /\ Progress(exec[p])
        /\ exec[p].retrying => provider = "cloudflare_workers_ai"
    BY <1>1 DEF IInv, PInv, Sound, Executes
  <2>2. exec[p].calls <= 3 + MaxRepairCalls
    BY <2>1, PipelineAssumption DEF Progress, Finished, ExecSteps
  <2> QED
    BY <2>1, <2>2, PipelineAssumption DEF MaxCalls
<1>2. IInv => CallsBounded
  BY <1>1 DEF CallsBounded
<1> QED
  BY <1>2, Invariant, PTL

-----------------------------------------------------------------------------
\* A run is returned only while the release is active that it was planned for and
\* that its lore is from, for any number of changes of the release.
THEOREM ReleaseKept == Spec => OneRelease
<1>1. ASSUME IInv, [Next]_vars, NEW p \in Procs, At(p, "seal"), exec'[p].pc = "prepared"
      PROVE  exec[p].planned = release /\ exec[p].lore = release
  <2>1. exec[p].lore = exec[p].planned
    BY <1>1 DEF IInv, PInv, Sound, OfOneRelease, Finished, At
  <2>2. exec'[p] # exec[p]
    BY <1>1 DEF At
  <2>3. PICK q \in Procs : Begin(q) \/ ExecStep(q) \/ Crash(q)
    BY <1>1, <2>2 DEF Next, ReleaseChanges, vars
  <2>4. q = p
    BY <1>1, <2>2, <2>3, OthersRest
  <2>5. Seal(p) \/ Crash(p) \/ Illustrate(p) \/ Illustrating(p)
    BY <1>1, <2>3, <2>4
    DEF At, Begin, ExecStep, Retrieve, PlanEvents, Write, Repair, Verify, Budget,
        NoArtwork, Illustrated, Taken
  <2>6. Seal(p)
    <3>1. ~Illustrate(p) /\ ~Illustrating(p)
      BY <2>2 DEF Illustrate, Illustrating
    <3>2. ~Crash(p)
      BY <1>1 DEF Crash, Becomes, NoExec, IInv, PInv
    <3> QED
      BY <2>5, <3>1, <3>2
  <2>7. ~Raise(p)
    <3>1. exec[p] \in Executes /\ DOMAIN exec = Procs
      BY <1>1 DEF IInv, PInv, Sound
    <3> QED
      BY <1>1, <3>1 DEF Raise, Goto, Executes
  <2> QED
    BY <2>1, <2>6, <2>7 DEF Seal, ReleaseStill
<1>2. IInv /\ [Next]_vars =>
        [\A p \in Procs : (At(p, "seal") /\ exec'[p].pc = "prepared") =>
           exec[p].planned = release /\ exec[p].lore = release]_vars
  BY <1>1
<1> QED
  BY <1>2, Invariant, PTL DEF Spec, OneRelease

\* A call that fails writes nothing.
LEMMA FailureWritesNothing ==
  ASSUME IInv, NEW p \in Procs, CallFails(p)
  PROVE  exec'[p].written = exec[p].written
<1>1. exec[p] \in Executes /\ DOMAIN exec = Procs
  BY DEF IInv, PInv, Sound
<1>2. Raise(p) => exec'[p].written = exec[p].written
  BY <1>1 DEF Raise, Goto, Executes
<1>3. CASE Refused(p)
  BY <1>1, <1>2, <1>3 DEF Refused, Becomes, Executes
<1>4. CASE QuotaSpent(p)
  BY <1>2, <1>4 DEF QuotaSpent
<1>5. CASE Malformed(p)
  BY <1>1, <1>5 DEF Malformed, Answered, Becomes, Executes
<1> QED
  BY <1>3, <1>4, <1>5 DEF CallFails

\* The repair makes no paragraph too short that was long enough, whatever the model
\* answers: what it makes too short is the draft's.
THEOREM RepairKeepsLength == Spec => RepairKeeps
<1>1. ASSUME IInv, [Next]_vars, NEW p \in Procs,
             exec[p].written = 1, exec'[p].written = 2
      PROVE  exec'[p].page.short \subseteq exec[p].page.short
  <2>0. exec[p] \in Executes /\ DOMAIN exec = Procs /\ Progress(exec[p])
    BY <1>1 DEF IInv, PInv, Sound
  <2>1. exec'[p] # exec[p]
    BY <1>1
  <2>2. PICK q \in Procs : Begin(q) \/ ExecStep(q) \/ Crash(q)
    BY <1>1, <2>1 DEF Next, ReleaseChanges, vars
  <2>3. q = p
    BY <1>1, <2>1, <2>2, OthersRest
  <2>w. ASSUME NEW e, Becomes(p, e)
        PROVE  e.written = 2
    BY <1>1, <2>0, <2>w DEF Becomes
  <2>4. ~Begin(p) /\ ~Crash(p) /\ ~Taken(p)
    <3>1. ASSUME NEW planned, exec' = [exec EXCEPT ![p] = [NoExec EXCEPT !.pc = "retrieve", !.planned = planned]]
          PROVE  FALSE
      BY <1>1, <2>0, <3>1 DEF NoExec
    <3>2. exec' # [exec EXCEPT ![p] = NoExec]
      BY <1>1, <2>0 DEF NoExec
    <3> QED
      BY <3>1, <3>2 DEF Begin, Crash, Taken, Becomes
  <2>5. ~Retrieve(p) /\ ~Budget(p) /\ ~NoArtwork(p) /\ ~Seal(p)
    <3>1. ASSUME NEW step, Goto(p, step)
          PROVE  FALSE
      BY <1>1, <2>0, <3>1 DEF Goto, Executes
    <3>2. ~Becomes(p, [Retrieved(p) EXCEPT !.pc = "planner"])
      <4> DEFINE x == [Retrieved(p) EXCEPT !.pc = "planner"]
      <4>1. x.written = 1
        BY <1>1, <2>0 DEF Retrieved, Executes
      <4> HIDE DEF x
      <4>2. ~Becomes(p, x)
        <5> SUFFICES ASSUME Becomes(p, x) PROVE FALSE
          OBVIOUS
        <5>1. x.written = 2
          BY <2>w
        <5> QED
          BY <4>1, <5>1
      <4> QED
        BY <4>2 DEF x
    <3> QED
      BY <3>1, <3>2 DEF Retrieve, Budget, NoArtwork, Seal, Raise
  <2>6. ~PlanEvents(p) /\ ~Write(p)
    BY <1>1, <2>0 DEF PlanEvents, Write, At, Progress
  <2>7. ~CallFails(p)
    BY <1>1, FailureWritesNothing
  <2>8. ~Verify(p)
    <3> DEFINE x == [Answered(p) EXCEPT !.pc = "budget", !.verified = exec[p].written]
    <3>1. x.written = 1
      BY <1>1, <2>0 DEF Answered, Executes
    <3> HIDE DEF x
    <3>2. ~Becomes(p, x)
      <4> SUFFICES ASSUME Becomes(p, x) PROVE FALSE
        OBVIOUS
      <4>1. x.written = 2
        BY <2>w
      <4> QED
        BY <3>1, <4>1
    <3> QED
      BY <2>7, <3>2 DEF Verify, x
  <2>9. ~Illustrate(p) /\ ~Illustrating(p) /\ ~Illustrated(p)
    <3>1. ASSUME NEW step, NEW image,
                 exec' = [exec EXCEPT ![p] = [exec[p] EXCEPT !.pc = step, !.image = image]]
          PROVE  FALSE
      BY <1>1, <2>0, <3>1 DEF Executes
    <3>2. ~Illustrated(p)
      <4> DEFINE s == IF ArtAt(p, "escaped") THEN "raised" ELSE "seal"
                 i == IF ArtAt(p, "kept") THEN art[p].key ELSE NoKey
      <4>1. Illustrated(p) => exec' = [exec EXCEPT ![p] = [exec[p] EXCEPT !.pc = s, !.image = i]]
        BY DEF Illustrated, Becomes
      <4> HIDE DEF s, i
      <4> QED
        BY <3>1, <4>1
    <3> QED
      BY <2>1, <3>2 DEF Illustrate, Illustrating
  <2>10. Repair(p)
    BY <2>2, <2>3, <2>4, <2>5, <2>6, <2>8, <2>9 DEF ExecStep
  <2>11. PICK page \in Pages :
           Becomes(p, RepairChecked(Draft(Answered(p), Articles(page, exec[p].page))))
    BY <2>7, <2>10 DEF Repair
  <2> DEFINE articles == Articles(page, exec[p].page)
  <2>12. articles.short \subseteq exec[p].page.short
    BY <2>0, ArticlesPages DEF Executes
  <2> HIDE DEF articles
  <2>13. RepairChecked(Draft(Answered(p), articles)).page = articles
    BY <2>0 DEF RepairChecked, Draft, Answered, Validated, Executes
  <2>14. exec'[p] = RepairChecked(Draft(Answered(p), articles))
    BY <2>0, <2>11 DEF Becomes, articles
  <2> QED
    BY <2>12, <2>13, <2>14
<1>2. IInv /\ [Next]_vars =>
        [\A p \in Procs : (exec[p].written = 1 /\ exec'[p].written = 2) =>
           exec'[p].page.short \subseteq exec[p].page.short]_vars
  BY <1>1
<1> QED
  BY <1>2, Invariant, PTL DEF Spec, RepairKeeps

-----------------------------------------------------------------------------
\* Every state has its type, whatever the executes and the requests of the artwork do.
THEOREM TypeCorrect == Spec => []TypeOK
<1>1. IInv => TypeOK
  <2> SUFFICES ASSUME IInv PROVE TypeOK
    OBVIOUS
  <2>1. ArtTypeOK
    BY ArtProperties DEF IInv
  <2>2. /\ provider \in Providers /\ release \in Releases
        /\ exec \in [Procs -> Executes]
        /\ begun \in 0..MaxRuns /\ changes \in 0..MaxChanges
    BY DEF IInv, PInv, Counts
  <2> QED BY <2>1, <2>2 DEF TypeOK, Executes
<1> QED
  BY <1>1, Invariant, PTL

\* The bucket holds at most one image more than its limit for every further process,
\* however their lists, removals and uploads come between each other, answered or not.
THEOREM BucketStaysBounded == Spec => []BucketBounded
<1>1. IInv => BucketBounded
  BY ArtProperties DEF IInv
<1> QED
  BY <1>1, Invariant, PTL

\* An image that was uploaded once goes only when MaxStored less one newer ones have
\* been uploaded, for any number of processes that remove by lists long stale.
THEOREM NewestStayKept == Spec => []NewestKept
<1>1. IInv => NewestKept
  BY ArtProperties DEF IInv
<1> QED
  BY <1>1, Invariant, PTL

\* The image a run shows was stored, and goes only with age, whatever other processes
\* remove between its upload and the end of the run.
THEOREM ImageIsServed == Spec => []ImageServed
<1>1. IInv => ImageServed
  <2> SUFFICES ASSUME IInv, NEW p \in Procs, exec[p].image # NoKey
               PROVE  /\ \E i \in DOMAIN uploaded : uploaded[i] = exec[p].image
                      /\ \/ exec[p].image \in Stored
                         \/ Once(exec[p].image) => UploadsSince(exec[p].image) >= MaxStored - 1
    BY DEF ImageServed
  <2>1. exec[p].image \in Known
    BY DEF IInv, ImagesKnown
  <2>2. exec[p].image \in Stored \/ Aged(exec[p].image)
    BY <2>1 DEF IInv, AInv, Ages
  <2>3. \E i \in DOMAIN uploaded : uploaded[i] = exec[p].image
    BY <2>1 DEF Known, Members
  <2> QED BY <2>2, <2>3 DEF Aged
<1> QED
  BY <1>1, Invariant, PTL
=============================================================================
