------------------------------- MODULE Pipeline -------------------------------
(***************************************************************************)
(* GazzettaGenerationPipeline.execute (generation/pipeline.py), as the     *)
(* processes run it at the same time for different jobs: the corpus        *)
(* release, the calls to the model with the retry of _call, the validators *)
(* and the single repair, the verifier, the lead image and the run that is *)
(* returned.  What the model answers is a choice among what the code tells *)
(* apart.  The release is changed by another program at any time.          *)
(***************************************************************************)
EXTENDS ArtworkStore

CONSTANTS
  Releases,         \* corpus releases
  NoRelease,
  Paragraphs,       \* the paragraphs of an edition
  MaxNormalCalls,   \* generation.max_normal_calls
  MaxRepairCalls,   \* generation.max_repair_calls
  MaxRuns,          \* bound: executes begun
  MaxChanges        \* bound: changes of the active release

ASSUME PipelineAssumption ==
  /\ NoRelease \notin Releases
  /\ MaxNormalCalls \in Nat
  /\ MaxRepairCalls \in Nat
  /\ MaxRuns \in Nat
  /\ MaxChanges \in Nat

VARIABLES
  provider,  \* generation.provider of the installation
  release,   \* the active release
  exec,      \* process -> its execute
  begun,     \* executes begun
  changes    \* changes of the active release

vars == <<artVars, provider, release, exec, begun, changes>>

ExecSteps == {"idle", "retrieve", "planner", "writer", "repair", "verifier",
              "budget", "artwork", "seal", "prepared", "raised"}

\* An edition as the validators see it: which paragraphs are too short, which have
\* text that is not allowed (markup, placeholders, the reserved word Loop).
Pages == [short : SUBSET Paragraphs, foul : SUBSET Paragraphs]
Blank == [short |-> {}, foul |-> {}]

\* planned is the release the plan was made for, lore that of the palette; calls
\* counts the answers; page is the edition, written counts its drafts, and
\* validated and verified say which of them passed.
NoExec == [pc |-> "idle", planned |-> NoRelease, lore |-> NoRelease,
           calls |-> 0, retrying |-> FALSE, page |-> Blank,
           written |-> 0, validated |-> 0, verified |-> 0, image |-> NoKey]

Providers == {"codex_cli", "cloudflare_workers_ai"}

MaxCalls == MaxNormalCalls + MaxRepairCalls

TypeOK ==
  /\ ArtTypeOK
  /\ provider \in Providers
  /\ release \in Releases
  /\ exec \in [Procs -> [pc : ExecSteps, planned : Releases \cup {NoRelease},
                         lore : Releases \cup {NoRelease}, calls : Nat,
                         retrying : BOOLEAN, page : Pages, written : 0..2, validated : 0..2,
                         verified : 0..2, image : Keys \cup {NoKey}]]
  /\ begun \in 0..MaxRuns
  /\ changes \in 0..MaxChanges

Init ==
  /\ ArtInit
  /\ provider \in Providers
  /\ release \in Releases
  /\ exec = [p \in Procs |-> NoExec]
  /\ begun = 0
  /\ changes = 0

-----------------------------------------------------------------------------
At(p, step) == exec[p].pc = step
Goto(p, step) == exec' = [exec EXCEPT ![p].pc = step]
Becomes(p, e) == exec' = [exec EXCEPT ![p] = e]
Raise(p) == Goto(p, "raised")
Alone == UNCHANGED <<artVars, provider, release, begun, changes>>

\* The policy of the job is the installed one, the editorial state is read, the
\* edition planned for the active release; each of these may raise.
Begin(p) ==
  /\ At(p, "idle")
  /\ begun < MaxRuns
  /\ begun' = begun + 1
  /\ exec' = [exec EXCEPT ![p] = [NoExec EXCEPT !.pc = "retrieve", !.planned = release]]
  /\ UNCHANGED <<artVars, provider, release, changes>>

\* Mutant: the palette is used whatever release it came from.
AnyPalette(p) == TRUE
PaletteFits(p) == release = exec[p].planned

\* The adapter's evidence is of the release that is active when it is searched.
Retrieved(p) == [exec[p] EXCEPT !.lore = release]

\* retrieve_palette: too little evidence, an outage or another release raises.
Retrieve(p) ==
  /\ At(p, "retrieve")
  /\ \/ PaletteFits(p) /\ Becomes(p, [Retrieved(p) EXCEPT !.pc = "planner"])
     \/ Raise(p)
  /\ Alone

-----------------------------------------------------------------------------
(* _call: one answer, after at most one refusal that allows another try.   *)

\* How complete_json ends.  soon: a quota that returns within
\* max_rate_limit_wait_seconds; too_large: a request above the tokens a minute;
\* refused: everything that raises through _call, the quota and the login of
\* codex among it, whose cooldown is longer than any wait.
CodexAnswers == {"answer", "refused"}
CloudflareAnswers == {"answer", "soon", "too_large", "refused"}
Answers == IF provider = "codex_cli" THEN CodexAnswers ELSE CloudflareAnswers

Answered(p) == [exec[p] EXCEPT !.calls = @ + 1, !.retrying = FALSE]

Repeats(p, answer) == answer \in {"soon", "too_large"} /\ ~exec[p].retrying

Refused(p) ==
  \E answer \in Answers \ {"answer"} :
    IF Repeats(p, answer) THEN Becomes(p, [exec[p] EXCEPT !.retrying = TRUE])
    ELSE Raise(p)

\* The tokens left, which only Cloudflare tells, do not suffice for the next call
\* and return too late.
QuotaSpent(p) ==
  /\ provider = "cloudflare_workers_ai"
  /\ exec[p].calls > 0
  /\ ~exec[p].retrying
  /\ Raise(p)

\* An answer that does not fit its schema.
Malformed(p) == Becomes(p, [Answered(p) EXCEPT !.pc = "raised"])

CallFails(p) == Refused(p) \/ QuotaSpent(p) \/ Malformed(p)

-----------------------------------------------------------------------------
\* The event planner: its events pass validate_event_set, or raise.
PlanEvents(p) ==
  /\ At(p, "planner")
  /\ \/ Becomes(p, [Answered(p) EXCEPT !.pc = "writer"])
     \/ CallFails(p)
  /\ Alone

\* Mutant: the draft's paragraphs do not stand in for repaired ones.
ArticlesAnswered(page, fallback) == page

\* What is too long is cut, so that no page is; a paragraph that the repair made too
\* short is replaced by that of the draft, with all that is in it.
Articles(page, fallback) ==
  LET kept == page.short \ fallback.short
  IN [short |-> page.short \ kept, foul |-> (page.foul \ kept) \cup (fallback.foul \cap kept)]

Draft(e, page) == [e EXCEPT !.written = @ + 1, !.page = page]

\* validate_edition.
Passes(page) == page.short = {} /\ page.foul = {}
Validated(e) == [e EXCEPT !.pc = "verifier", !.validated = e.written]

\* Every issue of the validators is repairable: one repair for the draft.
DraftChecked(e) ==
  IF Passes(e.page) THEN Validated(e)
  ELSE [e EXCEPT !.pc = IF MaxRepairCalls = 1 THEN "repair" ELSE "raised"]

\* Mutants: the repaired edition is taken as it is; it is repaired until it passes.
RepairUnchecked(e) == [e EXCEPT !.pc = "verifier"]
RepairAgain(e) == IF Passes(e.page) THEN Validated(e) ELSE [e EXCEPT !.pc = "repair"]

\* A second failure raises.
RepairChecked(e) == IF Passes(e.page) THEN Validated(e) ELSE [e EXCEPT !.pc = "raised"]

Write(p) ==
  /\ At(p, "writer")
  /\ \/ \E page \in Pages : Becomes(p, DraftChecked(Draft(Answered(p), page)))
     \/ CallFails(p)
  /\ Alone

Repair(p) ==
  /\ At(p, "repair")
  /\ \/ \E page \in Pages :
          Becomes(p, RepairChecked(Draft(Answered(p), Articles(page, exec[p].page))))
     \/ CallFails(p)
  /\ Alone

\* Only pass passes: repairable and reject both raise.
Verify(p) ==
  /\ At(p, "verifier")
  /\ \/ Becomes(p, [Answered(p) EXCEPT !.pc = "budget", !.verified = exec[p].written])
     \/ CallFails(p)
  /\ Alone

\* The limits of calls and tokens, and the release once more before the image.
Budget(p) ==
  /\ At(p, "budget")
  /\ \/ exec[p].calls <= MaxCalls /\ release = exec[p].planned /\ Goto(p, "artwork")
     \/ Raise(p)
  /\ Alone

-----------------------------------------------------------------------------
(* The lead image, when generation_enabled and an adapter are there.       *)

NoArtwork(p) ==
  /\ At(p, "artwork")
  /\ ArtAt(p, "off")
  /\ Goto(p, "seal")
  /\ Alone

Illustrate(p) ==
  /\ At(p, "artwork")
  /\ \E key \in Keys : StartArtwork(p, key)
  /\ UNCHANGED <<provider, release, exec, begun, changes>>

Illustrating(p) ==
  /\ ArtStep(p)
  /\ UNCHANGED <<provider, release, exec, begun, changes>>

\* ArtworkGenerationFailed leaves the static artwork; nothing else is caught.
Illustrated(p) ==
  /\ At(p, "artwork")
  /\ art[p].pc \in Outcomes
  /\ Becomes(p, [exec[p] EXCEPT
                   !.pc = IF ArtAt(p, "escaped") THEN "raised" ELSE "seal",
                   !.image = IF ArtAt(p, "kept") THEN art[p].key ELSE NoKey])
  /\ ArtOver(p)
  /\ UNCHANGED <<provider, release, begun, changes>>

ReleaseStill(p) == release = exec[p].planned

\* The release a last time, then the run and its updates, which may raise.
Seal(p) ==
  /\ At(p, "seal")
  /\ \/ ReleaseStill(p) /\ Goto(p, "prepared")
     \/ Raise(p)
  /\ Alone

\* The worker takes the run or the error.
Taken(p) ==
  /\ At(p, "prepared") \/ At(p, "raised")
  /\ Becomes(p, NoExec)
  /\ Alone

Crash(p) ==
  /\ ~At(p, "idle")
  /\ Becomes(p, NoExec)
  /\ ArtOver(p)
  /\ UNCHANGED <<provider, release, begun, changes>>

ReleaseChanges ==
  /\ changes < MaxChanges
  /\ changes' = changes + 1
  /\ release' \in Releases \ {release}
  /\ UNCHANGED <<artVars, provider, exec, begun>>

ExecStep(p) ==
  \/ Retrieve(p) \/ PlanEvents(p) \/ Write(p) \/ Repair(p) \/ Verify(p)
  \/ Budget(p) \/ NoArtwork(p) \/ Illustrate(p) \/ Illustrating(p)
  \/ Illustrated(p) \/ Seal(p) \/ Taken(p)

Next == ReleaseChanges \/ \E p \in Procs : Begin(p) \/ ExecStep(p) \/ Crash(p)

Spec == Init /\ [][Next]_vars

-----------------------------------------------------------------------------
\* What is returned is what the verifier read, and the validators last passed
\* that and not an earlier draft, repaired or not (SDS 10.2).
VerifiedAsWritten ==
  \A p \in Procs : exec[p].pc \in {"artwork", "seal", "prepared"} =>
    /\ exec[p].written = exec[p].validated
    /\ exec[p].written = exec[p].verified
    /\ Passes(exec[p].page)

\* The repair never makes a paragraph too short that was long enough, however the
\* model rewrote the edition.
RepairKeeps ==
  [][\A p \in Procs : (exec[p].written = 1 /\ exec'[p].written = 2) =>
       exec'[p].page.short \subseteq exec[p].page.short]_vars

\* A run is returned only while the release is active that it was planned for and
\* that all its lore is from, however often the release changed meanwhile.
OneRelease ==
  [][\A p \in Procs : (At(p, "seal") /\ exec'[p].pc = "prepared") =>
       exec[p].planned = release /\ exec[p].lore = release]_vars

\* Three calls and one repair are all there can be, and codex, whose calls may take
\* ten minutes each, is not asked twice for one: the limit execute checks after the
\* calls were made is never the one that is needed (SDS 10.3).
CallsBounded ==
  \A p \in Procs : /\ exec[p].calls <= MaxCalls
                   /\ exec[p].retrying => provider = "cloudflare_workers_ai"

\* The image a run shows was stored, and goes only with age, although other
\* processes prune the bucket between its upload or lookup and the run's end.
ImageServed ==
  \A p \in Procs : exec[p].image # NoKey =>
    /\ \E i \in DOMAIN uploaded : uploaded[i] = exec[p].image
    /\ \/ exec[p].image \in Stored
       \/ Once(exec[p].image) => UploadsSince(exec[p].image) >= MaxStored - 1

\* No error of Cloudflare or of Storage keeps an edition from being published: it
\* goes on with the static artwork (ADR 0002, failure_policy).
ArtworkFailSoft ==
  [][\A p \in Procs : At(p, "artwork") => exec'[p].pc # "raised"]_vars
=============================================================================
