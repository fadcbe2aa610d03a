# A formal model of the Neveran Gazzetta engine

The Gazzetta engine generates a newspaper every two days and keeps a small queue of
finished editions from which one is published at each slot. This directory holds TLA+
modules of its stateful parts, the TLC configurations that check them and TLAPS proofs of
the properties that matter most. Paths below are relative to `src/src/neveran_gazzetta/`
unless they begin with another directory of the repository; SDS is
`docs/software-design-specification.md`.

## 1. Inventory

| Part | State it keeps | Operations | Talks to |
| --- | --- | --- | --- |
| Worker tick (`worker/runner.py`) | the lease and the renewer thread of one tick | `tick`, `_emergency_fallback`, `_generate`, `LeaseRenewer` | control plane (RPC), pipeline, telemetry |
| RPC adapter (`storage/supabase.py`) | one session token for all threads of the process, under a lock | one method per RPC; `submit_run` and `materialize` repeat once; `access_token` for the artwork store | control plane (HTTP), tick, renewer, API threads |
| Control plane (Supabase, another repository) | jobs, leases, runs, editions, publication cursor, editorial ledger | `lease_next`, `renew`, `submit`, `materialize`, `fail`, `publish_next` | both worker processes |
| Telemetry (`telemetry/monitor.py`) | a JSONL buffer file | `emit` | the Monitor (HTTP), the file of both processes |
| Planner and ledger (`generation/editorial_planner.py`, `storylines.py`) | storylines and issue numbers | `plan_edition`, `advance_storyline`, `_storyline_updates` | pipeline; the rows are written by `materialize` |
| Recurring entities (`generation/entities.py`, `validators.py`) | the register of people | `select_recurring_entities`, `_entity_updates`, `select_newsroom_bylines` | pipeline; the rows are written by `materialize` |
| Pipeline (`generation/pipeline.py`) | one `execute` | planner, writer, repair, verifier calls; validators; release checks; artwork | model client, retrieval, artwork |
| Artwork (`artwork/`) | a bucket of images | `load_existing`, `generate`, `persist`, `_prune_for_new_object` | image worker, Supabase Storage |
| Retrieval (`retrieval/`) | the palette of one edition | `active_release_id`, `retrieve_palette`, `build_lore_palette` | knowledge engine |
| Guardrails and validators (`generation/guardrails.py`, `validators.py`, `names.py`) | none | predicates and normalisation of text | pipeline |
| Model clients (`generation/codex_cli.py`, `cloudflare.py`, `groq.py`, `rate_limits.py`) | none | `complete_json` | a child process or HTTP |
| Schedule slots (`scheduling/slots.py`) | none | `first_slot_at_or_after`, `next_slot`, `due_slots` | nothing in the program |
| API, CLI, configuration, evaluation, scripts | none | `POST /v1/internal/tick`, read-only endpoints, offline tools | worker |

What makes it hard:

- *Two processes.* The timer's oneshot unit (every minute) and the API process both run
  ticks. They share the control plane, the telemetry file, the image bucket and, through the
  one environment file, the worker id.
- *Several threads of one process.* The tick, its lease renewer and the API's requests use one
  session; a 401 to any of them forgets the token of all.
- *Calls that get no answer.* An RPC may have been executed, may not, or may be executed later
  than its caller waits. Two RPCs are then repeated.
- *Leases.* A generation takes minutes; a thread renews the lease, one failed renewal ends the
  renewing, and nothing stops the generation meanwhile.
- *Kills.* systemd stops a tick after 15 minutes, at any step.
- *Things read early and used late.* The editorial state, the corpus release, the list of the
  bucket, the existence of the buffer file.
- *Rules over many editions.* A storyline appears four times and once more as an epilogue; a
  person rests between two appearances; bylines rotate.
- *Budgets and calendars.* A token budget shared among passages, slots across a change of
  the clock.

`PROJECT.json` lists every such place as a hazard with its line and the property that would
catch it, or why there is none.

What makes each part correct is what its properties say: one edition per job, published in
order, of a lease that was held (Worker); a session that is renewed once per expiry and waits
for nobody for ever (Session); a bounded buffer that loses only for a reason (Telemetry); the
stories the reader is promised (Editorial); rest and rotation of people (Newsroom); a verified
edition of one release with an image that exists (Pipeline, Artwork); no refusal for want of
lore that was there (Palette); slots of the calendar (Schedule).

## 2. The modules

```
Gazette   the promise to the readers, issue by issue
   ^ refinement (Promise == INSTANCE Gazette)
ControlPlane  <--EXTENDS--  Worker  <--  MCWorker, WorkerProofs  <--  LeaseProofs

Serial    the promise to the readers, story by story
   ^ refinement (PrintedStories == INSTANCE Serial)
Editorial        <--  MCEditorial, EditorialProofs

ArtworkStore  <--EXTENDS--  Pipeline  <--  MCPipeline, PipelineProofs
Session          <--  MCSession, SessionProofs
TelemetryBuffer  <--  MCTelemetryBuffer, TelemetryProofs
Newsroom, Palette, Schedule  <--  MCDesk, DeskProofs

Counting  <--  SessionProofs, EditorialProofs, PipelineProofs, DeskProofs
```

**ControlPlane** is external: its SQL is in another repository. Each RPC is one transaction,
hence one operator, taken from SDS 13-14, `tests/contract/test_supabase_migration.py` and
what the adapter sends and expects. A rejected RPC changes nothing. Where the adapter does not
tell (whether open jobs count towards the depth of the queue) both outcomes are allowed.
`lease_expires_at` and `available_at` are states of a row ("expired", "failed") and the steps
by which time reaches them.

**Worker** is `runner.py` with the adapter. `proc[p].pc` is the RPC the tick of process `p` is
about to make; every RPC is one action with all its outcomes: answered, rejected, unanswered
and executed, unanswered and not executed, executed later (`late`; the RPCs that can be are
`publish_next`, `lease_next`, `submit`, `materialize` and `fail`, the heartbeats changing nothing
modelled). A `lease_next` executed late leases a job to a process that does not know. What `tick`
does between two RPCs belongs to the action of the first. `renewer` is the `LeaseRenewer` thread:
`RenewalBreaks` is its one failed renewal, `Healthy` is `ensure_healthy`. Exceptions leave
where the code lets them: those of the first heartbeats and of `lease_next` end the tick,
those inside the `try` of `_generate` lead to `fail_job`. `slept` remembers that a process was
suspended beyond its lease, which is the one way in which two of them attend to one job.

**Gazette** says what the engine is for: an issue is composed at most once per job, issues
appear in the order of their numbers, none skipped, at most one per publication slot.

**Session** is the token of `SupabaseRpcClient` and the threads that use it. `Enter` is
`_authenticate` once it has `_auth_lock` (a thread keeps the lock while it signs in),
`RpcRefused` is the 401 of `_rpc`, which forgets the token without the lock, and
`StorageRefused` and `Refresh` are `_authenticated_request` of the artwork store, which forgets it
under the lock and asks a second time. A tick's thread makes all kinds of call, the others
the RPCs that are made once. What a thread does between two calls that wait for the network is
one step.

**TelemetryBuffer** is `emit`, with a step for each file operation and each batch posted.
Between processes nothing excludes anything; `write_text` truncates first and writes at close,
so a kill or a full disk can cut the file and two writers can interleave. A cut between two
characters leaves a line that the reader skips; a cut inside one (`file = "torn"`) makes
`read_text` raise at every emit from then on. `Splitting` are the events with a line separator
other than `\n` in their text, whose rows `splitlines()` breaks when they are read back.
`overlapped` remembers whether two emits ever ran at once: losses and disorder beyond those of
one process are tied to it.

**Editorial** is the memory from edition to edition: what `plan_edition` can draw (random
draws are choices), what `_materialize_events` makes of the model's answer, whether
`validate_event_set` and `advance_storyline` accept it, the rows `_storyline_updates`
computes and their writing by `materialize`, with runs abandoned and jobs out of order. An edition
keeps what its articles show of a storyline: the appearance (`shown`), the mode and the kind of
slot (`voice`).
`Generators` are the ticks that may generate at a time.

**Serial** knows issues only: what is printed as the n-th part of a story is its n-th part, parts
keep their distance except for the epilogue, and an issue opens and continues only so many. It
has no status, no count, no date to return at. Editorial implements it with `editions` as the issues.

**Newsroom** is the register of people: whom `select_recurring_entities` may offer to the planner,
whom events name, who signs (`select_newsroom_bylines`), and the rows `_entity_updates` makes of
them, `recurring` included. The draft of an issue keeps the rows as they were at its start.
`Retire` and `Forget` are `maintain_retention`, which the worker calls after each edition: by SDS
12.9 it retires recurring non-journalists after `KeepRecurring` issues and non-recurring people
after `KeepNonrecurring`, of whom it may delete those who are no journalists. Its SQL is not here,
so both may happen at any time, also while a generation holds the old rows.

**Palette** is `_build_evidence` and `build_lore_palette`: passages in order of rank, the first of
every document before the others, each cut at its share of the budget, the last to what is left; then
the verdict. **Schedule** is `slots.py` on a calendar of wall times and instants with one change
of the clock in each direction, resolved by `fold` as `zoneinfo` does.

**ArtworkStore** is the image of an edition: the lookup, the image worker with its retry, the
listing, the pruning, the upload and the lookup after a refused upload. Each HTTP request is a
step and may be executed although it failed. `ImageAnswers` is what the client tells apart of
the image worker's answers.

**Pipeline** is `execute`, as two processes run it at the same time: the release read at the
start, the palette, the calls with the retry of `_call` (for each of the two providers
`build_live_runtime` knows), the draft, validators, repair with its fallback to the draft's
paragraphs, the verifier, the limits, the image through ArtworkStore, and the release again. An
edition is the set of its paragraphs that are too short and of those with text that is not
allowed; what is too long is cut when the edition is materialized and cannot fail a validator.

The `map` of `PROJECT.json` gives the lines each definition stands for. Operators preceded by
"Mutant" are faulty variants of the definition below them; substituted for it, each makes a
property fail.

## 3. The runs

| Run | What it asks | Bounds |
| --- | --- | --- |
| worker_hostile | no second edition of a job, publication in order, no false success, a success is final, Gazette is implemented, with one shared worker id | 2 processes, 2 jobs, 2 attempts, 2 slots, 3 faults, 1 late call, suspended processes |
| worker_fenced | with an id per process and no late call no content of a lost lease is published, no job is failed by a process that lost it, and two processes work on one job only after one slept | the same with 3 attempts |
| worker_live | a due slot is served, a lease left behind is taken over | 3 jobs, 1 publication slot, 1 fault, 1 late call |
| worker_shared_content | violated: content of one attempt is submitted under the lease of the next | 3 attempts, 1 fault |
| session | refusals and sign-ins bounded by the expiries, no second try with an old token, every call ends | 3 threads, 1 of them storing, 2 expired tokens, 1 other failure |
| telemetry | bounded, lost for a stated reason only, in order, every emit ends | 2 processes, 5 events of which one splits, buffer of 2, batches of 2 |
| telemetry_failopen | violated: an emit raises into the tick | 1 process, 5 events, buffer of 2 |
| editorial | Serial is implemented; fakes, one voice, duplicates, no plan refused afterwards | 4 editions, 3 slots, 2 fingerprints, closing at 3 |
| editorial_prompt | violated: closed storylines go into the prompt | the same |
| desk | people rest, the register is the history but for what was forgotten by rule, bylines rotate; enough lore is never refused; slots are those of the calendar | 4 issues, a core of 6 names, a guest and one who is no journalist, retention after 2 issues and after 1, every palette of up to 4 passages of 2 documents (budget 7, 3 needed), 8 days with both changes of the clock |
| pipeline | what is returned was verified as it is, of one release, within the calls, with an image that is there | 2 processes, 4 generations, 2 releases changed twice, bucket of 2, 4 images |
| artwork_failsoft | violated: an error of the Supabase session fails the edition | 1 process, 2 generations |

Why the bounds are enough. Worker's interesting cases need two leases of one job (2 attempts),
two editions in the queue (2 jobs; a third for the emergency generation) and a fault for each
of: an answer lost, the repetition lost, the end of the tick. Overdue slots need 2 publication
slots. A token that is forgotten by mistake needs two threads that hold an old one while a third
has a new one, hence 3 threads and 2 expiries. The telemetry file overflows at its third row, and
five events let either process find, cut, tear and remove the rows of the other; the third is the
one that splits, so that others wait before and after it. In Editorial a storyline
lives through its first appearance, a continuation, the closing one and an epilogue in 4 editions when
it closes at 3 instead of 4; `FinalAppearance` is a constant. The three slots are one that excludes
satire and two that do not; that no later part leads is exercised by the proof only, because no slot
of the instance is a lead. Six names go round in three issues; four issues, a cooldown of one and
retention after one or two leave room for a rest and a return, and for a row that is deleted, begun
anew and written over by a run that had read the old one. A palette needs three passages of two documents, so a
fourth can be too long, unsafe or out of turn. Eight days with a cadence of two put a slot before,
on and after the days of both changes; every hour of the day is tried as the publication hour. The
bucket of Pipeline is full after two generations and pruned by the third and the fourth, and the
release can change and change back. Liveness of Worker uses its own smaller instance, because
fairness multiplies the work.

Symmetry (processes, keys, releases) is used in `pipeline` only, which has no liveness.
Deadlock is checked in the worker runs and in `session` (that threads waiting for one lock do not
all stop is a question there); the other models stop at their bounds.

**Fairness.** `Worker!Fairness`: every call returns or times out (httpx and subprocess
timeouts), so a tick that has begun goes on; systemd starts the timer's unit every minute
whatever became of the last; leases lapse and backoffs end with the clock. Nothing is assumed
of the API's process starting ticks, of the publication clock or of late calls.
`TelemetryBuffer!FairSpec`: a POST or a file operation returns. `Session!FairSpec`: a request or
a sign-in returns, for each thread by itself; `threading.Lock` is not fair, so nothing is assumed of
who gets the lock next. That a call still ends needs no strong fairness: a thread that holds the
lock gives it back with a token that all who wait may use. There is no strong fairness anywhere.
Faults and expiries are finitely many by bound, which is what "once faults stop" means in the
liveness properties. Fairness is of a thread's or tick's next step as a whole: whether a call is
answered or fails is never promised, and a generation fails only as often as faults are left.

## 4. What is proved

Every safety property that a passing run checks, as an invariant, an action property or a
refinement, is also a theorem for any value of the constants. They rest on the assumptions the
modules state on their constants and nothing else, except where a hypothesis is named:

| Hypothesis | Of | Because |
| --- | --- | --- |
| `DistinctIdentities`: no two processes state one worker id | `ContentOfItsLease` | without it it is false (`worker_shared_content`) |
| `[]NoLateLease`: no `lease_next` is executed after its caller gave it up | `ContentOfItsLease` | with one it is false: a process is suspended beyond its lease, a `lease_next` of an earlier tick of its own is then executed and leases the job to it as the next attempt, and when it wakes it submits the content of the attempt before |
| `Fenced`: distinct identities, and `MaxLate = 0` | `SubmissionExclusive` and `FailuresOwn` | with one late call they are false: a `fail_job` executed late takes the lease its process was handed since |
| `OneAtATime`: one generator | `StorylinesDistinct` and `Refinement` of `EditorialProofs` | the rows of a generation are computed from the ledger read at its start; that a second one is excluded is the control plane's doing, which is not in this repository |
| `MaxNormalCalls >= 3` | `CallsStayBounded` | the configuration accepts 1 to 3; with less every edition would be made, counted and then refused |

`LostOnlyForAReason` and `DeliveredInOrder` carry their own condition, `overlapped`, the former also
a torn file and the rows that split; `NewestKept` and `ImageServed` carry theirs, `Once`.

Assumptions that go beyond types and are not demanded by a validator are four, all true of the
configuration as shipped: a palette has a token for every chunk it needs and needs no more documents
than chunks; the hour skipped in spring and the one after it belong to one day
(`ScheduleAssumption`; in Europe it is 02:00); deliberate fakes have a weight in minor and brief
slots only (`EditorialAssumption`; `config/editorial_policy.yaml`); no name is twice in the newsroom
(`NewsroomAssumption`, `IsInjective`). The others are ranges of `config.py` (at least six
names in the newsroom, 2 to 5 bylines, at most 2 new storylines) or finiteness.

**Induction.** The provers cannot use an induction rule. `Counting.tla` replaces it by the existence
of smallest elements: a nonempty set of numbers has a least one (`LeastNumber`), a nonempty family
of finite sets has a member that contains no other (`SmallestSubset`). A claim about all numbers is
proved by looking at the least number of which it is false. On these rest what the sums and folds of
the modules compute (`SumIsUnits`: a sum is the number of pairs of an index and a unit, so that sums
are compared as cardinalities), that a recursion over the numbers has a solution (`Recursion`), and
the uniqueness of quotients (`Quotient`).

`WorkerProofs.tla`: `TypeCorrect`, `OneEdition`, `PublishedInOrder`, `DurableMaterialization`
(invariants `TypeOK`, `OneEditionPerJob`, `ArchiveInOrder`, `MaterializedIsDurable`), `SuccessKept`
(`SuccessIsFinal`) and `Refinement` (`ImplementsGazette`), for any set of processes, worker ids,
numbers of attempts, jobs, slots and faults.

None of the safety properties is inductive alone. The invariant `WInv` has two layers. The lower
one, `CPInv`, speaks of the control plane only and is kept by every RPC whoever calls it: no slot at
or after the cursor has a job (`CursorFresh`, so that creating one resets none), a leased job has
been counted an attempt (`LeasesCounted`), an edition's job has succeeded (`EditionsClosed`), with
`OneEditionPerJob` and `ArchiveInOrder`. `EditionsClosed` is what excludes the second edition:
`materialize` needs a lease, and a job with an edition is not leased any more. The upper one adds
that a tick past the lease knows its job and attempt (`LocalOK`) and `MaterializedIsDurable`. A late
call is executed by nobody: it preserves the lower layer like any RPC and touches no tick. The
actions of a tick are each proved to be a step of the control plane (or none) and a change of one
process (`LocalStep`), and the two layers meet in `EveryStep`. The refinement maps the archive to
the jobs of the editions in the order of their numbers and `lastSlot` to `nextDue - 1`;
`materialize` is Compose, `publish_next` is Appear, the clock is SlotPasses and every other step
stutters.

`LeaseProofs.tla`: `ContentOfItsLease` (`LeasedContent`) under `DistinctIdentities` and
`NoLateLease`, whatever else is executed late. Its invariant `CInv` says that a live lease in a process's name is the one its tick
was handed (`HeldAsHanded`) and that the run a tick materializes, or has left a call to materialize,
holds the content of its own attempt (`NamedTrue`). A late `submit_run` may well file the content of
an earlier lease under the present one, but the process then has other content to submit and is
refused, and content once filed stays (`RunsSettle`). `SubmissionExclusive` (`ExclusiveSubmission`)
and `FailuresOwn` (`NoStaleFailure`) need `Fenced`. Their invariant `LInv` ties the attempt a tick
remembers to that of its job. Attempts of one job are all different (`AttemptsApart`) and not in the
future (`AttemptsPast`); with `HeldAsHanded`, a tick that has not slept and still
renews, or has passed the second health check, has its lease or finds the job done
(`EngagedSecured`). For the others' steps one lemma per RPC shows `Undisturbed`: a call by one
process hands another no lease and takes none from one that is awake.

`SessionProofs.tla`, for any finite set of threads: `RetryIsFresh` (`SecondTryIsFresh`),
`RefusalsFew` (`RefusalsBounded`), `SignInsFew` (`SignInsOwed`) and `TypeCorrect` (`TypeOK`).
`TriedAgain` says of a call that was refused once that the session is either empty or holds a token
issued after the call began; it is kept by the others' forgetting, which only empties the session,
and by their sign-ins, which number tokens upwards. `Costs` keeps the account of refusals: there is
a token up to which a thread has paid for every expired one and meets none of them again, or, after
a second refusal by Storage, one it was left with and has paid once (`Settled`). `SignInsPaid` keeps
that of sign-ins: each refusal is good for one, the one to come or the one that made the token in
the session necessary; threads about to forget (`Forgetting`) still hold theirs.

`TelemetryProofs.tla`: `TelemetryTypes` (`TypeOK`), `BufferStaysBounded` (`BufferBounded`),
`LostForAReason` (`LostOnlyForAReason`) and `OrderKept` (`DeliveredInOrder`). The bound alone is not
inductive, because a process that has truncated the file will append to whatever others wrote since.
`RoomLeft` says that the file holds at most `MaxBuffer` rows for each process that is not about to
write: opening truncates, so whoever is about to write has made room for itself. The other two speak
of processes that take turns. `Fine` says what an emit under way and the file then make together:
the rows and the hand are in order, everything in them is later than what was delivered (`File`,
`Turn`), and every event is delivered, in the file, in hand, forfeited or older than the last
`MaxBuffer` (`Kept`), the rows that split excepted; a torn file is left for good, because whoever
reads it raises. `Solo` says that it holds of each process while the others are idle.

`EditorialProofs.tla`, for every layout of slots and policy of modes and any number of generations
that overlap, though the run has one: `FakesAlone` (`FakesStandAlone`), `OneVoiceKept` (`OneVoice`),
`TypeCorrect` (`TypeOK`) and `PlansGranted` (`NothingRefused`). `FInv` says that no row, in the
ledger or waiting in a run, is a fake; the first fake drawn in slot order then excludes a second.
For one voice, the editions are tied to the ledger and the ledger to the runs that wait: `Heard` says
that whatever an edition printed of a storyline is in the mode of its row, `InVoice` that what a run
would print is in the mode of the row it would write, which for a storyline that exists is that of
the ledger, and `Dated` that a storyline opened by a run is named after its job, so that no other
job writes it. `Lowered` is what follows of the slots of later parts. Under `OneAtATime`: `StorylinesDistinct` (`DistinctStorylines`) and `Refinement`
(`ImplementsSerial`), with `Merged`, the ledger as the waiting run will make it, and `Tells`, which
says that a row's count is the number of issues its story was told in and its date of return lies
after all of them. `Execute` prints nothing, `materialize` is the issue of Serial.

`PipelineProofs.tla`: `ReturnedAsVerified` (`VerifiedAsWritten`), `CallsStayBounded`
(`CallsBounded`), `ReleaseKept` (`OneRelease`) and `RepairKeepsLength` (`RepairKeeps`), for any
processes, releases, changes of them and paragraphs. `Progress` ties the place an execute has
reached to what it has called, written, validated and verified, `OfOneRelease` the palette's release
to that of the plan. None of it depends on the artwork, whose steps leave the executes alone. Of the
artwork: `BucketStaysBounded` (`BucketBounded`), `NewestStayKept` (`NewestKept`) and `ImageIsServed`
(`ImageServed`), and `TypeCorrect` (`TypeOK`) of both. `Room` says that whatever part of the
removals under way comes first, what is left has room for the uploads under way; the bound alone
says nothing of a process that has listed but not removed. `Ages` says that the bucket is in the
order of the uploads and that what a process listed to remove was among the oldest then, so that it
is at least as old when it goes.

`DeskProofs.tla`, of `NewsSpec`, `PalSpec` and `SlotsSpec`, the three parts each by itself.
Newsroom: `PeopleRest` (`CooldownKept`), `RegisterTrue` (`RegisterIsHistory`) and `BylinesTurn`
(`BylinesRotate`). `Recorded` says of each person what his row must say of the issues he is in
(`Chronicle`), and of what no row tells that it was forgotten by the rule of the retention
(`Forgiven`). `Drafted` says the same of the rows a draft holds, by the issues and not by the
register, so that it survives whatever retention does to the register before they are written. The rotation is arithmetic: the
bylines of an issue are a window of the names that starts where the last one ended, modulo their
number, and two windows that meet are compared by their quotients. Palette: `GroundingIsFair`
(`GroundingFair`). `SoFar` says that the evidence is, passage by passage, what was safe among those
looked at, none longer than its share. When the tokens are spent, as many shares as are needed were;
before every document had its turn no document was taken twice, and afterwards every safe best
passage is among those taken. Schedule: `SlotsFollowCalendar` (`SlotsOfCalendar`). The wall clock at
the instant of a wall time shows that time, or one `Shift` later of the same day (`WallOfInstant`,
`SameDay`); the slots due are a chain of `NextSlot` that is maximal (`Chain`).

Only model-checked: liveness (`DueSlotServed`, `LeaseRecovered`, `CallEnds`, `EmitEnds`), which is
out of the prover's reach. What of the models rests on their bounds is therefore that things happen
at all, not that what happens is right.

## 5. Findings

Four runs end in a violation that disagrees with a document of the repository; `PROJECT.json`
quotes it.

1. *Content under another's lease.* `submit_gazzetta_run` and `fail_gazzetta_job` are not told
   the attempt, and both units use one worker id. In the run the renewer of process A breaks, its
   lease lapses and B leases the job as attempt 2. `ensure_healthy` stops A, but A's `fail_job`
   fails the lease B is working under; A leases the job again as attempt 3, and B submits the
   content of attempt 2 under it. The edition is still one and still valid; SDS 13.4 says it cannot
   happen. With an id per process it does not (`worker_fenced`), a late `lease_next` excepted (4.).
2. *Telemetry that is not fail-open.* `_read_buffer` is outside the `try` of `emit`, and rows are
   written with their accents as UTF-8: a kill or a full disk inside a character leaves a file that
   `read_text` refuses, at the next emit and at every later one, each of which ends its tick. Also
   there, with two processes: the file can vanish between `exists()` and `read_text()`, or be read
   while it is being written.
3. *Closed storylines in the prompt.* `_planner_payload` sends all the storylines.
4. *An image that costs the edition.* The token of the Supabase session is asked for outside
   the `try` that turns storage errors into a fallback.

Also noticed, without a run of their own:

- the bucket may hold one image more than `max_stored_images` for every further process
  (`BucketBounded` states what holds); an image uploaded twice may be pruned by an older list
  (`NewestKept` excepts it);
- after a second 401 the artwork store leaves the refused token in the session, which costs
  the next caller a refusal (`RefusalsBounded` counts it);
- the verifier's `repairable` is treated as `reject`, while SDS 10.2 has it list defects to repair;
  SDS 10.3 limits an edition to 35,000 tokens and `config/default.yaml` to 90,000; with the codex
  provider no call is ever repeated, because its cooldown exceeds `max_rate_limit_wait_seconds`;
- `config.py` accepts `max_normal_calls` 1 to 3, and fewer than 3 fail every edition after its
  calls; it demands neither `min_documents <= min_chunks` nor a token budget of at least one token per chunk,
  which the default values (3, 4, 1200) fulfil and the palette needs;
- a document whose best passage is unsafe loses its turn and may be left out though a later passage
  of it is safe (`Sufficient` excepts it);
- bylines ignore the cooldown that SDS 8.6 gives people; with four names an issue or fewer nobody
  signs three in a row (`BylinesRotate`);
- retirement of a person during a generation is undone by the row the run has kept, and so is a
  deletion; somebody who returns after a deletion begins at one appearance;
- an event with U+0085, U+2028 or U+2029 in its text is lost if it has to wait in the buffer:
  `json.dumps` leaves them as they are and `splitlines()` breaks the row;
- a publication hour that does not exist on the day of the change in spring is moved by one hour,
  and `next_slot` goes on from the moved hour for good; one that comes twice in autumn may give a
  first slot before the given instant. `Regular` excepts both. Nothing in the program calls `slots.py`.

## 6. Not modelled

- Text: predicates, normalisation, prompts, schemas, spellings of names, weights of
  random draws. Their verdicts are choices.
- Real time and token counts of calls: a timeout, an expiry and a spent budget are possible steps.
- The shrinking of `max_tokens` when a request is too large for the rate limit: a retry is a retry.
- The events `emit` sends during a tick: Worker has the exceptions they may raise as faults.
- `queue_status` and the administrative RPCs: called under `suppress`, or by other programs, and
  nothing here reads what they change. Of `maintain_retention` only what it does to the register of
  people (Newsroom): published editions stay for good, and storylines are compacted, not deleted,
  after 180 days (SDS 12.9).
- A lone surrogate in an event, which `write_text` could not encode: nothing the tick puts into an
  event was found to yield one.
- Two generations on one editorial state: the rows of the second overwrite those of the first
  unless the control plane refuses them, which this repository does not show. `editorial` is
  checked for one generation at a time; of what `EditorialProofs` proves, fakes, voices, types and
  plans hold for any number, distinct storylines and the refinement for one.
- Loss of telemetry when two emits overlap: it happens, and is promised nowhere.
- The search in the knowledge engine, the wording of queries and the sampling of settlement
  names: another package, and text.
- `config.py`: parsing and validation before any state exists. Its values are the constants of
  the modules and its ranges their assumptions.
- CLI and read-only endpoints, the evaluation tools and `scripts/`: they keep no state or only
  read; the API's tick is a process of Worker.
- `groq.py`: `build_live_runtime` does not build it.
- The stateless image worker beyond its four kinds of answer.

## 7. Plan

Done, in this order: the control plane and the tick with their abstract specification and
proofs; telemetry; the editorial ledger; the image store and the pipeline; the session; the stories
promised to the reader; people, palette and slots; the proofs of all safety properties, those of
the lease, the ledger of stories, the bucket, the buffer, the palette and the calendar among them.

Next:

1. An abstract specification of an at-least-once channel for telemetry, and the proof that
   TelemetryBuffer implements it for processes that take turns.
2. The arithmetic of `_call` on a request too large for the rate limit
   (`generation/pipeline.py`, lines 660-669).
