# Verification of VideoForge

VideoForge turns a topic into a published short video through a pipeline of
stages (research, script, scene set, prompts, images and voice, timeline,
render, captions, thumbnail, package). Each stage generates an *artifact
version* with an AI provider or a renderer, and a human approves, rejects or
edits it before the next stage may start.

This directory holds TLA+ models of that program, the TLC configurations that
check them on small instances, and proofs checked by TLAPS.

## 1. Inventory

Source roots, abbreviated below: `domain` = `src/packages/domain/src/videoforge_domain`,
`persistence` = `src/packages/persistence/src/videoforge_persistence`,
`backend` = `src/apps/backend/src/videoforge`, `workers` = `src/apps/workers/src/videoforge_workers`.

| Component | State it keeps | Operations | Talks to |
|---|---|---|---|
| Lifecycle tables (`domain/artifact_lifecycle.py`, `job_lifecycle.py`) | none (two constant tables) | `apply_event`, `apply_job_event` | everything that moves an artifact or a job |
| Pipeline graph and phases (`domain/pipeline.py`, `phases.py`) | none (an immutable graph) | topological order, `descendants`, `unmet`, `derive_phase` | admission, projection |
| Job service (`backend/services/jobs.py`, `dispatch.py`, routes in `backend/api/projects.py`) | an in-memory list of messages to send after the commit | `request`, `request_series_job`, `dispatch_pending`, `release`, `cancel` | job and artifact tables, the Celery broker |
| Admission (`backend/services/admission.py`) | none | `check_admission`, `resolve_branding` | status view, branding tables |
| Review service (`backend/services/review.py`) | `review_decision` rows | `approve`, `approve_many`, `reject`, `edit`, `comment` | artifact rows, pointers, projection |
| Repositories (`persistence/repositories`, `models`, `sql.py`) | Postgres tables; the view `artifact_version_status` | `reserve`, `claim`, `mark_succeeded`, `mark_failed`, `add_version`, `mark_stale`, `set_active_pointer`, `pin_branding`, ... | Postgres at READ COMMITTED |
| Projection (`persistence/projection.py`) | caches `video_project.phase` and `artifact.stale_since` | `refresh_project_state` | called by every transition |
| Worker skeleton (`workers/skeleton.py`, `celery_app.py`) | one task in flight per process | `run_job`: claim, body and completion, failure | broker, job and artifact tables |
| Stage completion (`workers/stages.py`) | none | `complete_generation`, auto-approval, `require_budget` | versions, usage rows, projection |
| Scene fan-outs (`workers/images.py`, `prompts_stage.py`, `scenes.py`) | one artifact per scene | `images_body`, `prompts_body`, ... | as above, many artifacts in one job |
| Branding (`persistence/repositories/branding.py`, `backend/api/series.py`, `workers/references.py`) | character and style versions, the project's pin | add, approve, pin | series jobs, admission |
| Outbox (`persistence/repositories/audit.py`, `workers/outbox.py`) | `outbox_event` rows | `enqueue`, `drain_once` | Redis pub/sub |
| Budget (`domain/budget.py`, `persistence/repositories/jobs.py` usage) | `provider_usage` rows | `check_budget`, `spend_today` | every provider call |
| Narration, captions, timeline compiler (`workers/voice.py`, `domain/timing.py`, `captions.py`, `src/packages/timeline`) | none (pure) | `words_from_characters`, `scene_spans`, `group_into_cues`, `compile_timeline` | voice, timeline and caption stages |
| From the script to the package (`workers/scenes.py`, `timeline_stage.py`, `render_stage.py`, `caption.py`, `thumbnail.py`, `package_stage.py`) | none; each run pins the versions it was built from | one body per stage: lookups of approved versions, work, one completion | versions and their view, object storage |
| Schema (`persistence/models`, `sql.py`, `columns.py`, `database/migrations`) | the Postgres catalogue | thirteen revisions up and down; cascades, checks, append-only triggers | every table |
| Providers, prompts, HTTP surface, settings and storage, frontend, seed | files and objects | I/O, templates, validation | see section 7 |

### What is hard here

* **Transactions that read early and write late.** Postgres runs READ
  COMMITTED, the ORM loads a row once per session and issues an unconditional
  `UPDATE ... WHERE id = ...` at commit for each column that changed. Whatever
  another transaction commits in between is invisible and overwritten. Only
  the three guarded job updates (`claim`, `mark_succeeded`, `mark_failed`),
  `add_version`'s counter, `pin_branding` and the JSON merge of the pointers
  are computed by the database.
* **At-least-once delivery.** `acks_late` and the one-hour visibility timeout
  hand a message out again while its first delivery may still be running.
* **Crashes between transactions.** A worker runs a job in three
  transactions, the API publishes after it committed.
* **Humans race workers.** Approve, reject, edit, release and regenerate may
  all land while a worker is generating, from two browser tabs.
* **Long transactions over many rows.** A fan-out draws twenty pictures in one
  transaction; what it wrote is invisible, and locked, until it commits.
* **Reads minutes apart.** A stage body looks up one approved version after
  another with a provider call in between, while all of them may change.
* **Deletes meet append-only tables.** Triggers that refuse updates and
  foreign keys that update on delete are written in different migrations.
* **Derived caches.** The phase, the staleness marks and the active pointers
  are computed from other rows by whoever commits last.

`PROJECT.json` lists each hazard at the line where it bites, with the
properties that would catch it.

## 2. Modules

| Module | What it is |
|---|---|
| `Lifecycles` | the two transition tables, `MayApply`/`Target` and `MayApplyJob`/`JobTarget` |
| `VersionLog` | abstract specification: an artifact's history as its readers see it |
| `Generation` | the job protocol: requests, releases, reviews and edits as API transactions, the broker, the workers |
| `MCGeneration` | symmetry sets for the runs of `Generation` |
| `GenerationProofs` | theorems about `Generation`, checked by TLAPS |
| `Pipeline` | the pipeline graph and `derive_phase` as pure operators |
| `PipelineLoader` | the loops behind them: checking and ordering a pipeline file, collecting descendants |
| `MCPipelineLoader` | the files and graphs the loader is run on |
| `Review` | decisions, pointers, staleness and phase under concurrent transactions |
| `MCReview` | shortened pipelines for the runs of `Review` |
| `ReviewProofs` | theorems about `Review`, checked by TLAPS |
| `Narration` | one synthesis: characters into words, words into the scenes' spans |
| `Captions` | words into caption cues: the greedy loop and the repair of lone words |
| `Timeline` | the compiler over both, and the schema's validators |
| `MCTimeline` | short scripts and timings for the run of `Timeline` |
| `TimelineProofs` | theorems about `Timeline`, checked by TLAPS |
| `Fanout`, `MCFanout` | one job, many artifacts: image and prompt stages over a scene set, with the budget |
| `Branding`, `MCBranding` | versions of a series' character and style, reference sheets, the pin of an episode |
| `BrandingProofs` | theorems about `Branding`, checked by TLAPS |
| `EventChannel` | abstract specification: what the outbox promises its consumers |
| `Outbox`, `MCOutbox` | transactions that write events, the drain that publishes them |
| `OutboxProofs` | theorems about `Outbox`, checked by TLAPS |
| `Delivery`, `MCDelivery` | what each stage from the script to the package reads, when, and what it pins |
| `FanoutProofs` | theorems about `Fanout`, checked by TLAPS |
| `DeliveryProofs` | theorems about `Delivery`, checked by TLAPS |
| `Catalog` | tables, foreign keys, keys, checks, triggers and enum types as values |
| `Models` | what the ORM declares, one definition per mapped class |
| `Migrations` | the Alembic chain: what each revision's upgrade and downgrade do to the catalogue |
| `Schema`, `MCSchema` | a database that is migrated, written to and erased from |
| `FoundationProofs` | theorems about `PipelineLoader` and `Schema`: what stands before the first request is served |

`Generation` and `Review` look at the same transactions from two sides.
`Generation` has the whole life of a job (dispatch, delivery, claim, release,
kill) and of one artifact only its state and its versions. `Review` has what
one operation does to a project of several artifacts, and of a job only the
idempotency key it holds. `Fanout` and `Delivery` take each API transaction as
one step: the first is about the body of one job that writes many artifacts,
the second about a chain of bodies that read each other's results.

### Generation

State. `state`, `current_version_no`, `version` are the artifact and
artifact_version tables; `status`, `artifact_id`, `from_version_no` the
generation_job table (`from_version_no` is the part of the idempotency key that
varies: the key is `task:artifact:v{n}` and the task is a function of the
artifact's kind); `pending` is `JobService._pending`; `broker` the messages
Redis may still deliver; `run` what each worker process is doing; `txn` what
each API transaction has read so far.

Transactions. A read-then-write transaction is two or three actions: the one
that loads the rows and the one that commits. `WriteState` is the ORM's rule
(write the column only if the session changed it, and write it blindly);
`AddVersion`, `Claim`, `BodyCommit` and `FailCommit` use the current row where
the code uses a guarded or computed UPDATE. `Locked` is the row lock a failure
transaction takes when `mark_failed` runs before `_fail_artifact` reads.

| Action | Code |
|---|---|
| `RequestBegin`, `RequestCreates`, `RequestWritesNothing` | `JobService.request` and `JobRepository.reserve` |
| `Dispatch`, `DispatchFails`, `LoseMessage` | `dispatch_pending`, `CeleryDispatcher.send`, the broker |
| `ReleaseBegin`, `ReleaseFindsJob`, `ReleaseCommit` | `release_artifact`, `JobService.release`, `cancel` |
| `ReviewBegin`, `DecisionCommit`, `EditCommit` | `ReviewService.approve`, `reject`, `edit`, as far as they move the artifact row |
| `Claim` | `JobRepository.claim`, first transaction of `run_job` |
| `BodyBegin`, `BodyCommit`, `BodyRaises` | second transaction: `load_artifact`, `complete_generation`, `_finalise`, `_maybe_auto_approve`, `mark_succeeded` |
| `FailBegin`, `FailCommit` | third transaction: `mark_failed`, `_fail_artifact` |
| `Die` | a kill, the hard time limit, a lost connection |

A soft time limit raises inside the body and is a `BodyRaises`. A deadlock that
Postgres resolves (the failure transaction locks job then artifact, a release
artifact then job) aborts one transaction: on the worker's side that is a
`Die`; on the API's side nothing was written and the request may be repeated.

### VersionLog

The promise: the history of an artifact only grows, one version at a time; a
job adds at most one version and none once it is over; humans may add versions
at any time. `Generation!History` maps versions to the log and the dead or
succeeded jobs to `over`. That work finished after a release is thrown away,
that redelivery does not duplicate, that a killed worker leaves nothing behind
are all consequences of this refinement.

### Pipeline and PipelineLoader

`Pipeline` defines dependents, descendants (the least set closed under
dependents), unmet requirements, cycles, the collapse of scene artifacts to the
least advanced and `DerivePhase`. `Review` is built on these definitions.
`PipelineLoader` is the code: `Refuse` and `Accept` are the checks of
`Pipeline.from_mapping` on a file of stages (`rows`); `Collect`, `NameCycle`,
`Place`, `Subtract` and `Finish` are Kahn's loop in `_topological_order`, one
batch in sorted order at a time; `Ask` and `Visit` are the worklist of
`descendants`. The queue, the phase names and the syntax of a stage are left
out. Its properties compare what the loops compute with `Pipeline`'s
definitions.

### Review

State. `state`, `stale`, `current_version_no` are the artifact rows (`ABSENT`
before the first request creates one); `latest_decision` is the first CTE of
the view `artifact_version_status`, and `ApprovedVersion`, `VersionStatus` the
rest of it; `active_pointers` and `phase` are the project row; `live` and
`queued` the idempotency keys of jobs that hold one and of jobs that have still
to finish; `approved_since` (for each artifact a human has approved, what humans
approved after its last approval) is history and guards nothing.

Transactions. Each is three actions, because each reads at two times and writes
at a third:

| Step | Actions | Code |
|---|---|---|
| begin | `BeginReview`, `BeginEdit`, `BeginRequest`, `BeginGenerate`, `BeginFail` | the rows loaded and the conditions checked by `_load`, `apply_event`, `check_admission`, `require_approved_content` |
| refresh | `Refresh` | the first UPDATEs (`clear_stale`, `add_version`, `set_active_pointer`), which take row locks, and the reads of `refresh_project_state` |
| commit | `Approve`, `Reject`, `Edit`, `Request`, `Generate`, `Fail`, or `Abort` | the flush at commit |

The ORM reads a row once per session, so `rows`, `seen` and `phase` of an open
transaction keep what it read first, and `Refresh` adds only rows it has not
read. `Flush` writes the state and the phase only where they differ from what
the session read, whatever the row holds by then. `MayLock` makes an UPDATE
wait for a lock another transaction took in its refresh; locks taken at commit
are released by it at once. A deadlock that Postgres breaks is an `Abort`. A
decision carries the start of its transaction (`decided_at` defaults to
`now()`), and the view orders decisions by it, which is why `Record` may leave
the log's newest decision as it was.

Left out: releases and kills (`Generation`), `approve_many` (in `Fanout`),
comments and audit rows, branding. The locks `mark_stale`
takes are taken with the commit.

### Narration, Captions and Timeline

One project from the provider's answer to the accepted timeline. `Narration`
keeps the loop variables of `words_from_characters` (`heard`, `words`, `open`
for `current`/`start`/`offset`, `reached` for the running `end`) and of
`scene_spans` (`spans`, `cursor`): `HearSpace`, `Hear` and `EndOfAnswer` are one
turn of the first loop and its exit, `AssignScene` one turn of the second,
`StoreNarration` the check for scenes without words. A character may start
before the previous one ended, end before it starts, or be missing with all
that follow. `reached` is not reset between words, as in the code.

`Captions` is `group_into_cues` as operators: `TakeWord` is one turn of its
loop and `Taken` the loop, `Repair` one turn of `_absorb_orphans` and `Repaired`
its loop. `Timeline` adds the compiler:
`ByStart`, `Empty` and `Overlapping` are `_ordered`; `Gap`, `Boundary`, `Blend`,
`Lead`, `Trail` and `Clips` the arithmetic of `_plan_clips`; `Handovers` and
`CaptionsOf` the transitions and the cues; `Accepted` the validators of the
pydantic schema, which judge the compiler's own output. `Compile` is
`compile_body` with a frame for every scene; `NoFrame` is its refusal without.

Left out: storage keys, the audio track (one, of constant gain, only its length
matters), options with no effect on the properties (`caption_cards`, frame
size), the caption's text (it is the words joined by spaces). Rounding to
milliseconds shows as lengths of zero. A scene with no span, a span of an
unknown scene and a stale scene set cannot arise with one narration and one
scene set; they belong to `Delivery`.

### Fanout

State. A slot is a scene's artifact or the project-wide one a whole-set job was
asked for (`Trigger`). `state`, `current_version_no`, `version`, `job` are the
tables; `usage` the committed usage rows, one per paid call, with their day;
`setup` what a deployment fixes (which stage, its approval policy, the daily
limit); `approved_set` which of `SceneSets` is approved, where a scene set is a
set of scenes and `SceneIndex` the column `for_approved_set` orders by; `refused`
is history and guards nothing. `run` is a worker's place in `run_job` and in the
loop over the scenes: `todo` the scenes still to do, `scene` the loop's variable,
`wrote` what its open transaction has given a version. `Calls` are those of them
that were paid for.

Transactions. The body is one transaction: `Holds` are the artifact rows it has
locked, and nothing it writes reaches the tables before `Commit`. `Find` looks a
scene's artifact up, `Insert` or the `GENERATING` of `Draw` writes it, and waits for
whoever holds it. `BudgetAllows` is `require_budget`: committed usage of the day
the transaction began, plus its own that is flushed.

The project row. Every completion recomputes the phase (`refresh_project_state`).
If it moved, the row of the project is written at the next flush and locked until
the transaction ends: `project` is clean, then dirty (`Refreshed`), then held
(`Flushed`, or `Flush` once the run that held it is over). `images_body` flushes
after each scene, `prompts_body` with the next version or inserted row. Whether a
completion moves the phase is a free choice (`moves`), but for the manifest of an
auto-approved stage, which sets the project's pointer (`Points`): the phase depends
on every stage of the project and on what the session has read of it. A run before
whose first completion another stage ended writes it, one that repeats an approved
set may not. `WaitsFor` says who waits for whom, `DeadlockAborts` is Postgres
aborting a transaction that waits in a ring. Of the API's writes of the row only a
pointer that is set or a scene set approved waits for it here; fewer waits are
more behaviours.

| Action | Code |
|---|---|
| `RequestCreates`, `Release`, `Reject`, `ApproveRemaining`, `ApproveSceneSet` | the API, each as one transaction; `ApproveRemaining` is `approve_many` of the contact sheet |
| `Claim`, `BodyBegin`, `BodyRefuses` | `run_job`'s claim, `load_artifact` and the selection of scenes |
| `Find`, `Insert`, `Draw`, `Flush`, `BudgetStops`, `ProviderFails` | one scene of `images_body` or `prompts_body` |
| `Close` | the manifest becomes a version of the whole set's artifact |
| `Commit`, `CompletionRefused` | `mark_succeeded` and the commit, or the illegal transition that rolls all back |
| `DeadlockAborts` | a ring of waits costs one of its transactions |
| `FailBegin`, `FailCommit`, `Die` | the failure transaction, a kill |
| `DayPasses` | midnight UTC |

A request may ask for the first scenes only (`max_scenes`; `ApiNext` offers all
or one). Left out: messages and retries of the broker, human edits
(`Generation`), the pictures.

### Branding

State. `status`, `version_no` are the rows of `series_character` and
`series_style`; `job` the series' jobs, whose idempotency key is the character
version; `sheets` the groups of reference sheets; `pin` the two columns of
`video_project`; `wanted` image jobs that wait; `frames` what each frame was
drawn against; `txn` and `run` what each request and each worker has read.

`CreateBegin` takes `_lock_series` and the number, `CreateCommit` inserts.
`ApproveBegin`, `ApproveSupersedes` and `ApproveCommit` are the three statements
of an approval (load, supersede the incumbents, set the row); `ApproveCollides`
is the partial unique index. `ReferencesRequest`, `SheetsClaim`, `SheetsBegin`,
`SheetsCommit`, `SheetsFail` and `SheetsDie` are a run of sheets. `ImageBegin`,
`ImageResolvesCharacter`, `ImageResolvesStyle` and `ImageCommit` are the first
image request of an episode: the check, the two queries, `pin_branding` with its
`WHERE ... IS NULL`; `FramesBegin`, `FramesCommit`, `FramesFail` the run.

### EventChannel and Outbox

`EventChannel` is the promise: only committed events are announced, an announced
event is delivered at least once, a settled one never again. `Outbox` is the
code: `Begin`, `Commit` and `Rollback` are transactions that write events; `Tick`,
`Visit`, `Claim`, `Publish` and `Stamp` a pass of `drain_once`, in which the
SELECT locks its rows one at a time and skips what another pass holds; `Fail` is
a pass that raises, is killed or loses its connection at any point.
`ImplementsChannel` is the refinement: a committed event is announced, a stamped
one settled.

### Delivery

State. `policy` is the series' `auto_approve_policy`, fixed for a behaviour;
`state` and `versions` are the artifact rows, each version's `origin` and what it
was built from (`from`, the versions its body found, in order); `approvals` is
`review_decision` as the view reads it, `body` what each running body has found.
`signed` is history: the versions a person has approved.
`Lookups` gives each stage's queries in the order of its code, `Look` makes
the next one, `Complete` adds the version and `Raise` is any refusal.
`Found` knows that an edited version carries no scene rows or stored bytes
(`whole`). `Start`, `Approve`, `Reject` and `Edit` are people.

A version lands (`Lands`) in review, or approved in the same transaction: what a
job makes of a kind the policy exempts (`_maybe_auto_approve`, called by
`complete_generation`), and a typography card whatever the policy says
(`Unattended`). `Edit` always lands in review, also where the generated version it
edits needed nobody. The policy does not change: nothing writes it after the series
is created (`projects.py:64`).

### Catalog, Models, Migrations and Schema

`Catalog` has the operations a migration uses (`CreateTables`, `AddColumns`,
`AddFks`, ...) over a value that holds what PostgreSQL enforces. `Migrations` has
one upgrade and one downgrade per revision, `Built[n]` the schema after the
first `n`. `Models` is the other half: the schema the mapped classes declare.

`Schema` lives in them. `Upgrade` and `Downgrade` move one revision, and are
refused when a row would break a constraint (`Sound`); `Insert`, `Update`,
`JobFails`, `Retry` are the program, `Delete` with `Doomed`, `Refused` and `Left`
is a DELETE with its cascades, its `SET NULL`s and the triggers these run into.
`Repaired` is the data migration 82d7b9b94a67. A row is the ids it holds and the
scalars a key or a check compares.

## 3. Runs

The runs of `Generation` check deadlock: users may always open another
transaction; so does `Schema`, where an operator can always migrate. The others
do not: a loader stops when it has answered, the bounds of the rest stop their
users.

| Run | Instance | Shows |
|---|---|---|
| `generation_safety` | 1 auto-approved artifact, 2 jobs, 2 workers, 2 sessions, raising providers and kills, versions up to 2 before an edit | `IInv`, `OneRunPerJob`, `OneVersionPerJob`, `GeneratingHasJob`, `ImplementsVersionLog` |
| `generation_live` | 1 artifact, 2 jobs, 2 workers, 1 session, raising providers, kills and losses | `JobsEnd`, `GenerationEnds` |
| `PipelineLoads` | every file of up to three stages, every graph of four kinds, `templates/pipeline.yaml` | `OrderIsTopological`, `LoadsExactlyAcyclic`, `AnswerIsBlastRadius`, `LoopsEnd` |
| `ReviewRace` | research -> script, 2 and 1 versions, 2 concurrent transactions, 3 decisions | `AwaitingIsReviewable`, `StaleMeansOutdated` |
| `ReviewSerial` | research -> script (auto-approved) -> image, 1 transaction at a time, raising providers, 3 decisions | `PointerFollowsView`, `PhaseIsCurrent` |
| `Timeline` | 5 scripts of 1 to 3 scenes and up to 8 characters, every timing of 3 starts x 3 lengths per character, any truncation, any cards, cut or cross-fade | `NothingHeardIsLost`, `OrderlyNarrationsCompile`, `SpeechOverItsOwnFrame`, `EveryInstantHasItsFrame`, `ShowsWhatIsSaid`, `CaptionsReadWell` |
| `Fanout` | either stage, either policy, no cap or one call a day, 2 scene sets (2 illustrations and a card; 1 scene), 2 jobs, 2 workers, 2 days | `WholeOrNothing`, `SpendNearCap`, `GeneratingHasJob`, `OnlyThePhaseDeadlocks` |
| `FanoutRefusal` | expected violation: 1 worker, a cap of one call, one day | `RefusalEndsTheDay` |
| `Branding` | 2 characters, 1 style, 1 episode, 2 sheet jobs, 2 sessions, 2 workers | `NumbersAreFree`, `FramesShareBranding`, `OneGroupPerCharacter`, `LastApprovalStands` |
| `Outbox` | 3 events in 2 transactions, 2 overlapping passes, batches of 2, 2 failures | `AtMostOncePlusLost`, `ImplementsChannel`, `OvertakesOnlyLocked`, `BacklogDrains` |
| `Delivery` | script to package, 2 scenes (1 card) per set, 2 bodies at a time, 2 versions each, 2 regenerations, edits or rejections, 3 approval policies | `WordsOverTheirPictures`, `GateHolds` |
| `Schema` | the chain of 13 revisions, 4 small databases of up to 10 rows | `RoundTrip`, `ModelsMatchSchema`, `AlwaysErasable`, `NothingIsStranded`, `DeletesAreContained` |

Bounds. In `Generation`, `Job` bounds the number of jobs ever created (a request
beyond it fails and rolls back, the last disjunct of `RequestWritesNothing`);
`MaxVersion` bounds human edits only. Two jobs and two workers allow a zombie (a
worker whose job was released) beside its successor; two sessions allow any race
of two API requests. Two live jobs with one key would take a third job:
`OneHolderPerKey` is left to the proof. Jobs of different artifacts share no
row, so one artifact is enough for the runs; the theorems hold for any number of
everything. A message that is lost and one that is late differ for liveness
only, so only the liveness run loses messages.

`Review` bounds the versions of each artifact (`MaxVersion`) and the deciding
transactions (`MaxDecision`). Two versions give an approved one and a newer one
that awaits; three decisions give approve, approve again, and a decision about
either; a stale mark needs an approval downstream followed by one upstream.
Two transactions are what every race of section 5 needs. The properties of
`ReviewSerial` hold only when transactions do not overlap; section 5 says what
breaks them otherwise. `ReviewRace` has no auto-approval: an automatic approval
runs before `approved_kind` is passed to the refresh and does not cascade
(`stages.py:353`), so `StaleMeansOutdated` is a property of human approvals, as
its history is, and the theorem about it holds with policies as well.

The loader reads a file once and has no bound but its input. Four kinds allow
a diamond, a cycle with a tail and two components; the shipped eleven-stage
pipeline is one more input.

`Timeline` scales the caption limits down with the words (5 characters, a dwell
of 4, 3 words, a slack of 2) so that scripts of three to five words break on
every rule and are repaired backwards, forwards and at the first cue. Pauses of
4 and blends of 3 give odd and even halves; lengths of 1 and 2 odd and even
spans. A start before the running end gives overlaps, a length of -1 words of no
length; both refusals, and a timeline the schema refuses, are reached, and so
are accepted timelines of malformed timings.

`Fanout`'s first scene set has a card between two illustrations, so that free and
paid scenes, the cards-first order and a refusal in the middle occur; its second
set leaves artifacts of the first behind. A cap of one call is below what a set
costs. Two jobs are a released run and its successor, or a whole-set and a
single-scene run, and enough for a ring through the project row. `MaxDay` lets
midnight fall into a run.

`Branding` needs two characters and two sessions for racing approvals and
creations, two jobs for a repeated request, two workers for overlapping runs. One
style is enough: nothing distinguishes the two kinds but the sheet run, which
only characters have. One episode: episodes share nothing but the series.

`Outbox`: one transaction with two events decides order by id, the other by
start; two passes and a batch smaller than the backlog let rows be skipped.

`Delivery` bounds each artifact to two versions and changes of mind to two in
all, enough for a set that is replaced between any two lookups of a body. The
narration of the old set and the images of the new one are reached. Of the three
policies one exempts nothing and the other two split the kinds between them, the
package apart, which nothing is built from.

`Schema` splits the tables into four databases because a delete reaches only
rows that refer to each other: people and the trail; scenes and packages; jobs
and keys; branding. Every foreign key that is declared `SET NULL` or `CASCADE`
into another module's table is held by some row of one of them.

Fairness. `Outbox!Spec` asks for weak fairness of every pass (beat ticks every
second and a pass that runs goes on); writers owe nothing, and a pass may fail
`MaxLost` times. `PipelineLoader` has weak fairness of its steps: a program that runs.
`FairSpec` of `Generation` asks for weak fairness of every worker process (Celery
keeps running the task it holds and fetching the next one) except of its death,
and of `Dispatch` (the API process publishes after its commit). Users owe
nothing. A worker may be killed and a message lost at any time: `JobsEnd` and
`GenerationEnds` say that only a job whose own message or own worker is gone
(`Stranded`) does not end.

## 4. Proofs

`GenerationProofs` proves, for every set of artifacts, jobs, workers and
sessions and every value of the flags, `Spec => []` of `IInv`, `TypeOK`,
`OneRunPerJob`, `OneVersionPerJob`, `VersionsAreNumbered`, `OneHolderPerKey`
and `GeneratingHasJob`, and `Spec => ImplementsVersionLog`, from
`GenerationAssumption` alone.

The safety properties are not inductive as they stand. `IInv` adds

* `WorkersHoldOpenJobs`: the job a busy worker holds is RUNNING, or was
  CANCELLED behind its back, and has no version. This is what makes the
  completion's guard on RUNNING sufficient for `OneVersionPerJob`.
* `TransactionsAreGuarded`: what an open API transaction read still justifies
  its commit; in particular a release commits only from GENERATING and cancels
  a job of its own artifact, so that the job it kills is the spinner's owner.
* `SpinnerHasOwner`: strengthens `GeneratingHasJob`; the owner's failure, if it
  is being recorded, has itself seen GENERATING, so it will take the artifact
  out of GENERATING in the commit that kills the job.

`Invariance` has one case per action. The refinement proof shows that each
action maps to `Deliver`, `GiveUp`, `Edit` or a stutter of `VersionLog`; it
needs `VersionsAreNumbered` (the log is a function of the table) and
`OneVersionPerJob` (a job delivers once).

`FoundationProofs` is about two things the rest stands on: the loaded pipeline and
the migrated database. It proves, for any set of kinds and any declaration, that
`stages` is a topological order of every stage (`StagesAreOrdered`), that a
declaration loads only if it is acyclic and is called cyclic only if it has a
cycle (`AcyclicLoads`), and that `descendants` answers the least closed set
(`BlastRadius`). The invariant `LoaderInv` adds to the types: what the loop
still carries is the graph without what it has placed (`Bookkeeping`), a stage
comes after what it requires (`InOrder`), a stuck
set never loses a member, so a cycle is never placed (`StuckIsNotPlaced`), what
is left when nothing is unblocked is itself stuck (`CycleHasWitness`), and the
worklist holds what has been found and not yet followed (`Worklist`).

`TimelineProofs` proves, for any scripts, any timings and options and any
number of scenes, that while a scene is spoken its own frame and no other is on
screen (`SpeechHasItsFrame`) and that every instant shows one frame, or two
inside the transition between them (`FramesTileTheVideo`). The invariant says
that nothing is compiled before the narration is stored (`VoicedFirst`) and that
an accepted timeline is what the compiler makes of the stored spans in an order
that passed `_ordered` (`Planned`); the rest is arithmetic. A blend fits in its
pause and is centred on the middle (`BlendInPause`), so a clip holds its own
speech and keeps off all others (`ClipBounds`), and two clips overlap for
exactly the transition between them (`HandoverIsOverlap`). The frame at an
instant is the first clip that has not ended. None of this uses the schema's
validators: the compiler satisfies them. `EveryWordInItsScene` proves
`NothingHeardIsLost`. `HeardInv` keeps that the words read so far are the script's
text, follow each other and leave out nothing that was heard (`Listens`), and that
the scenes so far have claimed exactly the words which begin in their text
(`Claims`). A scene claims by counting: its words are an initial segment of those
left, their beginnings are different starts of words of its text, and if any word is
left then all of its starts were heard, so the two counts agree (`ClaimsItsOwn`).
What the joined script is, and which scene a character belongs to, are recursive
functions; they are unfolded by the least position that goes wrong (`Upwards`).

`CaptionInv` is about the captions. `CaptionsSayTheWords` proves `ShowsWhatIsSaid`:
after every turn of the grouping the groups are consecutive pieces of the words
taken so far, none of them empty (`Holds`, with the places where the words are
cut), and a join in the repair drops one cut (`JoinGroups`), so what comes out is
the scene's words again, in order (`Grouping`, `CuesAreWords`); that the scenes
come in order is the schema's check on the clips and the stability of the sort
(`AcceptedOrder`). `OrderlyNarrationsAccepted` proves `OrderlyNarrationsCompile`:
each span begins and ends with its words (`Shaped`), so the words of an orderly
narration, shared out in order, give spans and cues that do not run into each
other (`OrderlySpans`, `CueTimes`, `OrderlyCaptions`), the sort leaves the scenes
where they are (`OrderlySort`), and every condition of the compiler and of the
validators holds of what is made of them (`OrderlyAccepted`). Neither needs anything
of the caption limits.

`CaptionsAreReadable` proves `CaptionsReadWell`, of any words at all. The groups the
loop leaves are within its limits, and the open one has not met the end of its
sentence (`Neat`, `Tidy`). Of the repair, every turn either removes a group or
passes one, so as many turns as there are groups get to the end (`Ahead`), and the
lone words behind it have no neighbour that would take them (`Settled`). That lasts:
two groups joined are as wide as both and a space (`WidthJoin`), so a join only
makes the frame fuller, and whatever may join afterwards could have joined before
(`MayJoinBefore`). For the same reason the first group may be tried last, once, after
the pass (`AbsorbReads`). The widths are counted by the code as it goes and by the
property from the letters (`LettersOfCue`). Needed is `CaptionAssumption`: a cue may
hold one word (`MAX_WORDS` is 6) and the repair may do no less than the loop
(`MERGE_SLACK` is 3); `MaxCharacters` may be any integer, a negative one too.

Assumed are the types in `ScriptAssumption`, `TimeAssumption`, `OptionAssumption`
and `CaptionAssumption`.

`OutboxProofs` proves, for any events and transactions, any number of
overlapping passes, any batch size and any number of failures, the invariant
(`Invariance`), that an event is announced at most once more often than passes
have failed (`FewDuplicates`), the refinement of `EventChannel` (`Refinement`),
and the order of announcements (`OrderIsKept`, an action property). The invariant says that the rows a pass holds are its own,
committed, not yet stamped and each once; and it accounts for every delivery but
the first: a delivery of an event that is not stamped belongs to the pass that
holds it or to one that failed. `OrderInv` adds that a transaction commits no
earlier than it begins (`Clocked`), and that a pass which has a row has, of all that
was committed before that row's transaction began, announced it, taken it first, met
it locked, or has still to visit it (`InOrder`); a row that is committed later cannot
precede one that is taken.

`BrandingProofs` proves all four properties of `Branding` for any series, any
number of sessions, workers and jobs. `IInv` adds what open transactions and runs
rely on: one transaction at a time creates, and its number is one more than the
rows there are (`OneCreates`, `TxnOK`, with `Numbered`: no number exceeds the
count, so the next is free); a job that is not dead is the only one for its
character version (`Keyed`), and a group's job has succeeded (`Drawn`), so two
groups of one version would be two holders of its key; a worker's job is RUNNING
and its own (`RunOK`, `OwnJobs`); a project's pin is whole once an image job
waits (`Pinned`), and never changes then, which is why the pin a run has read is
the pin its frames are compared with. `LastApprovalStands` rests on what an approval
between its statements has found: rows of its own kind, and never its own row
(`TxnOK`), so what it supersedes it replaces, unless its session sees nothing to
write. Assumed: characters and styles are
disjoint and finite in number (`BrandingAssumption`).

`FanoutProofs` proves all four properties of `Fanout`, for any scenes, any scene
sets (their order by index is strict in each set, the unique constraint on
`scene_set_id, index`, and a scene belongs to one set), either stage, either policy, any limits and any number of
jobs and workers. `IInv` adds to the types and to `WholeOrNothing`:

* `LoopInv`: a busy worker's job has been claimed; what its loop has written, is
  writing and has still to do is the selection of one scene set that was approved,
  in the one order, cards first and then by index. `WholeOrNothing` follows at the
  commit, where nothing is left to do.
* `LocksAreExclusive` and `JobsNameScenes`: two runs never hold the same artifact
  row, and a job for one scene names a scene there is. A run that waits for an
  artifact row waits for a run that is at a later scene of the same set, or closing
  it: along a chain of such waits the order ascends (`Sooner`, `WaitsAscend`), so a
  ring of nothing else would have no last member (`LastSlot`, `NoRing`). The theorem
  (`RingsNeedThePhase`) leaves the rings that go through the project row, and these
  the code does have (section 5).
* `SpinnersAreAnswered`: an open failure of the job that answers for a spinner
  has itself seen GENERATING, so the commit that takes the job away takes the
  spinner along.
* `SpendIsShared`: committed rows and calls in flight, taken together, are at most
  a `Share` for each worker. `SpendNearCap` alone is not inductive because a commit
  moves a whole body's calls into the sum at once. `FibreBound` adds up the workers'
  shares by injections: cardinalities of unions are counted without induction.

`DeliveryProofs` proves, for any pipeline graph, any number of scenes, any choice
of illustrations and any number of bodies, versions and changes of mind, that a
timeline speaks over the pictures of its own scene set
(`NoWordsOverTheWrongPictures`) and that somebody answers for whatever a version
was built from, a person who approved that very version or the policy for what a
job made (`NothingPassesTheGate`). What a stage looks up depends on what it
has found, so the first half is about `Lookups`: an answer does not change what
was asked up to it (`LookupsKept`), and a compiler that asked everything has a
frame for every scene (`WholeTimeline`). `IInv` says of every version and of every
running body that each answer is a version that exists and that somebody answers
for (`Reviewed`), or none where the lookup may do without (`FoundOK`); that a voice
spoke one scene set and a timeline's voice speaks the timeline's (`BuildOK`); that
an approval is of such a version (`ApprovalsExist`), and that a body has its artifact, in
GENERATING, to itself (`BodyOK`, `OwnArtifacts`), which is why nobody can use up
the version number it is about to take. Everything it speaks of only grows
and the policy stays (`Grows`), so a decision between two lookups cannot undo what was found.

`ReviewProofs` proves the properties of `Review` for any pipeline that loads
(`ReviewAssumption` asks of it what `StagesAreOrdered` shows of `stages`), any
artifacts, policies and bounds. `AwaitingIsReviewable` and `StaleMeansOutdated`
hold for any number of overlapping transactions. `IInv` adds to the types and to
`StaleMeansOutdated`:

* `TransactionsAreGuarded`: what an open transaction has read justifies its
  commit. One that decides has seen AWAITING_APPROVAL, so it writes the state and
  no wait outlives its decision; one that adds a version has held the row's lock
  since it refreshed, so the next number is still within the bound; an approval
  that has refreshed marks everything downstream that a human ever approved.
* `LocksAreExclusive`: the locks of the first UPDATEs have one holder. Every
  approval takes the project row, so there is one refreshed approval at a time,
  and what its cascade read is complete when it commits.
* `UndecidedAhead` and `AwaitingIsUndecided`: nobody decides on a version that
  does not exist, so the version an edit or a completion adds is undecided, and the
  newest version of a waiting artifact stays so. Without a decision the view
  answers AWAITING_APPROVAL, unless a later approval were of a version beyond the
  newest (`UndecidedAwaits`).
* `ApprovedArePresent`: what a human approved has a row, so the cascade finds it.

That an approval does not mark its own artifact needs that nothing descends from
itself (`NothingDescendsFromItself`): the order of the stages is a rank.

`PointerFollowsView` and `PhaseIsCurrent` are proved under `OneAtATime`: operations
that do not overlap, which is what they are checked with and what they need
(section 5). `SerialInv` says that all an open transaction has read is still so
(`NothingMoved`) and that its `now()` is later than every decision, so its own is
the one the view follows (`NewestWins`).

Of `Schema`, `FoundationProofs` proves all five properties, for any rows, worlds,
updates and roots, and so for databases of any size and any history of
migrations: `MigrationsRoundTrip`, `HeadIsModels`, `EverythingIsErasable`,
`NoArtifactIsStranded`, `DeletesTakeTheirOwn`. What stays fixed is the chain of 13
revisions itself. `DatabaseInv` says that the catalogue is the one of its
revision but for enum labels that stayed (`SchemaIsBuilt`), that every row is one
of the world and holds what it was written with, or less (`WrittenAt`), that all
constraints hold (`Sound`), and that from revision 6 on no job is parked
(`NoneParked`) and no artifact stranded (`NoneStranded`). The first four are needed
for every delete and migration to say what they leave; `NothingIsStranded` alone
is not inductive, since a downgrade or a delete could part a job from its
artifact if references and values were arbitrary.

* The chain. `TableAt(n, t)` is the entry of a table at revision n, written down
  once, with the revision each column, reference, key and check comes and goes
  with. One lemma per revision shows that its upgrade leads from the entries of
  n - 1 to those of n and its downgrade back (`UpStep`, `DownStep`), so the
  catalogue depends on the revision and not on the way there; `Built` is among
  the catalogues this holds of (`AllBuilt`), and `TableAt(13, t)` is compared with
  what the model declares, class by class (`OutboxEventMatches` to
  `PublishingPackageMatches`). A downgrade that forgot something would leave no
  such entry. The labels are the one exception: `IsTyped` lets them exceed the
  chain's on the way down, and at the head they are the models' again, because what
  stays behind is never more than the head has.
* Cascades. `Doomed` iterates as often as there are rows; `CascadeEnds` shows that
  this is enough and no more than needed: the rows a delete takes are the least
  set with the root that is closed under `ON DELETE CASCADE` (`DoomedAreSwept`).
  A delete is contained because the rows under its root are closed as well
  (`SweptBelong`): every cascading reference is an owner's (`FksAreLawful`, checked
  at each revision). It is never refused because, from revision 2 on, the only
  references let go of are a project's series and a comment's author, which may
  be NULL, are in no key and in no append-only table (`LetGoSafely`).
* Jobs. A job that is still to run outlives every delete its artifact outlives
  (`JobsStay`): nobody deletes jobs, and whatever it cascades from the artifact
  cascades from too. A failing job takes its artifact out of GENERATING with it
  (`FailedRows`), and the repair of revision 6 leaves none behind (`RepairedRows`).

Assumed are `RowsAssumption` (references lead to rows, `under` is the closure of the
owners), `WorldsAssumption`, `JobsAssumption` and `ArtifactsAssumption` (what
`JobService.request` writes), `UpdatesAssumption` and `RootsAssumption`; the run
evaluates each of them on its databases.

Only model-checked: liveness (`JobsEnd`, `GenerationEnds`, `LoopsEnd`,
`BacklogDrains`: out of the prover's reach) and the violation. Every other
property of a run is the subject of a theorem, and so are the type invariants of
`Generation`, `PipelineLoader`, `Timeline`, `Fanout`, `Outbox`, `Branding`, `Review`
and `Delivery`.

## 5. Findings

One run ends in a counterexample. `RefusalEndsTheDay`: the refusal of the budget
says that no further calls will be made today (`budget.py:39`), and the cap is
there to stop a regeneration loop (`budget.py:7`). The body that is refused is
rolled back with the usage rows of the calls it has paid for, the recorded spend
falls below the cap again, and every retry of the fan-out pays anew. The frames
that were free are rolled back as well, against `images.py:184`.

Seen while modelling, each of them a step of a model, and the reason for a bound
or for the form of a property:

Jobs (`Generation`).

* A job whose publish failed stays QUEUED, and its key absorbs every retry
  (`Unsent`); `dispatch_pending` calls it recoverable by an operator's retry.
* A job whose worker was killed after the claim committed stays RUNNING: the
  redelivered message finds it claimed and is dropped (`Orphaned`), where
  `celery_app.py:46` promises redelivery, "not silence"; `claim_orphans`, which
  would notice, is called by nothing.
* A release writes CANCELLED over a SUCCEEDED that was committed meanwhile
  (`jobs.py:417`), where `job_lifecycle.py:66` says that nothing moves a job out
  of a final status.
* A worker whose job was cancelled ignores that `mark_failed` changed no row and
  fails its successor's artifact (`skeleton.py:89`), which is then FAILED; a retry
  is answered with the live job (`jobs.py:349`).
* A failure, a release and a cancel write transitions and audit rows but no outbox
  event.

Review.

* `approve` and `reject` check the row they have loaded and write blindly; the
  view reads the newest decision, the pointer follows the last commit. Overlapping
  decisions leave an APPROVED row with a REJECTED version (`review.py:230`,
  `sql.py:105`) or a pointer to another version than the view's. Admission reads
  the row, the next stage's body the view.
* `expected_version_no` is compared with the version the URL names
  (`review.py:102`), so it never detects that a newer one exists.
* An automatic approval does not cascade (`stages.py:353`).
* An edit that overlaps a regeneration leaves an artifact GENERATING under a
  review phase until the next transition (`PhaseIsCurrent` with two sessions).
* An approved version can be rejected once a newer one awaits; what was built on
  it is not marked (`review.py:226`).
* `_states` collapses scenes before `derive_phase` looks for GENERATING, so a
  FAILED scene hides a generating one.
* `approve` sets a project-wide pointer for per-scene artifacts too.

Fan-outs.

* A prompt request for a single scene raises an illegal transition when it
  completes, after it has paid for its calls.
* Workers overshoot the cap by up to a whole limit each, prompts by one call more
  (`SpendNearCap` states exactly that; `budget.py:14` speaks of one round of calls
  in flight, but a body's calls stay in flight until it commits).
* Two runs can wait for each other in a ring through the project row. Run A, for one
  scene, has drawn it and is about to write the phase (`images.py:286`); run B, for
  the whole set, has drawn the card, whose completion moved the phase, holds the
  project row, and comes to A's scene (`artifacts.py:190`). Postgres aborts one of
  them after `deadlock_timeout`, with every picture it has drawn and paid for; its
  job fails as if a provider had raised. `OnlyThePhaseDeadlocks` is what holds:
  scenes alone, cards first and then by index, never close a ring.
* `approve_many` does not skip a tile whose regeneration has landed already
  (`review.py:167`), and shows the newest picture under the state of an older one.
* After a release, the key of the next request is computed from a counter the
  released run may still have moved.
* The failure transaction may write FAILED over a fresh AWAITING_APPROVAL.
* Artifacts of a replaced scene set take part in the collapse and can hold back
  every later stage.

Branding.

* A sheet run writes AWAITING_APPROVAL over an approval that was committed while
  it drew (`references.py:238`), and re-approving an approved version while another
  one is approved supersedes both: a series may end with no approved character,
  where `series.py:144` says exactly one. These are the two exceptions of
  `LastApprovalStands` (`OverwritesApproval`, `ForgetsItsOwn`); it says that there is
  no third. That there is never more than one is the partial unique index itself.
* A version whose sheets succeeded never gets a second group, and one whose worker
  was killed never gets any: both keep their key.

Outbox.

* "Consumers see events in the order they happened" (`audit.py:130`) is not so for
  overlapping transactions, for two ids minted in one millisecond, and past a
  locked row. `OvertakesOnlyLocked` is what holds.
* An approval without a human enqueues no event.

Delivery.

* The scenes job reads the approved script's version again after the LLM call
  (`scenes.py:100`), the timeline stage the approved scene set's after its rows
  (`timeline_stage.py:67`): either may be a newer one than the content that was
  used. Only `_spans` keeps words and pictures together.
* The frames of the package need not be those of the packaged video, and its facts
  about the video may come from another render (`package_stage.py:161`).
* An edited scene set has no scene rows and an edited stored artifact no bytes:
  once approved, later stages find no approved content, where `review.py:241` calls
  `origin` the only difference.

Words and cues.

* A word whose times round to nothing makes a cue or a span of no length: the
  compiler refuses a narration a human has approved. That is why
  `OrderlyNarrationsCompile` asks for words that take time.
* A synthesis truncated inside the last scene is stored: `voice_body` looks for
  scenes with no words only.
* `compiler.py` says that a scene with no span and a span out of order raise; the
  code drops the one and sorts the other.
* The cycle error of the pipeline loader lists everything downstream of the cycle.

Schema.

* The downgrade of 83fa1410a747 is refused once an actor was erased, that of
  16da when a dead and a live job share a key, that of 40ba when series jobs exist;
  an upgrade past d9f8 is refused after a downgrade left artifacts with scenes.
* `SET NULL` onto a table with a statement-level trigger raises even when no row
  refers to what is deleted.
* Deleting a series deletes its jobs and their usage, so that the spend of the day
  shrinks; pins to its versions survive.
* "Jobs are prunable" (`models/branding.py:163`) meets a CASCADE from
  `artifact_version.generation_job_id`.

## 6. Plan

Done: the job protocol, the pipeline, review, narration to timeline, fan-outs with
the budget, branding, the outbox, delivery from script to package, the schema.

Every safety property of the runs is proved, but the one that does not hold. Left
are the parts of section 7, and keeping up with the code: a new revision adds its
entries to `ColumnsAt`, `FksAt` and their siblings in `FoundationProofs`, one lemma
for its two directions, and whatever the models gained.

## 7. Not modelled

* **Providers** (`src/packages/providers`): HTTP adapters and prices. The bounded
  retry in `middleware.py` keeps no state between calls; a provider is a body that
  may raise.
* **Prompts and rejection feedback**: templates and wording.
* **HTTP surface** (`app.py`, DTOs, error mapping, read-only routes): the routes
  that change state are actions of `Generation`, `Review`, `Fanout`, `Branding`.
* **Shared library**: settings, logging, ids and an object store that is written
  before the row that names the object and never deleted from.
* **Rendering, mixing, cards, covers**: pixels and samples behind the body of a
  job; what their stages look up and pin is in `Delivery`.
* **Frontend**: a client; its users are the nondeterminism of the models.
* **Seed and engine**: a one-off script and connection settings.
