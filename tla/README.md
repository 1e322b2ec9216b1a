# Verification of the harness optimisation service

TLA+ modules, TLC configurations and TLAPS proofs about the service under `src/`:
a FastAPI application that takes benchmark jobs, a background worker that runs
them, and a loop that benchmarks an agent, asks an optimizer for a better one and
keeps the best. Paths are relative to `src/`; `processor.py` is
`app/worker/processor.py`, `worker.py` is `app/worker/worker.py`, `jobs.py` is
`app/api/jobs.py`.

## 1. The system

### Components

| Component | State it keeps | Operations | Talks to |
|---|---|---|---|
| Jobs API (`app/api/jobs.py`) | none of its own; rows of `jobs` | submit, cancel, reads | database |
| Worker (`app/worker/worker.py`, `app/main.py`) | one asyncio task, a stop event | start, stop, poll, claim, hand over | database, processor |
| Job processor (`app/worker/processor.py`, `app/services/agent_versions.py`) | an ORM session with a copy of the job row; loop locals | process, the optimisation loop | database, executor, optimizer |
| Executors (`app/executor/`) | a working directory, a thread, a child process group | run a benchmark, report progress, ask for cancellation | processor's callbacks, Harbor |
| Optimizer (`app/optimizer.py`) | none | choose a mode, fit traces into a prompt, propose an agent | model client |
| Derived reads (`app/services/jobs.py`) | none | task summaries, latest results, proposed versions | database |
| Authentication (`app/auth.py`, `app/api/auth.py`) | rows of `refresh_tokens` | login, refresh (rotation), logout | database |
| Organizations, users, seed (`app/api/orgs.py`, `app/seed.py`) | rows of `organizations`, `users` | create, bootstrap the first user, seed at start | database |
| Authorization (`app/authz/`) | none | role and ownership predicates | - |
| Database access, settings (`app/db.py`, `app/config.py`) | engine, session factory | sessions without expiry on commit | Postgres or SQLite |
| Agent template, workspace (`app/harness/`) | files of a job's workspace | write agent, clear traces | Harbor |
| Clients, scripts (`test_client.py`, `client_debug.py`, `scripts/`) | none the service depends on | poll and print | HTTP API |

The database is the only channel between the API and the worker: the API inserts
and cancels rows, the worker claims them, the processor writes what it did, and
cancellation is a status that the processor and the executor come across when they
next read the row.

### What is hard about it

* **Stale copies.** The processor works for minutes on an ORM copy of the job row.
  It refreshes the copy at three places and commits at a dozen. `expire_on_commit`
  is off, and a commit writes the columns that changed *in the copy*, whatever the
  row has become.
* **Read, then write.** The cancel endpoint and the claim both test a status in one
  statement and write it in another.
* **Partial failure.** An iteration is written by five commits; exceptions, failed
  statements and crashes can end the run between any two. A failed statement also
  breaks the session that the failure handler uses.
* **Decisions with an off-by-one next to them.** Strict improvement, patience, the
  iteration limit, the order of the stop tests, three version counters.
* **Threads and processes.** The Harbor executor bridges a worker thread, a polling
  loop, callbacks on the event loop and a child process group with a deadline.
* **Rotation and bootstrap races** in the endpoints that read and then write.

* **Reads that are put together.** A response is several statements, and the processor
  commits between them; what it says is derived from what a row does *not* list.
* **Budgets.** Records of any size are cut to limits that count one form of the text
  while the prompt uses another.

`PROJECT.json` lists each of these as a hazard at the line where it bites, with the
properties that watch it.

### What makes each component correct

* Loop: the best version is the first maximum of the scores; patience counts the
  iterations since; the stop reason is the true one.
* Processor: the rows tell a reconstructible history at every moment; a cancellation
  it has seen is final; whatever happens it lets go of the job.
* Worker and queue: no job runs twice at once, none revives, queued jobs are taken,
  a shutdown loses nothing and ends.
* Cancel: only active jobs are cancelled; a cancelled job stays so.
* Executor: one result per task; progress never goes backwards; no process outlives
  the run; an empty result only if the job is cancelled.
* Optimizer: the budgets are limits and lose nothing that fits; a failing model fails
  no job; every version can run; fixed edits are made once.
* Reads: what is shown as completed was run, with the exceptions the code makes; no
  effect without its cause.
* Sessions: a line of refresh tokens has one usable end, and none after a logout.
* Organizations: whoever comes first, an organization with users has an administrator.

## 2. The modules

### HillClimb - what the loop promises

The loop with every benchmark and the verdict on it in one step, and no database.
`score`, `accepted`, `best`, `misses`, `stop` are the scores of the judged
iterations, the ones accepted, the iteration whose version is the best, `no_improve`
and `stop_reason`. `Judge` is `processor.py:180-250`; `Halt` is every other way out
(unchanged proposal, cancellation, exception). Versions need no variable of their
own: iteration *k* runs version *k*, which JobProcessor's proof establishes.

### JobProcessor - the loop as it runs

One action per stretch of `process` and `_run_loop` between two awaits that touch
the database, and the cancel endpoint beside it, in its two statements.

* `job`, `iters`, `versions` are committed rows. `mem` and `synced` are the ORM copy
  and the values it was loaded with: `Flush` writes the columns in which they differ,
  `Refresh` reloads both. This is the part of SQLAlchemy on which the races depend.
* `no`, `bestVersion`, `bestScore`, `noImprove`, `nextVersion`, `candidate`,
  `result`, `changed` are the loop's locals. `pc` names the next stretch of code.
* A benchmark returns any member of `Outcomes` or raises; a proposal changes the
  agent, leaves it, or raises. The executor cannot be built, or the optimizer mode
  is unknown: `SetUpRaises`.
* `DbFault`: any statement of the session may fail. After a failed flush or commit, or
  a lost connection, the session refuses everything until a rollback that nobody makes,
  so the handler's commit fails too and `process` ends (`aborted`) with the rows as they
  were. A SELECT that nothing was flushed before (`Reads`) may also fail and leave a
  usable session: then the handler does its work.
* Abstracted: times are a flag (`finished`), text columns and task results are left
  out, a score is a natural number (a mean of rewards up to scale), the phase
  ANALYZING is overwritten in the same commit and so never seen.

### JobQueue - submissions, workers and cancellation

Several jobs, several service processes on one database. The claim is two steps
(SELECT, conditional UPDATE whose row count is not read); a run of the processor is
abstracted to load, set up, work, and an end with any status it can leave behind.
Its set-up keeps the one thing that matters between two workers: the unique
constraint on version 0. Processes may be stopped, killed and started again;
statements may fail (a failing claim ends the worker's task, and its COMMIT may have
been applied all the same: `ClaimFault`; a run whose load or a later statement fails
goes back to the loop and leaves the job as it is). Jobs are numbered by `created_at` but may appear out of order.

### HarborRun - a benchmark under Harbor

One job's iterations under `app/executor/harbor.py`, in the one workspace they share.

* The executor's thread: `pc` names the statement of `_run_sync`, `_stop_process` or
  `_read_harbor_progress` it is at, `cont` where it goes after a scan or a call, `why`
  how it left the poll loop (the flags `cancelled` and `timed_out`, or the `except`
  branch). The scan looks at one task directory a step, while Harbor writes.
* `calls`: the `on_progress` coroutines on the event loop. Each reads its row, then
  writes the lists that differ from what it read. The thread waits 30 seconds for its
  own (`mine`); one it gives up on lives on and may commit at any later time.
* The process group: the runner (`leader`), which may ignore SIGTERM and may never
  end, and other processes (`helpers`), which may outlive it. They move each task's
  directory (`traces`) from nothing to files, a half-written result and a whole one.
* The processor's part: `AfterRun` and `Close` (refresh, clear the lists, commit),
  `NextRun` (the next iteration's row), and the cancel endpoint.
* Failures: preflight, workspace, `rmtree`, `Popen`, any callback (error or late), any
  half-written JSON file. Those outside the `try` end in `raised`: the job fails.
* Abstracted: a reward is missing, below one half or not; output is its JSON line or
  none; texts and logs are left out. The return code needs no variable: a runner that
  exits with an error prints missing rewards or nothing, and both are infrastructure
  errors. Local variables are reset once they are not read again.

### ProgressView - what is shown of a running job

The read endpoints (`jobs.py:66-125`, `app/services/jobs.py`) one statement a step,
between the commits of a writer: an executor, chosen by the job, and of the processor
only what a response is derived from. The simulated executor asks, reports and runs
task by task. Harbor runs its tasks at once and reports scans of their directories, in
which each task is seen at a moment of its own; it sends two empty lists when a run
could not begin, was timed out, was lost to an exception or left no directory behind
(`ReportNothing`); and its results may be `infra_error`, those of a run that gave up all
of them. How Harbor gets to each of these is HarborRun's, and so are the calls a run has
given up on, which may commit late.

* `job`, `rows`, `proposed` are committed: the job's status and best version, the
  iterations with their two lists and task results, the number of versions that
  iterations have created. `ran` and `emptied` are history: the tasks that were really
  run, and the iterations whose lists Harbor emptied.
* `got` is what the reader's session has loaded. SQLAlchemy keeps a loaded row as it
  was (`ReadNewest` picks a row by the statement's moment and shows the results read
  then); `Summary` is `_tasks_summary`, the difference of three lists.
* A whole job (`Respond`) and a single iteration (`RespondDetail`) are both read.
* The cancel endpoint is one step here; its race is JobProcessor's. A response shows the
  status as it was loaded, and no iteration is added after a job has ended, whatever a
  late cancellation makes of the row.

### Accounts and Sessions - who may ask

Accounts has the seed of each starting service, `create_org` and `create_user` in
their read and their write, and the policy of `app/authz/`. Sessions extends it with
refresh tokens: each login starts a *line*, a refresh reads its token in one statement
and revokes it and adds the successor in another, a logout likewise. `raced` and
`ended` are history: the lines where a request wrote a token that had been revoked
since it read it, and those a logout was confirmed for. Requests and clients may go
away before their commit, tokens expire, services go down while they seed.

### ContextBudget and Optimizer - a proposal

ContextBudget is pure: texts are their lengths as JSON, limits are those of the code.
`Packed` is `format_trace`, `Fit` the loop of `fit_context_budget` as a fold over the
records, `FitRecent` is `fit_recent_attempt`. Clipping turns a list into a JSON string
whose quotes are escaped, so a record may be longer than the room it was clipped to; a
trace that is no list of messages is clipped before it is escaped, and may exceed the
limit of its kind. Of a task the escaped characters are taken to be spread evenly, which
costs nothing: a record is measured after its trace was cut, and left out if it is too
long. The account of the last attempt is not measured after its last cut, so there the
place of the escaped characters matters: an attempt says what escaping adds to the first
1200 characters of its diff (`head`) and what to the others (`tail`), and `RoomIsUsed`
claims the limit unless `head` is above 4400, as it is where most of those characters
are outside ASCII.
Optimizer runs `propose` over the requests of a job: the prompt's tests, an answer
that may be a good agent, a bad one, malformed or an exception, the one repair, the
fall back with its own prompt test, validation, and the processor's verdict, after
which the next request starts from the best agent so far. An agent is its size, the
guidance its text shows, and what the edits have added since a model wrote it.

### Composition

`JobProcessor!HC == INSTANCE HillClimb WITH ...` is the refinement mapping: an
iteration counts as judged once its verdict is committed, `stop` is the stop reason
of the processor's copy. `JobProcessor!JQ == INSTANCE JobQueue WITH ...` is a second
one, to what the queue sees of a run: `Stage` says which of the worker's places it is
at, and the worker has noticed a cancellation once the processor's copy has it.
`FollowsTheQueue` is the step half of that refinement; the initial states differ
because the processor is handed a job that has been selected. `JobQueue` relies on
`ProcessorTerminates` of JobProcessor where it assumes that a run ends, and
JobProcessor on `CancelEndsRun` and `DeadlineEndsRun` of HarborRun where it assumes
that a benchmark returns or raises. There is one case in which a benchmark does neither:
the `git clone` before a job's first run (`app/harness/workspace.py:37-49`) has no limit.
If it hangs, no deadline is set yet and no cancellation is looked at
(`app/executor/harbor.py:87-90`), and the job, its worker and a shutdown wait for ever.
`ProcessorTerminates` and `ShutdownEnds` hold for clones that end.

## 3. What TLC checks

| Run | Instance | Shows |
|---|---|---|
| `hill_climb` | 5 proposals, patience 3, scores 0..2 | accepted = strict records; best = first maximum; patience exact |
| `job_processor` | 4 proposals, patience 2, same results, faults on | everything of section 1 about the processor, that it implements HillClimb, and that it does to a job only what JobQueue allows |
| `job_queue` | 2 jobs, 2 workers, 3 boots less one, all faults on | exclusion, no revival, no lost job without a crash, queue and shutdown liveness |
| `harbor_run` | 1 task, 2 iterations, 1 stray (late call or helper process) at a time | runner gone when its run is over; passes earned; artifacts and progress of the run; a cancellation, unless the first clone hangs, or the deadline ends it |
| `progress_view` | 2 tasks, up to 2 iterations, both executors, one response | a task shown as completed was run, but for three cases; no effect shown without its cause |
| `sessions` | 2 services, 2 clients, 2 organizations, 2 e-mails, up to 3 users and 3 tokens, 2 creations at once | administrators come first; a line has one usable end unless two requests used one token at once |
| `optimizer` | 4 proposals; up to 3 tasks of four shapes in every order, up to 2 with a trace that is a text, and five full requests with five last attempts; 36 agents a model may write | budgets hold and lose nothing that fits; a model fails no job; every version runs; edits are made once |
| `cancelled_job_completes` | 2 proposals, no faults | **violated**: finding 1 |
| `finished_job_cancelled` | 2 proposals, no faults | **violated**: finding 2 |
| `database_error_lost` | 2 proposals, faults on | **violated**: finding 3 |
| `claim_error_starves_queue` | 1 job, 1 worker | **violated**: finding 4 |
| `stale_result_seen` | as `harbor_run` | **violated**: finding 5 |

*Bounds.* Three scores give every order of three results, ties included; a score of
one half comes with and without "all passed" because a reward of one half already
passes (`app/executor/harbor.py:208`). With patience 2 and 4 proposals a run can
reject, accept again (reset) and then use up its patience, or reach the limit with
patience left; patience 3 and 5 proposals do the same in HillClimb. Two jobs and two
workers give every overlap of two claims on one job and of a claim with a
cancellation; `MaxBoots` is 2: both services start, or one starts again after a
crash. In HarborRun one stray at a time lets a call of the first iteration commit in the
second, and a process of the first write into the directory of the second; two
iterations are what leftovers need, and one task gives a directory all its states.
Two tasks in one iteration, and two strays, were checked by hand in larger instances
(about 640 thousand states each) with the same outcome. One cancel request at a time
is enough for a row that a cancel leaves
terminal; JobQueue allows one on each job. In ProgressView two tasks give an iteration
a first and a last one, and two iterations an earlier one and the newest; three
iterations with one task were checked by hand (4.8 million states) with the same
outcome. A response is read once (`OneResponse`): readers write nothing that another
could see. In Sessions two clients
are what a race takes, and three tokens a login with two successors or two lines;
services and clients are interchangeable (`SYMMETRY`), and `AccountsFirst` leaves out
only products of independent steps: tokens are followed while accounts are at rest,
since neither writes what the other reads but the user a token copies. The optimizer
runs with the code's own limits; its sizes lie on both sides of each: a trace that
fits, one that is clipped to fit, one that escaping makes too long again, one of more
steps than the indentation has room for, more tasks than are looked at, sections that
are all full, last attempts that fit whole, without deltas, cut to 1200 characters, or
not at all, agents near 30,000 characters. `StepIndent` is what two-space
indentation adds to a step.

*Fairness.* `WF_vars(Processor)`: an asyncio task is resumed when its await is over,
the executor bounds a benchmark with a deadline, the first clone excepted, and the model
client bounds its calls. `WF_vars(Task(w))`: the same of the worker's task; the wait has
a timeout. `WF_vars(Thread /\ ~Cloning)` in HarborRun: the executor's thread runs, and
each of its waits has a limit but one, the clone before the first run, which may last for
ever. Git, Harbor, the database and the clock owe nothing, so the two liveness properties
say that a deadline that has passed is enough, and so is a cancellation unless that clone
hangs. Clients, operators, restarts and faults owe nothing. Because a stretch of the
processor is enabled until it is taken, weak fairness is all that is used. The other
modules state safety only.

*Deadlock* is not checked: jobs end, services are shut down, requests are answered.

### Findings

1. A cancellation that falls after the processor's last refresh is overwritten by
   `completed` (`processor.py:52` tests the copy). The window is not small: on the
   last iteration it spans the judging commits, and on an unchanged proposal three of
   them. README.md:44-50 knows no such transition.
2. A cancel request that read `running` overwrites `completed` or `failed`
   (`jobs.py:174-176`), keeping scores and error of the finished run.
3. A database error inside the loop leaves the job `running`: the handler's commit at
   `processor.py:61` fails on the broken session. Nothing ever picks the job up
   again, since only queued jobs are selected.
4. An error in the claim (`worker.py:38`, outside the `try`) ends the worker's task;
   the API goes on accepting jobs that nobody serves.

5. Other processes of Harbor's group outlive a run: `_stop_process`
   (`harbor.py:295-310`) waits for the leader only and does nothing once it has gone,
   and a run whose leader ends by itself stops nothing. The next iteration clears the
   directory (`harbor.py:113-116`) and may then read what the survivor writes as its own.

What *does* hold and is easily doubted: a cancelled-while-queued job is never
revived although the claim ignores its row count (`OnlyEarlierLoadOverwrites`); two
workers that claim one job never both run it (`OneRunPerJob`, thanks to the unique
version number); a cancellation costs at most one more benchmark
(`CancelCostsOneIteration`); a shutdown loses no job (`RunningJobsAreHeld`).

### Seen on the way

What the models show and no finding lists, because no document promises otherwise
clearly enough, or because a response is read by people only:

* Without results, completed is what two lists leave, so that two empty lists show every
  task as completed, run or not, where `app/schemas/iteration.py:126` speaks of tasks
  that have finished. Both lists are empty in an iteration that a cancellation closed
  (`processor.py:151-154`), and, while its phase is still `running_benchmark`, after
  `on_progress([], [])` of Harbor (`app/executor/harbor.py:84`, `:132`, `:165`, `:174`,
  `:178`). With results, an `infra_error` counts as completed too
  (`app/services/jobs.py:97-107`). `CompletedTasksWereRun` states that these three are
  the only cases.
* A `git clone` that hangs before the first run cannot be cancelled and has no deadline
  (`app/harness/workspace.py:38`).
* `latest_task_results` are those of the newest iteration, none while its benchmark
  runs (`app/services/jobs.py:36-43`); `app/schemas/job.py:79-84` speaks of the most
  recent completed one. That a *completed* job has them all is in
  `EffectsComeWithCauses`.
* A task listed twice in `task_ids` is shown as running and pending at once; `TypeOK`
  claims disjointness of distinct ids only.
* Two refreshes with one token leave two usable successors, and a logout that races
  with a refresh leaves one: `LinesHaveOneEnd` says that nothing else does.
* The fixed edits add the verification guidance again each time the model's text does
  not have the template's wording: what is looked for (`app/optimizer.py:291`) is not in
  what is added (`:294`). `GuidanceIsAddedOnce` speaks of the other two.
* A prompt that is too long for the model is too long for the fall back too, unless
  the shorter note makes the difference, and then the job fails (`raised`).

## 4. What is proved

For every value of the constants, with `tlapm`:

* **HillClimbProofs**: type correctness, the three other invariants of the run, and two
  facts that are not worth a run: the loop goes on only within its bounds
  (`BoundsAreKept`) and the best score never falls (`BestScoreIsMonotone`). The
  inductive invariant adds that scores fill an initial segment of the iterations, and
  relates `best` and `misses` to its length.
* **JobProcessorProofs**: `Invariance` and, from it, type correctness (no version or
  iteration number leaves its range, so candidates and iterations stay in step),
  `AssertsNeverFail`, `RowTellsTheBest`, `CandidatesAreOfTheBest`,
  `RunsAreReconstructible`, `EarlierIterationsAreClosed`, `NothingStaysInFlight`,
  `StopReasonsAreTrue`, the action property `SeenIsFinal` (which no run checks),
  `CancelIsCheap` and `RunsAreBounded`.
* **JobQueueProofs**: type correctness, `JobsRunOnce`, `NoJobIsLost`, `NoJobRevives`,
  `OnlyRunsOverwrite` and `ShutdownIsShort`, for any number of jobs, services and restarts.
* **ProgressViewProofs**: type correctness, `CompletedMeansRun`, `CausesAreShown`, for
  any list of tasks, repeated ones included, and any limit.
* **SessionsProofs**: type correctness of accounts and tokens together,
  `AdminsAreFirst`, `LinesEndOnce`, and of the policy that listing and reading agree
  (`ListingIsPolicy`).
* **OptimizerProofs**: type correctness (at most two calls a request), `VersionsRun`,
  `FailuresStayContained`, `EditsAreMadeOnce`, for any evidence and any agents; of
  ContextBudget `TraceFitsItsLimit` and `FitFillsItsRoom`, by induction over the steps
  of a trace and the turns of the loop, and from them `BudgetsAreKept`.
* **HarborRunProofs**: type correctness, `RunnerIsAlwaysGone`, `PassesAreAlwaysEarned`,
  `ArtifactsStayOfTheRun`, `EmptyMeansCancelled`, `ProgressMovesForward` and
  `RunsEndSoon`, for any tasks, iterations and number of strays.
* **JobProcessorRefines**: `Refinement`, the processor implements HillClimb with all
  its awaits, races, exceptions and failed statements, and so keeps its promises
  (`RunsClimb`); `QueueRefinement`, it follows the queue's protocol, and so keeps the
  queue's inductive invariant (`RunsKeepTheQueue`).

**JobProcessor.** The invariant `IInv` has `TypeOK` and eight parts, each named for what
it relates: `RowInv` (the row and the canceller), `CopyInv` (the row and the copy),
`CountInv` (the counters: one version per iteration), `PastInv`, `PresentInv`,
`FutureInv` (iteration rows before, at and after the current one), `BestInv` (job row,
locals and rows agree on the best), `ParentInv` (candidates). None of the proved
properties is inductive by itself: that the row names the best iteration needs the
copy's best fields to equal the row's at every commit, which needs that no one else
writes them and that the copy is what was last flushed; that a seen cancellation is
final needs that the copy's status equals the synced one, so that a flush leaves the
row's status alone. Steps are grouped by what they write (`MoveStep`, `LookStep`,
`JobRowStep`, `TouchStep`, then one lemma each for the steps that write iterations and
versions).

`NothingStaysInFlight` and `StopReasonsAreTrue` need a second invariant on top of that,
`EInv`, of how a run ends: the time of the end is never taken back (`FinishedInv`), the
phase of the current row once it is judged (`ClosedInv`), the rejections in a row
against the counter, before and after a verdict (`PatienceInv`), and the reason that is
pending in the copy, or in the row, where a cancellation may have replaced it
(`StopInv`, with `BorneOut` for what a reason says).

`CancelCostsOneIteration` is nested: from any moment at which the job is cancelled and
iteration *n* not yet there, iteration *n* is never scored and *n* + 1 never inserted,
as long as the row says cancelled. What starts to hold at that moment is `CutShort`: the
processor is past its last look and only closes the job, or it is not beyond *n* and, if
at *n*, before the place where a score is stored. No commit takes the cancellation out
of the row before the last one (`StatusStays`), so that each step keeps `CutShort`.

**The two refinements.** For HillClimb the verdict is the one step that is not a stutter
or an end. For the queue, `QueueInv` adds that version 0 is stored exactly once the
set-up is over. The proof of the second found that the queue's model had missed a run
whose *load* fails; the action `RunAborts` was widened. Both modules' theorems are then
instantiated under the mappings (`HCP`, `JQP`), so that `RunsClimb` and
`RunsKeepTheQueue` follow from theorems about the abstract modules alone.

**JobQueue.** Exclusion rests on version 0: whoever works on a job has found it unstored
and has stored it (`HandInv`, which also says what the status of a job in hand cannot
be), and it is stored only for jobs that have left the queue (`TemplateInv`). `HeldInv`
says that a running job is in someone's hands or was cut off; which hands, once version
0 is stored, is the point of `Holds`: not those of a worker that will be refused.

**HarborRun.** The invariant ties each place of the thread to the runner (`RunnerInv`),
to where the thread will go next (`ContInv`), to the reason it left the loop (`WhyInv`)
and to the result (`PassInv`). `RunnerIsGone` alone is not inductive: the thread may be
waiting in a call from which it returns to reading the output, so `RunnerInv` speaks of
the place it returns to and of the remembered return code; and that it returns only once
needs `OneCall`, at most one call is its own. `TraceInv` adds that living processes and
what they wrote belong to this run or an outlived one.

`ProgressOnlyMovesForward` needs `ForwardInv` on top: what a row shows as completed has
its result on disk (`ShownInv`), where only the next run's clearing removes it; so a
scan finds it again (`ScanInv`), and the call that reports the scan adds to what is
shown (`MineInv`), because no other call of this run is alive while the thread is on its
way (`OwnersInv`): giving one up is a failure, after which only cleared lists are sent
(`ReasonInv`).

**ProgressView.** The invariant has one part per statement the reader has made
(`GotJobInv`, `GotRowsInv`, `GotOutcomesInv`, `GotProposedInv`, `GotNewestInv`): what
was read is a lower bound of what is there now. They are kept because what readers rely
on only grows (`Grows`): results are never removed, iterations and versions are only
added, and nothing is added once a job has completed. The writer's half says which rows
are full, that a scored result is of a task that was run, and that a task in neither
list of a row without results has been run unless the lists were emptied (`FullInv`,
`ListInv`, `RunInv`).

**Sessions.** A creation that was let through is an administrator's or has not overtaken
one (`AskedInv`); lines are named after earlier tokens, and only lines that exist can
have raced or ended (`LinesInv`), so that a login begins a fresh one; `EndsInv` states
`LinesHaveOneEnd` of every number, beyond the bound.

**Optimizer.** `Sound` says what a proposal is whoever made it, `FitsInv` that a request
which got as far as the model fits the prompt of the fall back, `RaisedInv` what a
failure then leaves.

Packing and fitting are recursive functions over the steps of a trace and over the
records. The library's induction rules take the property as an operator, which the
provers cannot instantiate; here it is given as the *set* of the numbers that have it,
and `Induction` and `Recursion` are derived once from the library's `WFMin` and
`WFInductiveDef`. `FitFillsItsRoom` then says, for records of any sizes in any order and
any budget, that the chosen ones fit, stand in their order and whole but for their
traces, and that one that was left out does not fit beside the others; so no assumption
about the folds is left.

**Termination without fairness.** `RunsAreBounded`, `ShutdownIsShort` and `RunsEndSoon`
are what can be proved of `ProcessorTerminates`, `ShutdownEnds`, `CancelEndsRun` and
`DeadlineEndsRun`: a natural number that every step of the process concerned lowers and
nothing else raises. A run of the processor takes fewer than 20 * (max_iterations + 1)
steps of its own; a worker told to stop takes five more and no new job; a thread whose
job is cancelled or whose time is up takes at most 24 and two for each task directory.
That the steps are taken is left to fairness.

The assumptions are those on the constants: positive limits (the schema enforces 1..50
and 1..20, `app/schemas/job.py:30-36`), natural scores, Boolean switches.

For the other modules: a service's default names are among the possible ones, the
template is a runnable agent, lengths are natural numbers.

Every safety property of the passing runs is a theorem. *Model-checked only* are the
five liveness properties, `ProcessorTerminates`, `QueuedJobsAreTaken`, `ShutdownEnds`,
`CancelEndsRun` and `DeadlineEndsRun`: they need fairness, that is ENABLED, which the
prover does not reason about. Of all but `QueuedJobsAreTaken`, whose measure
would range over the jobs ahead and every worker, the half without fairness is proved.

## 5. Not modelled, and why

* The learnings text, the diff and the wording of `build_recent_attempt`: they feed the
  prompt and steer nothing in the loop; their sizes are in ContextBudget.
* Parsing of a model's answer beyond well-formed or not, per-task deltas, the texts of
  traces and verifier reports.
* Access tokens and passwords: no row records a token's signature or expiry, so a
  request has an actor or none; verifying a password is a pure function of a library.
* Paging, the listing and reading of agent versions (their rows never change), fields
  copied unchanged, field validation, cascades (nothing is deleted).
* The drawing of rewards, traces and delays in the simulated executor, what is written
  into Harbor's workspace before a run, logs.
* The agent template: source text stored as version 0, which runs in a sandbox outside
  this service. Its size and shape are a constant of Optimizer.
* Clients and scripts: they call endpoints that are modelled and keep no state the
  service depends on.
* Engine construction, settings, table creation, OpenAPI export.

## 6. Plan

Done, in the order of how much of the service depends on them: HillClimb, JobProcessor,
JobQueue; HarborRun; ProgressView; Accounts and Sessions; ContextBudget and Optimizer;
with proofs of each and the refinement of HillClimb by JobProcessor.

Left:

1. ProgressView's reader over HarborRun's thread itself, whose late calls may commit
   old lists, in place of what Harbor reports in ProgressView.
2. An abstract line of refresh tokens (one usable end, or raced, or over) that
   Sessions implements.
3. The upper bounds on a prompt as a whole, from those on its sections.
