# PolicyAnalysisSystem: a verification project

TLA+ models of the service and its browser client in `src/src/app`, the TLC
configurations that check them, and TLAPS proofs of the safety properties they
have (section 4). Python paths below are relative to
`src/src/app/backend/policy_analysis/`.

1. [The system](#1-the-system)
2. [Modules](#2-modules)
3. [Runs](#3-runs)
4. [Proofs](#4-proofs)
5. [Deviations found](#5-deviations-found)
6. [Not modelled](#6-not-modelled)
7. [Plan](#7-plan)

Check a model with `tlc -config TaskCenter_faults.cfg MCTaskCenter.tla`, the
proofs with `tlapm TaskCenterProofs.tla`. `PROJECT.json` ties every definition
to the lines it models and names, for every property, a broken variant of the
code that violates it.

## 1. The system

One process (FastAPI, SQLite through SQLAlchemy, APScheduler) collects policy
articles from news sites and analyses them. A browser client and AI clients
(HTTP and MCP) use it. Everything below runs in threads of that process.

Two facts about the platform shape all models:

- *Transactions take their lock late.* `core/database.py` leaves pysqlite's
  transaction mode alone: a transaction locks the database at its first write,
  and a SELECT before that may be stale when the write comes. Only where a
  process-wide lock (`TaskWorker._lock`, `_SCHEDULE_LOCK`, `_WRITE_LOCK`)
  covers a whole transaction is it one step.
- *The ORM writes the columns that changed.* Two overlapping updates of one row
  merge column by column.

| Part | State | Operations | Interacts with | Hard behaviour | Correct if |
|---|---|---|---|---|---|
| Task table (`tasks/models.py`, `repository.py`, `state.py`) | `crawl_tasks`: status, rule, cancel mark, counters; items; logs | create, claim, cancel, finish, recover | all threads below | select-then-update without a transaction lock; late writers | one running task per rule, oldest first; terminal is for ever |
| Worker (`tasks/worker.py`) | pool, lock, futures | start, submit_next, _run, _discard_future, shutdown | requests, timers and its own jobs call submit_next | one claim per wake-up; a callback under a lock that is not reentrant; exceptions outside the try | no orphan, no lost wake-up, no self-deadlock, waiting tasks are run |
| Lifespan (`main.py`) | application state | recover, start, shut down | worker, scheduler | crash and restart; timers firing into a closing pool | only orphans are recovered |
| Run of a task (`tasks/runner.py`) | local flags; items, policies and counters it writes | load, discover, fetch, one transaction per item, decide, finish | fetch client, policy store, cancel requests | interruption between any two transactions | status, counters, items and policies tell the truth |
| Rules (`sources/service.py`) | `collection_rules` | create, update | scheduler, job runs write the same rows | stale validation by overlapping saves | only active rules are scheduled, a manual rule has no schedule |
| Scheduler (`tasks/scheduler.py`) | jobs by rule; `_SCHEDULE_LOCK` | sync_jobs, enqueue_rule | rules, task table, worker | remove–read–add without a lock; firing meanwhile | jobs are the eligible rules; a firing creates its task |
| Policy store (`policies/service.py`) | `policies`, `policy_revisions`; `_WRITE_LOCK` | upsert | runs of all tasks | chains of upgrades and updates; two time zones | one policy per meeting, nothing lost, sources only rise |
| Analysis tasks (`analysis/`) | task, words, relations, report | create, claim, store, finish, recover | its worker; policies that collection rewrites | three transactions per result; wake-ups | who succeeded shows the whole correct result of one reading |
| Analysis engine (`analysis/engine.py`) | none | word counts, TF-IDF, co-occurrence, comparison | analysis runner | ties, empty texts | equals the definition by counting |
| Users and password file (`auth/service.py`, `password_file.py`) | file, copy of the former file, `users`, `sessions` | synchronise, create, change, deactivate, login, logout | both stores, edits by hand | file replaced before the commit; directory sync fails; restart forgets the previous names | file and table agree; an active administrator remains; no old session lives |
| Login limiter (`auth/service.py`) | windows per peer and account, key locks | guard, ensure_allowed, record_failure, clear | logins | bound on keys, expiry, concurrent attempts | the bound holds; room is not wasted |
| Automation interface (`ai/`) | credentials, tokens, idempotency records, request windows | issue, revoke, exchange, keyed writes, tools | routes of the application | repeated, concurrent and abandoned writes; revocation under way | one effect and one answer per key |
| WebFetch client (`collectors/webfetch.py`) | none | fetch with retries | external service | errors that may be retried | bounded attempts |
| Collector (`collectors/xinhua.py`) | none | discover, merge, extract, classify, clean | runner | order of rules; the same article as seed and as link | seeds are judged, bodies are whole |
| Catalogue (`sources/bootstrap.py`) | sources, rules, seeds | ensure, import at every start | start-up, operators | interrupted starts, edited rows | complete and never taken away |
| Browser client (`frontend/src`) | per tab: user, CSRF token, page, timer; shared: cookie | login, restore, logout, poll, cancel | HTTP interface, other tabs | late answers; a cookie other tabs change | nobody acts as another; pages left are quiet |

## 2. Modules

    TaskLifecycle              what the task table promises
      ^            ^
      | refines    | refines
    TaskCenter   TaskRun       many tasks and threads / the inside of one run

    RuleSchedule               rules, saves, scheduler jobs
    PolicyStore                deduplication of articles

    Collector <- Collection    pure decisions / start-up, fetching and a run over them

    AnalysisLifecycle          what an analysis promises, results defined by counting
      ^ refines
    AnalysisTasks -> AnalysisEngine     worker and transactions / pure functions

    PasswordFile <- UserAdmin  replacing the file / file, table and sessions together
    Automation                 credentials, tokens, keyed writes
    Tables <- LoginLimiter     an OrderedDict / windows of failed logins
    Tables <- CallLimiter                     / calls counted by minutes
    Browser                    tabs, identity, polling, and the checks of the server

    TaskCenterProofs   TaskRunProofs     AnalysisTasksProofs  RuleScheduleProofs
    AutomationProofs   BrowserProofs     theorems about the module of that name
    AccessProofs                         about UserAdmin, LoginLimiter, CallLimiter
    ArticleProofs                        about PolicyStore and Collection

Modules named `MC...` add what TLC needs (symmetry sets, tables of inputs).
Each module keeps next to a definition its *broken variant*, marked as such:
the same definition with a plausible bug, used by no specification, only to
show that a property can fail. Each has a type invariant, `TypeOK` (`CollectionTypeOK`, `LimiterTypeOK` and
`CallTypeOK` where modules are put together); TLC was run on all of them, but
outside TaskCenter no run repeats it, because section 4 proves it.

**TaskLifecycle** is the abstract specification. Its state is four columns of
`crawl_tasks` (`status`, `rule_id`, whether `cancel_requested_at` is set) and
`doomed`, which remembers that the mark was there at the claim. Its actions
are the writes of `tasks/repository.py`. `Outcome` says what a run may end
with: `cancelled` only if it was asked for, no success for a doomed task.

**TaskCenter** implements it for many tasks. `pc[th]` is where a thread is:
requests and timers (`idle`, `cancel`, then inside submit_next), the main
thread (`down`, `boot`, `wake`, `serving`, `draining`), and the job of each
task, which is a thread named by its task (`queued`, `starting`, `running`,
`discard`, `ended`). `submit_next` is four steps, because others act between
them: `Select` and `Claim` (the two statements of `claim_next`), `Submit`
(`executor.submit`) and `AddCallback`. The `concurrent.futures` semantics that
matters is modelled: a callback added to a future that is already done runs in
the calling thread. The run itself is one step, `Finish`. `Exit` waits for
every accepted job, as `executor.shutdown(wait=True)` does; `Crash` leaves the
table and nothing else. The constant `Faults` says which failures may happen:
`claim` (`claim_next` raises), `start` (`runner_factory` or the first log
raises, outside the `try` of `_run`), `finish` (`TASK_FINALIZE_FAILED`).

**TaskRun** is the run of one claimed task, one step per transaction or fetch,
with `pc` for the place in `run_claimed`. Candidates are reduced to whether
they are verified seeds, an article to how its processing ends (stored,
updated, duplicate, filtered, failed); a request that cancels is two steps
(`asking`). It implements TaskLifecycle with one task, so its `Finish` yields
exactly what TaskCenter's `Finish` takes for granted: the two refinements meet
in `Outcome`.

**RuleSchedule** has the trigger columns of the rules, the scheduler's jobs,
the requests that save (`CreateRule`; `UpdateRule` selects, merges and
validates, `WriteRule` writes the changed columns) and rebuild the jobs
(`SyncBegin`, `RemoveJob`, `ReadRules`, `AddJob`, `SyncEnd`), and the firing
jobs (`Enqueue`, then `CheckDue`, `CreateScheduledTask`, `SelectRun`,
`RecordRun` under `_SCHEDULE_LOCK`). Time is a count of firing instants at
which every cron expression fires. `JobsMatchRules` reads only between
requests (`Quiet`).

**PolicyStore** has the tables `policies` and `policy_revisions`; a write is
one action because `_WRITE_LOCK` covers its transaction. `written` and `last`
are history: every content each policy ever had, and the last write.
`AcrossSources` and `WithinSource` are the two stages of `_upsert`. Times are
slots of eight hours from midnight UTC, enough to tell a UTC day from a day in
Beijing: the third slot of a day is already the next day there.

**AnalysisTasks** has the worker of `analysis/worker.py` in the steps of
TaskCenter (without cancel and without rules), and `runner.py` as its
transactions: `Load` reads the texts, `StoreResults` writes words or the
report, `StoreRelations`, and finish; `RunFails` interrupts it anywhere and
`HandlerFails` is the failure of the handler itself. Two more failures are the
worker's: `ClaimFails` (`claim_next` raises inside `submit_next`, in a request,
at the start or in the `finally` of a job, which then wakes nobody) and
`StartFails` (before the `try` of `_run`). `MaxFaults` bounds them. Collection changes texts
at any time (`Rewrite`). Jobs enter the pool in the order of their numbers, so
its queue needs no variable. **AnalysisEngine** has the functions of
`engine.py`: a document is its text without the places of dropped tokens, a
Counter knows which of its words came first (the relation `before`), because
`most_common` breaks ties by it, and fractions stay pairs of integers.
**AnalysisLifecycle** says what is right by counting occurrences in the texts,
sharing no operator with AnalysisEngine; the mapping shows the rows of a
succeeded task as its output, and `loaded` as its reading.

**PasswordFile** is `replace_password_file_contents`: one step for each action
on the file system, each of which may fail, ending in one of the states the
code reports. `durable` and `backup` are the disk. **UserAdmin** instantiates
it, adds the table, sessions and the process's memory of the file
(`_last_usernames` and the fingerprint, here `seen`), and has one step for
each place where an operation can fail or die: change the table in an open
transaction, replace the file, commit, record; or compensate and synchronise.
Logins verify and store in two steps. The histories `late`, `excused` and
`owed` are what the properties except and expect.

**Automation** has the rows of `ai/models.py` and one record per call with its
stage: admitted at the door, the body awaited, the key looked up, its record
inserted, the handler run, the answer registered; each is a transaction of its
own. A tool call enters twice. **LoginLimiter** and **CallLimiter** have
the two limiters, each with its `OrderedDict` as a sequence of rows (**Tables**),
and LoginLimiter the whole of a login attempt between guard and outcome. They
share nothing with each other nor with PolicyStore; MCTables checks the three in
one run, one of them in each behaviour.

**Collector** holds what is decided without state: allowed hosts, links,
dates from the hints of a page, the rules in their order, the cleaning of a
body. Texts are reduced to what the rules look for: a body is a sequence of
pieces (policy text, a date, a breadcrumb, a breadcrumb glued to text, a source,
a credit label, a seal, a credit block with what is in it, marks, breaks), and
`Clean` says which places are kept, in the five steps of `_clean_content`. A
flattened text is one without breaks. Its comprehensions are selections
of places from a sequence (`Selected`), not recursive filters, so that they can
be reasoned about. **Collection** composes it:
start-up with its two transactions per scenario (repeated after `Crash` or
`StartFails`), edits of operators, and one run that asks for addresses,
articles and paragraphs, each with bounded attempts. An empty text is refused
(`PolicyWrite`), as other articles may be (`StoreRefuses`): the item fails. TaskRun has the same run
from the side of its transactions.

**Browser** has the tabs and the calls under way. A call is a request with the
cookie and the token it was sent with, then an answer, then nothing; `Handle`
and `HandleLogin` are the server, the actions named `Receive` what the tab
does with the answer, 401 included. A page of a task is `mounted` or left, and
its polling off, loading, waiting for the timer or for an answer. All users
may cancel tasks. The effect of a call on the server is one step with its
checks.

## 3. Runs

Runs that pass:

| Run | Instance | Shows |
|---|---|---|
| center_crash | 3 tasks, 2 rules, 1 timer, pool of 2, 1 crash, fair | `RunningIsOwned`, `NoLostWakeup`, `NoSelfDeadlock`, no deadlock, and `PendingIsSettled`: tasks that wait are settled across shut-down, crash and restart |
| center_faults | 2 tasks, 2 rules, 1 request thread, 1 timer, every fault, 1 crash | `OneRunningPerRule`, `JobOwnsItsTask`, refinement of TaskLifecycle |
| run_all | 2 seeds, 2 addresses, 3 candidates, exceptions, a crash, fair | `RowTellsTheTruth` (status, counters, finish and doom), `CancelStopsWork`, `ItemsMatchPolicies`, `RunSettles`, refinement of TaskLifecycle |
| schedule_single | 2 rules, 2 cron expressions, 3 saves, 1 firing, 1 restart, one administrator, fair | `ScheduleIsConsistent` (rows, announcements, jobs), `LastRunIsLatestTask`, `FiringCreatesTask` |
| tables | 3 sources of 2 ranks, 2 addresses, 2 contents, 2 publication times (one of the night), 2 crawl times, 2 rows; in other behaviours 3 accounts (two share a lock), 2 logins at once, 2 places; 3 callers, 2 places; 6 instants | `NothingIsLost`, `PoliciesNeverFallBack`, `RepeatIsDuplicate`, `GuessesAreBounded`, `LimitHolds`, `RoomIsNotWasted` |
| users_all | 2 users, 2 passwords, 2 updates, 1 login, 1 edit by hand, 2 failures, 1 death | `ReportIsHonest`, `OldCopyIsKept`, `RowsFollowFile`, `NamedIsActive`, `SessionsAreCurrent`, `AdminIsKept` |
| analysis | 2 tasks, 2 policies, texts of 3 and 4 tokens, 1 thread, 2 failures (of claim, start, run or handler), 1 rewrite, 1 crash, fair | refinement of AnalysisLifecycle, `PendingIsSettled` |
| automation | 2 credentials, 1 token, 2 calls with one key and 2 requests, 1 change of the user, 3 instants, crashes | `OncePerKey`, `AnswersAgree`, `WithdrawnDoesNothing`, `AbandonedOnlyByFault` |
| collection | 2 scenarios with 3 seeds (one on a subdomain, one too old), 2 addresses, 1 article with 15 pages, 2 attempts, 2 edits, 1 crash, fair | `SeedsAreJudged`, `BodyIsKept`, `StartCompletes`, `RunsEnd` |
| browser | 2 users, 2 tabs, 1 page, 2 sessions, 4 openings, reloads and logins together, 1 network failure, fair | `NobodyActsAsAnother`, `LeftPagesAreQuiet`, `PageSettles` |

Why the bounds are enough. Three tasks of two rules on a pool of two are the
least in which a task waits for its rule while another one waits for a thread.
Two tasks and a request next to a timer, a job and the main thread let every
pair of writers meet; the proofs cover the rest. Three candidates show a
success, a failure and a remaining candidate together; the two kinds of
candidates and two addresses give every combination of the facts that
`Decision` looks at. Three saves are a creation and two updates of a rule, or
updates of one rule around the other's. Three sources contain a pair of equal
and pairs of different rank, two rows a collision. Two users are one who is changed and one who
remains; two updates a change and its repetition or revocation; two failures
one of the update and one of its compensation. Two analyses are one that fails
and one that waits for its wake-up, two failures one that breaks the chain of
wake-ups and one of what might mend it; the texts contain ties, a repetition
and a stop word, a request may name a policy twice. Two calls with one key are a repetition, a race or a conflict.
Three keys in a table of two is the least where one is turned away or dropped
while another is in use; six instants are three windows. Two scenarios give a
start a place to die between them. The pages put each kind of line at the front
and at the end, behind another one and before a text; the proof is for texts of
any length. Two tabs of two users are the least in which
the cookie is not the one a tab believes in; the shared bound of 4 admits two
tabs with two logins, or with a login and a page. `MaxTask`, `MaxCrash`,
`MaxSave`, `MaxNow`, `MaxPolicy` and the other bounds only stop counters that
are unbounded in the program.

Deadlock is checked where the system has no end (center_crash, users_all, and in
tables the behaviours of PolicyStore).
Elsewhere the configurations say CHECK_DEADLOCK FALSE: a run of one task ends,
bounded saves, calls and instants run out, a closed browser does nothing, and with the fault `start` a thread may
wait for the lock it holds itself (see 5).

Symmetry is used in runs without liveness properties only: the rules of
center_faults, the addresses and contents of tables, with the logins and accounts, users and
passwords, credentials and calls.

Fairness:

- TaskCenter: weak fairness of each thread inside `submit_next`, of each job
  and of start-up, recovery and exit. Threads of the process are scheduled by the
  system, and a run ends since fetches time out and candidates are finitely
  many. Nobody has to create, cancel, shut down or crash; that somebody starts
  a stopped service again is an assumption about the operator. Weak fairness
  of the lock's users is enough because a thread that holds the lock always
  releases it and finitely many threads compete.
- TaskRun: weak fairness of the claim, of the steps of the run and of recovery.
- RuleSchedule: weak fairness of a save once begun, and of a job run.

- AnalysisTasks: as TaskCenter: threads inside `submit_next`, jobs, start-up
  and exit.
- Collection: a run that has begun goes on; its thread does nothing else, and
  every request ends by its timeout. Starts and edits are not forced.
- Browser: requests are handled, answers to a page arrive, timers fire, and the
  task ends, as `RunSettles` says. Nobody has to click.

PolicyStore, UserAdmin, Automation and the limiters have no liveness: nothing
has to be written, changed or called.

Runs that are violated, each by what section 5 describes: store_midnight
(`OnePolicyPerMeeting`, 1) and collection_empty (`BodyIsNeverEmpty`, 9).

## 4. Proofs

The theorems hold for every value of the constants: any number of tasks, users,
calls, tabs, seeds and so on, and any bounds of the counters. Each component has
an inductive invariant (`IInv`; `LimiterIInv`, `CallIInv`, `CollectionIInv`),
proved in three lemmas: it holds initially, every step keeps it (one lemma per
action, or per group of actions that change the same things), and the
properties follow. TLC has checked every such invariant on the instance of the
component's run before it was proved. Every invariant and every action property
of a passing run is stated by one of these theorems, but for
`ScheduleIsConsistent`: the code lets saves overlap, and then it is false.

| Module | Theorem | Property |
|---|---|---|
| TaskCenterProofs | RuleExclusion | `OneRunningPerRule` |
| | JobsOwnTheirTasks | `JobOwnsItsTask` |
| | RunningTasksAreOwned | `RunningIsOwned` |
| | WakeupsAreKept | `NoLostWakeup` |
| | NoThreadWaitsForItself | `NoSelfDeadlock` |
| | Implementation | `ImplementsLifecycle` |
| | SelectionsHold, LockExclusion, FinishedForGood | `SelectionHolds`, `LockHasOneOwner`, `TerminalIsForever` (proved only) |
| TaskRunProofs | RowsTellTheTruth | `RowTellsTheTruth` |
| | CancelEndsWork | `CancelStopsWork` |
| | ItemsHavePolicies | `ItemsMatchPolicies` |
| | Implementation | `ImplementsLifecycle` |
| AnalysisTasksProofs | EngineComputesThePromise | `EngineIsCorrect` of every reading |
| | Implementation | `ImplementsAnalysis` |
| RuleScheduleProofs | LastRunsAreKept | `LastRunIsLatestTask` |
| AccessProofs | ReportHolds, CopyIsKept | `ReportIsHonest`, `OldCopyIsKept` |
| | TableFollowsFile, NamedUsersAreActive | `RowsFollowFile`, `NamedIsActive` |
| | SessionsHold, AdministratorRemains | `SessionsAreCurrent`, `AdminIsKept` |
| | GuessesBounded, RoomHolds | `GuessesAreBounded`, `RoomIsNotWasted` |
| | CallsAreLimited | `LimitHolds` |
| AutomationProofs | KeyWorksOnce, AnswersAreTrue | `OncePerKey`, `AnswersAgree` |
| | WithdrawnHasNoEffect, KeysAreAbandonedByFault | `WithdrawnDoesNothing`, `AbandonedOnlyByFault` |
| ArticleProofs | TextsAreKept | `NothingIsLost` |
| | RowsNeverFallBack, RepeatsAreDuplicates | `PoliciesNeverFallBack`, `RepeatIsDuplicate` |
| | StartsHold | `StartCompletes` |
| | SeedsHold, BodiesHold | `SeedsAreJudged`, `BodyIsKept` |
| BrowserProofs | WritesAreTheUsersOwn, OnlyEarlyLeaversAsk | `NobodyActsAsAnother`, `LeftPagesAreQuiet` |

Type correctness is proved for all components (`TypeCorrect` in TaskCenterProofs,
`LimiterTypesHold`, `CallTypesHold`, `CollectionTypesHold`, else `TypesHold`),
in RuleSchedule also for saves that overlap.

**Assumptions.** The named ASSUMEs of the modules, which TLC evaluates in every
run: kinds of threads are disjoint, bounds are numbers, the placeholders `None`,
`Free`, `Nobody` are not values of the data they stand beside, a request names
at least one policy and policies are finitely many. Collection assumes of the
packaged manifests what `load_seed_manifest` and its `_validate_entries`
(`sources/bootstrap.py`) refuse to start without: hosts under the domains, days
as in the addresses, no address twice; and of what comes from outside only its
shape (`AnswersAssumption`), never what it says. A text is a finite sequence of
numbers, which stand for its words in their order: the words of the texts at
hand are finitely many and can be numbered so. No theorem has a
hypothesis of its own.

**TaskCenter.** None of the properties is inductive alone. `IInv` joins them
with what they lean on:

- `LockHasOneOwner` makes the thread inside `submit_next` unique. Hence what it
  selected cannot be claimed by another (`SelectionHolds`); new rows come
  with greater identifiers (`IdsAreContiguous`), so it stays the oldest.
- `SelectionHolds` makes the update of `claim_next` always hit, which gives
  `OneRunningPerRule` and the order the refinement asks for.
- `ClaimIsFresh`, `WaitingIsIdle` and `QueueHoldsJobs` keep one job per task;
  with them `JobOwnsItsTask` is preserved by every other thread's steps.
- `BootIsAlone` says that recovery runs while nobody else does, so it fails
  orphans only.
- `CallbackJobLives`: between submit and add_done_callback the job cannot be
  over, because at its end it needs the lock. That is `NoSelfDeadlock`, and
  why it fails if a start may fail: that path skips the lock.
- `RunningIsOwned` and `NoLostWakeup` follow: the owner of a running row calls
  submit_next when it ends, and whoever frees a rule is then the waker.

`StepRefines` maps each step to a step of TaskLifecycle or to a stutter under
the identity mapping of the four table variables; the steps of locks, queues
and threads stutter.

**TaskRun.** A status is decided from flags, the flags are set as items end, and
the item in progress is marked failed beforehand. So `IInv` says what the flags
tell of the items (`FlagsTellTheWork`, but for `InProgress`), what the verdict
tells (`VerdictIsHonest`), that a doomed task never reaches its candidates
(`DoomedDoesNoWork`), and how far the items may run ahead of a cancel request
(`CancelIsSeen`). The counters are those of the items, and the stored and
duplicate ones those of the committed policies (`CountsMatchItems`). The lemma
`CountsAddUp` bounds each counter by the number of items and shows that the four
of `finish` add up to it: they count disjoint sets of positions.

**AnalysisTasks.** `RowOK` and `JobOK` say, by the place of a job, what its row,
its memory and its three results hold: nothing is read before `Load`, what is
stored at `finish` is the outcome of what was read. `StoresAreUnseen` is the
reason for three transactions being one: the mapping shows a task's results
only once it has succeeded. `DownIsIdle` gives start-up the right to fail what
is running. `UniqueIsList` shows that `dict.fromkeys` yields at most as many
policies as there are; it rests on `RanksAreTaken`: in a finite set in a strict
order each rank is taken once, by the pigeonhole principle instead of an
induction.

**AnalysisEngine.** `EngineComputesThePromise` compares two ways to say the
same: the engine adds up the counters of documents and sorts, the promise counts
places in the texts. It needs no induction either:

- `SumIs`: a sum of the sizes of disjoint sets is the size of their union. The
  sum is the library's recursive `SumFunction`; a smallest subset for which it
  is wrong (a least number exists by the well-foundedness of Nat) leads to a
  smaller one. With it the length of a document (`LengthIs`), the total of a word
  (`ScoreIs`) and the products of a cosine (`DotIs`) are numbers of places.
- `TotalsAre` and `FirstTextFirst`: the order in which the totals meet their
  words, document by document, is the order of first places (`AppearanceOrders`
  shows that it is a strict order, since every set of places has a first).
- `LeadingIs` and `ScoreOrders`: what sorting by score, with ties broken by such
  an order, lists first is what has so many before it; hence top words, keywords
  and the lists of a comparison (`TopIs`, `KeywordsAre`, `RankedIs`).

TLC evaluates the same statement (`EngineCheck` in MCAnalysisTasks) on every
single text and every pair of texts of up to three tokens out of three words and
a stop word, on threes, and on the texts of the run.

**RuleSchedule.** Column-wise writes (`WrittenRow`) make `LastRunIsLatestTask`
inductive for any number of administrators: saves never change `last`
(`SavesKeepLast`), and what a job run selected is still the row's `last` when it
writes (`JobsWriteLast`). `ScheduleIsConsistent` is no theorem. The lemma
`OneScheduleHolds` has a hypothesis the code does not see to, `OneAdmin`: saves
come one after the other. It shows that nothing but their overlapping is to
blame (section 5, 5 and 6). For it `OneInv` adds that a save
writes over the trigger it selected (`SavesAreCurrent`), that job runs write
run times only (`JobsAnnounce`, `RunKeepsTrigger`), and where `sync_jobs` is:
all jobs are still to be removed, or exactly the planned ones to be added
(`SyncIsAlone`).

**UserAdmin.** One invariant for the replacement of the file
(`ReplacementIsOrderly`: which contents the file, its copy and the goal have at
each step) and the transaction around it: the draft of the table goes with the
goal, the committed table with the original (`UpdateIsConsistent`), so that any
failure leaves a pair that agrees or that the process does not believe to have
seen (`SeenIsSynchronised`). `AdminRemainsEverywhere` says that an administrator
remains in every pair of table and file contents that may come to be together.

**LoginLimiter.** A row of the table may vanish while its account is being
verified, and failures outlive neither their row nor their window. So the
history cannot be compared with the table as such: `Matches` says that, as of
now, the unexpired failures of each row are the unexpired reports of its
account, and that who has no row has no unexpired report. It holds because rows
stand in the order of their last failure and a row's failures are no later than
that (`Sound`): what is taken from the front of the table, or of a row, is all
that has expired (the lemmas about `Expired`, whose number exists since a
greatest one does). One thread is inside an attempt for a lock (`OneVerifier`),
so whoever was let in may still fail once (`RoomForOneMore`).

**CallLimiter.** A key that calls in this minute is dropped only if the keys
behind it fill the table. They have been used since, so in this minute, and
belong to other callers (`OldestUseFirst`, `RowsAreOfCalling`): more than
`Capacity` callers then, by the pigeonhole principle, which is what the property
excepts. Otherwise each caller's row counts its calls (`CallingAreCounted`).

**Automation.** The heart is that a record is never removed: a call that has won
its key has a record made for its own request (`WorkIsRecorded`), so nobody else
wins it (`OneWorker`); answers that are told are the registered one
(`ToldIsRegistered`), and a registered one has a call that did it
(`RegisteredIsDone`).

**PolicyStore.** `NothingIsLost` is inductive on the types; `RepeatIsDuplicate`
needs `LastIsSettled`: an article just written is found again at its own
address with its content, which uses that the look-up takes the least of the
rows it finds (a least number exists by the library's well-foundedness of Nat).

**Collection.** `StartCompletes` speaks of the last step of a start, but what it
says was done in many: `BootSound` says that the scenarios before the current
one have complete rules, which nothing takes away during a start, and
`RulesSound` that a rule has each address once. `SeedsAreJudged` needs that the
table of candidates has every frozen seed of the window from `Start` on
(`SeedsAreFound`), although links are merged into it by address (`MergeLinksIs`),
and that a verified candidate which is not stored fails the run. `BodyIsKept`
needs that an accepted article has a known publisher (`ClassifyIs`), and what
`Clean` keeps (`CleanIs`): the lines dropped at both ends are whole and have
nothing that is owed (`OwedIs`, `BetweenIs`), the header that goes ends before
the first policy text, and the tracking id and blank lines are none. Facts about selections from a
sequence take no induction: the rank of a place, how many chosen places come up
to it, is an injection into as many numbers as there are places, hence onto
them (`SelectedIs`).

**Browser.** A new session is known to its login alone (`LoginsAreFresh`), a tab
that restores its user has nothing else under way (`StartIsAlone`), hence the
tab that holds the token of the cookie's session shows, or is about to learn,
its owner (`IdentityIsCurrent`, `MeIsCurrent`), and a write under way carries
that pair (`WritesAreSigned`).

**Only model-checked.** Liveness (`PendingIsSettled` of both workers,
`RunSettles`, `FiringCreatesTask`, `RunsEnd`, `PageSettles`): it needs fairness
and ENABLED, which are out of the prover's reach.

## 5. Deviations found

With a run that is violated, or with a configuration that shows them when TLC is called by hand,
for example `tlc -config RuleSchedule_skew.cfg MCRuleSchedule.tla`:

1. **One meeting, two policies** (run store_midnight, `OnePolicyPerMeeting`).
   Reports published between midnight and eight in Beijing are compared by the
   UTC day that is stored (`policies/repository.py:68`).
2. **A task that cannot start stays running** (`TaskCenter_startfails.cfg` of
   MCTaskCenter, `RunningIsSettled`). `_run` builds the runner and writes the
   first log before its `try` (`tasks/worker.py:71`), and the future's exception
   is read by nobody. A malformed `base_url`, which `core/settings.py` accepts,
   is enough. The rule stays blocked and `submit_next` is not called until the
   next start. If the start fails before the callback is added, the submitting
   thread also waits for the lock it holds (`NoSelfDeadlock` is stated, and
   proved, without that fault).
3. **A cancel request during the last candidate** (`TaskRun_cancel.cfg` of
   TaskRun, `CancelSeenAfterItem`) is not looked at if that candidate is
   filtered (`tasks/runner.py:163`); another failure then decides the status.
   The design, line 447, asks for the check after each candidate.
4. **A manual rule with a next run** (`RuleSchedule_manual.cfg` of
   MCRuleSchedule, `ManualHasNoSchedule`). A job writes `next_run_at` in a later
   transaction than the one that creates its task (`tasks/repository.py:190`);
   the rule may have become manual. `collection-rules/spec.md:50` says it is
   cleared.
5. **A scheduled rule that is inactive** (`RuleSchedule_skew.cfg`,
   `EnabledIsActive`). Two overlapping saves validate what they selected and
   write what they changed (`sources/service.py:96`), against line 34 of that
   specification.
6. **A stale job** (`RuleSchedule_sync.cfg`, `JobsMatchRules`). Two requests
   rebuild the jobs at the same time (`tasks/scheduler.py:55`); the one that read
   first may add last. Line 53 of that specification excludes it.
7. **A correction that never arrives** (`PolicyStore_correction.cfg` of
   PolicyStore, `OwnRowIsUpdated`). The search across sources comes first and
   returns (`policies/service.py:124`): a stored article whose corrected title
   meets a policy of another source is answered duplicate or a conflict.
8. **A seed no run can accept** (`Collection_subdomain.cfg` of
   MCCollection, `SubdomainsAreAllowed`). `sources/bootstrap.py:34` and
   `sources/service.py:372` accept subdomains of an allowed domain, and
   `policy-collection-dedup/spec.md:50` asks for it; `collectors/xinhua.py:198`
   compares hosts exactly. The packaged seed on `cpc.people.com.cn`
   (`xinhua_finance_council_seed_urls.json:45`) is refused
   (`DOMAIN_NOT_ALLOWED`) as long as the source has the default domains, and as
   it is a verified seed, every run of its rule ends failed.
9. **An accepted article without a text** (run collection_empty,
   `BodyIsNeverEmpty`). A line that merely begins with the label of a credit
   ("记者：") is dropped at the front and at the end (`collectors/xinhua.py:388`,
   `:394`). A flattened text is one line, so the record of a press conference may
   lose all of it when its paragraphs cannot be had. `PolicyWrite` refuses the
   empty text (`policies/schemas.py:51`, `:66`): the item fails, and with a
   verified seed the run. `policy-content-cleaning/spec.md:50` and line 19
   exclude it. In the same way a page of several lines loses policy text in a
   first or last line with a label, inside a credit block of up to 300 characters
   and glued to a breadcrumb: `BodyIsKept` says what is not lost (`Owed`).

Seen while modelling and part of the models, without a configuration:

- `sync_jobs` removes the jobs of all rules before it adds them again. A firing
  instant in between (`Tick` between `RemoveJob` and `AddJob`) is missed also
  by rules nobody saved.
- The comparison of days (`Meeting`) also finds what it must not: a report of
  one day is a duplicate of a policy published in the night after it. A source
  that reports one meeting at two addresses has two policies, and a better
  source upgrades the first one only.
- The analysis runner means never to leak (`analysis/runner.py:77`), but
  `_safe_log` suppresses only its own errors and `finish` may raise: the task
  stays running until the next start (`HandlerFails`). A failed analysis keeps
  the words it has stored, and the lists (`analysis/service.py:86`) show the rows
  of tasks whatever their status; AnalysisLifecycle promises something of
  succeeded ones only, and its `output` hides the others.
- An analysis that waits may wait for the next request or start: a claim that
  raises in the `finally` of a job (`analysis/worker.py:79`), or a start that
  raises before its `try`, wakes nobody. `PendingIsSettled` excepts what waits
  after such a failure while nobody else is about to claim (`Abandoned`).
- A login that verified a password before it was changed, or its user was
  deactivated, stores its session afterwards (`late`).
- A user who is put back into the password file while the service is down stays
  inactive (`excused`). An edit by hand between the replacement of the file and
  `record_managed_snapshot` would be taken for known by `Record`; the model has
  edits only while nobody administers users (`EditByHand`).
- A login whose limiter row has expired meanwhile may be refused for lack of
  room after a wrong password; that failure is not counted.
- A handler that raises, or a crash before its answer is registered, leaves its
  idempotency key in progress for good, as `docs/ai-integration.md` says. The
  principal is read before the body is awaited, so a call may act that was
  admitted before its credential was revoked.
- A packaged rule that was renamed is created again at the next start.
- Five saves that overlap in pairs can leave an enabled rule in schedule mode
  without a cron expression (each writes only the columns it changes; TLC finds
  the sequence with two administrators and two cron expressions). `_build_trigger` then
  gives it no job (`Planned`), and a job that is still running for it clears its
  next run (`NextFire`).
- A page of a task that is left before its first load is answered begins to poll
  afterwards and polls until the task ends (`early`, `TaskDetailView.vue:24-29`);
  a single failed poll ends the polling for good (`use-task-polling.ts:12`); a
  late answer to a cancel overwrites a terminal status (`stale`).
- A late 401 of an old call signs out a login that came after it; the late
  answer of a logout deletes a newer cookie. A tab that restores its user from
  the cookie of another has no CSRF token: its writes and its logout are refused
  with 403, and the logout still clears the tab (`ReceiveLogout`).

`LastRunIsLatestTask` is stated without a restart: a process that dies between
the transaction that creates a scheduled task and the one that records its run
leaves `last_run_at` behind.

## 6. Not modelled

- HTML parsing, word segmentation, prompt and tool texts: text processing
  without state or order.
- Read-only routes (search, lists, settings, system information): no state
  changes. Audit events: written beside everything else, read by a list only.
- `core/database.py` and `core/errors.py` have no module: the discipline of
  transactions is built into the actions of every model.
- Demo data, shell scripts, schema migrations: tools around the program.
- Views of the browser client other than login and the page of a task.

Left out of the modelled parts: rule fields other than the trigger
configuration, cron arithmetic, log rows, paging, the characters of texts, page
permissions (`set_pages`), a password file that does not exist yet (the branch
`existed=False` of `_restore_previous`), the grammar of its entries, the lengths
of delays between attempts, and `TaskRunner.run`, which no thread of the service
calls.

## 7. Plan

1. `AnalysisView` in Browser: a late answer of the task selected before.
2. Composition of Automation with UserAdmin, so that a change of the user is the
   synchronisation it comes from.
3. Page permissions and the missing file in UserAdmin and PasswordFile.
4. A theorem about what is left of `ScheduleIsConsistent` when saves overlap, and
   the properties of PasswordFile without UserAdmin around it.
