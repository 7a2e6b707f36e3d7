# A verification project for tele-mess-core

`tele-mess-core` captures Telegram messages of several accounts into a SQLite
archive, serves them over an HTTP API with a sync feed, and every day packages
an origin's messages, has a command-line AI provider summarise them, and sends
the summary back to a Telegram chat. One process runs an HTTP server (a thread
per request), an event loop thread with one task per Telegram account, and a
daily-job worker thread; CLI commands run further workers and clients against
the same database file. SQLite transactions are the only synchronisation
between processes.

This directory holds TLA+ modules translated from that source, the
configurations TLC checks them with, and proofs TLAPS checks. `PROJECT.json`
lists components, runs, mutants, the lines every definition models, findings,
hazards and theorems; this file explains them. Run `tlc -config X.cfg M` and
`tlapm M.tla` from this directory.

## Inventory

| Component | State | Operations | Interacts with |
|---|---|---|---|
| Daily job queue (`daily_jobs.py`, `store.py`) | rows of `daily_summary_jobs`: status, dedupe key, owner, lease, retry time and count, cancel time | enqueue, request cancel, claim (with its sweep of orphaned cancels), progress and last writes, requeue, schedule retry | API threads, CLI, workers |
| Job worker (`daily_jobs.py`) | thread, stop event, the job in execution | start, stop, poll, execute, error handlers | queue, pipeline, outbox |
| Pipeline (`daily.py`) | rows of `daily_package_runs` and `daily_summary_runs`, package files, topic records | build a package, run a summary, persist its batch, reuse what is complete | worker, provider, outbox |
| Package builder (`daily.py`) | selected origins, tag groups, the owner of each message | select, group, read in pages, assign points | message store, pipeline |
| Delivery outbox (`store.py`, `daily_jobs.py`) | rows of `delivery_outbox`, one per chunk: status, attempt time, last update | persist, claim, complete, retry, discard | worker, runtime manager, Telegram |
| AI provider run and fallback (`daily.py`, `openai_fallback.py`) | a child process, its output, the provider in use, fallback state | run with timeout, classify a failure, switch provider, fall back | pipeline |
| Account runtime and bridge (`telegram/manager.py`, `runtime.py`) | the runtime of each account: client, supervisor, command lock, ingestion service and the tasks that activate it | register, supervise and reconnect, schedule the ingestion, call through the bridge from other threads, unregister, stop | every thread that talks to Telegram |
| Ingestion and backfill (`telegram/ingest.py`) | capture cursors, backfill runs, live handlers | live new/edited/deleted message, backfill pages, catch-up after a gap | message store |
| Message store, events, sync feed (`store.py`, `api.py`) | messages with revisions and deletions, reactions, the event sequence, cursors of clients | upsert, edit, delete, read a page of the feed | ingestion, API |
| Authentication (`telegram/auth.py`) | pending logins per account | send code, sign in, password, sign out | account runtime |
| Origin discovery (`telegram/discovery.py`) | origins table | list dialogs, upsert | account runtime |
| Summary delivery and splitter (`telegram/delivery.py`) | none | split Markdown, send | outbox |
| Migrations (`archive/migrations.py`) | schema version | apply pending versions | start-up |
| Maintenance (`maintenance.py`) | retention policy | prune raw JSON, media, vacuum | message store |
| HTTP API, contracts, console | none | parse, route, render | everything |
| CLI, configuration, models, logging, media types | none | parse | everything |

What is hard here: several threads and processes write the same rows between
each other's reads; a worker or the whole process dies between two
transactions and another takes over after a lease; a cancel arrives at any
stage; Telegram and the provider answer late, twice or never; callers on other
threads give up on calls that go on; what is checked in one statement is used
in a later one. `hazards` in `PROJECT.json` lists each at its line.

What makes each component correct:

* queue: one execution per equivalent request, no lost cancel, no rerun of an
  ended job, an overrun lease harms no job but its own, every job ends;
* pipeline: a completed job really has its package and summary; its summary is
  repeated in the chat only for an attempt whose outcome nobody recorded, however
  often stages run again; a canceled job leaves nothing to send; a job fails only
  for a cause, and a stop or a crash should not be one;
* outbox: the chat shows the chunks of a run in order, a row marked sent was
  delivered, a duplicate needs an attempt with unknown outcome, every chunk ends;
* ingestion: what the history cursor has passed is archived, a row whose updates
  are handled shows what the chat shows, and a chat that is captured catches up;
* message store and sync feed: the merge rules never let an old page replace a
  newer edit (checked with ingestion); a client that follows its cursor skips no event
  and mirrors the rows, whatever fails between a row and its event;
* package: every stored message of a selected origin is extracted once and under
  its own group, also while messages are stored beside the paging;
* account runtime: a call gives the command lock back, no connection leaks, a
  connected and authorised client is ingested, with its handlers on that client,
  stop() returns;
* provider run: no process is left behind but by a crash, a stop or an error; a
  completed run has an answer to every task and the points that follow from the
  answers; a kill is never mistaken for a failure of the provider;
* migrations: no row is lost, the version names what was applied, and trouble has a
  cause, wherever a crash falls and whichever processes open the archive at once;
* origin discovery: a topic shares the state of its archived chat, unless it was
  restored by itself;
* authentication: the persisted state names a step that is possible (not modelled);
* maintenance: nothing a cursor still needs is pruned (not modelled);
* splitter: chunks concatenate to the text (not modelled).

## Modules

| Module | Models | Composition |
|---|---|---|
| `DailyJobQueue` | rows of `daily_summary_jobs` and every statement that changes them, workers and clients as the callers of those statements | |
| `DailyJobContract` | what the queue promises: a request becomes a job, a job is executed by one worker at a time and ends once | abstract |
| `DailyJobRefinement` | the mapping of the queue to the contract | `INSTANCE DailyJobContract WITH` |
| `DailyJobWorker` | the stages of an execution, with the package, summary and outbox rows | EXTENDS `DailyJobQueue` and writes its variables by its actions only |
| `DeliveryOutbox` | rows of `delivery_outbox` chunk by chunk, senders, Telegram | |
| `MessageRows` | one row of `messages` and the three statements that write it | |
| `HistoryCapture` | a chat, its updates, the ingestion service of one connection after the other, the history cursor | EXTENDS `MessageRows` |
| `AccountRuntime` | the runtimes of one account: supervisor and clients, scheduling of the ingestion, calls, stop | what `Connect` and `Disconnect` of `HistoryCapture` abstract |
| `PackageBuild` | `build_daily_package`: selection, tag groups, paging beside the ingestion, owners of messages | the stage `building` of `DailyJobWorker` from within |
| `AnalysisRun` | the tasks of a summary, the provider processes started for them, their deadlines, kills, output files and retries | the stage `analyzing` of `DailyJobWorker` from within |
| `StoreOpen` | `ArchiveStore.initialize` by several processes: upgrade of the first version, columns, index triggers, numbered migrations | |
| `ArchiveConnections` | the connections of the server's threads with their transactions; messages with their events, chats with their topics; a client of the sync feed | what `MessageRows` does to one row, with the transaction around it |
| `*Proofs` | theorems about the module they extend | |
| `MC*` | values of constants for TLC, symmetry | |

Operators whose comment begins with *Mutation* are faulty variants that no
specification uses; `PROJECT.json` pairs each with the property that tells it
apart from the real one.

### How state and actions correspond to the code

*Queue.* A job is a row; its id stands for `started_at` too, because ids are
handed out in the order of insertion. Each SQL transaction is one action:
`EnqueueCheck` and `EnqueueInsert` are the two statements of
`enqueue_daily_summary_job`, `CancelRead` and `CancelUpdate` those of
`request_daily_summary_job_cancel`, so that others may come between. `Claim`
includes the sweep of canceled orphans that precedes it in the same transaction.
`write_job` reads the row and upserts it; both are one step, as the upsert itself
never overwrites a pending cancel. `LeaseExpires` and `RetryDue` are the
clock. `overrun` is no column: it remembers that the lease of a job expired under the
worker that owned and executed it. `force` is the use of a key nobody else uses. A worker that is stopped is not
started again as the same object; a new process has a new worker.

*Pipeline.* `DailyJobWorker` gives each execution a program counter over the stages
of `_execute`, `build_daily_package` and `run_daily_summary`, with a step for each
transaction and the handlers for stop, cancel and error around them. A
`check_cancel` and the progress write after it are one step where they commute
with everything others do. That the stages write the job row as `DailyJobQueue` allows is
how the module is built: each of its steps conjoins an action of the queue or leaves the
queue's variables alone. It is a reading of the code, not a result.

The rows of a job in the outbox are one row here. A worker claims it (`ClaimRow`), has
it sent (`Accept`, `Reject`, `GiveUp`, `LoseAnswer`) and marks it (`Complete`, `PutOff`, or
`LoseRecord` when the mark fails), in steps of their own, from the drain of its job or, with no job, from the
idle loop; it may crash between any two, another worker may claim a row that went stale, and
a cancel may delete it meanwhile. `letter[w]` is the row worker `w` has claimed, `told` counts the
messages in the chat, `doubt` the attempts that were given up without a record of their
outcome. The order of a run's chunks and a request that is accepted long after its
caller gave it up are the subject of `DeliveryOutbox`.

*Outbox.* A run's rows are numbered by chunk; `created_at` orders runs as their
numbers do. A sender claims, hands its request to Telegram, waits, and records the
outcome. `Accept`, `Reject`, `LateAccept` and `LateLoss` are Telegram; `GiveUp` and
`LoseAnswer` are the callers that stop waiting or fail after the send.

*Ingestion.* A chat is a function from ids to posts; texts and reactions are
numbered by their changes and edit dates have the resolution the archive stores.
`updates` is what Telethon will hand to the handlers, in order. `pass` is the
local state of `_backfill_capture_targets_locked` between its awaits. A page is a
set of snapshots taken when it was fetched and stored one message after another,
oldest first. `Connect` stands for a reconnect up to the moment the service has
read its targets; `Disconnect` for a lost connection or a crash of the process. A
policy is asked for and the message stored in one step. `observed_max_message_id`
is left out: the code never decides by it. `skipped`, `lost`, `tied`, `floor`,
`legacy` and `given` remember what the properties except; no action of the
system reads them.

*Runtime.* A step lasts from one await to the next. A runtime is a record: `sup` is
the await at which the supervisor stands, `stop` that of stop(), and the other fields
are those of the object, with clients numbered as they are dialled. `waiting` is the
delay after a failure, with the old client still in place and calls let through;
`leaving` is the finally block, in which everything else may run before
`self.client` goes. `Leave` there includes the cancellation of the activation,
whose waiters resume. `Settled` says that the loop runs what is ready before a delay
or a connect is over; without it TLC would put off the callback of a task for longer
than a second. `queue` is the command lock, its holder first. `Began` is an
operation up to its first await: a lock that is free and an authorisation that Telethon
remembers suspend nobody. Telethon is external: that `is_user_authorized` remembers and
that `catch_up` only queues a request is how the library behaves, and nothing in
`src/` depends on more.

*Package.* An origin is a pair of a chat and a topic, a message a number in the order in
which a page returns rows. `archive` grows at any moment between two reads: the
builder reads an origin by offset, one page per step, and counts the messages of a
group by what it has read. `Ordered` and `Filtered` stand for Python's `sorted`, the
`ORDER BY` of the pages and the list comprehensions: they name each element by its rank or
its place, which the proofs can use where a recursive sort could not be reasoned about. `known` and `grown` remember what was stored when the
origins were selected and which origins grew while they were paged. The explicit
scopes of a request are `Scopes`; the window of the day is left out because every message
of the model lies in it.

*Analysis.* A task is a chunk of messages, an image, an important origin, the report or the
digest. `procs` is what the operating system runs: a process may write its file at any
time, exit 0 or not, exit 0 without a file, or go on when nobody waits for it.
`Step`s of the worker lie between two statements on the archive or two polls of the process,
because a cancel, a stop and a second process come in between. `cause` is the exception on its
way up through the finally block that clears the registered process. A provider that has
answered (`Judge`) leaves its reply in the output file, and `_run_ai_task` reads that file
afterwards (`ReadAnswer`): a Codex process of an earlier attempt may write it in between, and what
is read counts. A point is
the sequence of messages it cites: validation drops what is not in the chunk, what is
repeated and what cites nothing. `left` remembers processes the worker went away from.

*Opening.* `pc` is the statement of `initialize` an execution is at. Of the four tables that
the first upgrade renames the model has two, because what matters is a table that is renamed
and one that is not yet; a copy or a drop of one stands for itself. A statement that
defines data commits by itself, and Python's `sqlite3` opens no transaction for it; each
numbered migration is one transaction that ends with the version it writes. What an
opened archive does afterwards is one action for a stored message and one for a scan of the
history.

*Connections and feed.* `open[c]` is what the open transaction of a thread has made of the
database, so that what is written becomes visible at the commit and a thread reads its own
writes. The lock is the one writer SQLite admits. `Fail` is a statement that raises;
`LockedOut` one that waited for `busy_timeout`. A request that fails closes its connection,
which rolls back; the loop's connection is never rolled back. A version of a row is a
number: the merge rules are the subject of `MessageRows`. `Fetch` is one request for a page
with `after`, `Apply` the client of `docs/server-mode.md`, which saves the cursor after the
rows and may die in between. `torn`, `restored` and `raced` remember what the properties except.

## Runs

| Run | Instance | What it shows |
|---|---|---|
| `queue_safety` | 2 workers, 2 clients, 2 jobs, 2 keys, leases that outlive executions | one execution per key, cancels stick, no rerun, the contract is implemented |
| `queue_lapse` | 3 workers, 1 client, 1 job, leases that may lapse | only an overrun job is executed twice at a time or loses a cancel; every job ends, also a canceled one |
| `pipeline` | 2 workers, 1 job, a stop or a crash, a cancel, one error and one retry between any two transactions or sends | a completed job has its package and summary, a second delivery needs an attempt in doubt, no leftovers of a canceled job, failures have causes; the fairness of the queue is kept |
| `outbox` | 2 senders, 3 chunks, bounded faults | order, truth of `sent`, duplicates only after doubt, every chunk ends |
| `capture` | 3 messages, one of which is changed once and deleted; pages of 2, an initial window of 1, one update under way, one fault | the cursor is sound, rows are fresh, the chat catches up |
| `capture_retry` (violation) | 2 messages, pages of 1, two faults | see Findings |
| `runtime` | 1 runtime, 2 callers, two lost connections or failures | the lock is handed on, no connection leaks, capture resumes, calls and stop end |
| `runtime_handlers` (violation) | the same with one fault | see Findings |
| `package` | a chat, a topic of it and another chat with 5 policies, 3 scopes, 4 messages, pages of 2, two messages stored late | every message that was there is extracted once, under the group of its owner; only an origin that grew repeats a message |
| `analysis` | one chunk and the digest, 2 processes at a time, 1 retry, one fault | processes that are left have a cause, a completed run is complete, a kill is not taken for a failure, the job ends |
| `open` | 3 executions of `initialize`, 1 message, 3 migrations of which the second resets the history, one death | rows are kept, the version is true, trouble has a cause |
| `archive` | the loop and one request, 2 messages, 1 topic, 3 events, pages of 2, one failure or crash | a client skips nothing and mirrors the rows, topics stray only for a cause |

Bounds. Two workers and two equivalent requests are the smallest instance of every
race of the queue; three workers are needed for a lapsed lease that is claimed twice. `queue_lapse`
has one job, because its liveness is out of reach with two; that an overrun job may also run beside
a later row of its key, which `LapseStaysLocal` speaks of too, is in the reach of its proof and of TLC
(2 workers, 2 clients, 2 jobs, 1 key, without liveness: 2.5 million states).
Two keys are enough because rows of different keys meet in no guard. In `pipeline` the
second worker takes the job over from the first and claims its row beside it, and one
error loses an answer, a mark or a stage, after which the job is tried again. Three
messages and pages of 2 give a pass of a full page and a short one, a window that
leaves messages out, and a live message above a pass that is still behind it. One
fault interrupts a pass, and the repetition runs to its end. Two callers are a holder of
the command lock and one who waits for it; two faults lose the connection that
replaced a lost one, or fail the retry of an activation. One runtime is what the runs
of `AccountRuntime` make: the second, which a call makes while the first is being
stopped, shares nothing with it but the session. `package` has a topic beside its own chat, which is
where a message has two candidates for its owner, and two late messages move a page
once and the next one again. `analysis` has no image and no important origin: in the
module every kind of task but a chunk behaves like the digest, with an answer that is not
validated; two processes are one that was left and one that is awaited. In `open` two
executions meet and a third finds what they made; of 20 migrations three are enough, one
before the one that changes data and one after it. `archive` has a page that
does not reach the end and one that does. Guards named as bounds (`MaxFaults`, `MaxUpdates`,
`MaxChanges`, ...) limit the environment only.

`CHECK_DEADLOCK FALSE` is set, except for `outbox`, because finite instances do
end: when every job has ended and no request is left, when the chat, the feed and the faults
are exhausted, when the package is built, when the run has ended, or when every process
has opened the archive and scanned the history.

Fairness. The job worker polls in a loop, so a claim, a stage and a handler that
stay possible are taken (weak fairness per worker); provider runs and sends have
timeouts, so a stage that waits ends one way or the other; the clock moves, so leases
expire, retries become due and in-flight rows become stale. That Telegram accepts
a chunk that is sent again and again is an assumption about Telegram (strong
fairness of `Accept`). For ingestion: the supervisor reconnects, the event loop runs
its tasks (per runtime the supervisor, the activation, its callback and its retry; per call
its next step), retry delays pass, Telegram answers or fails. For the analysis: the worker's
loop goes on, a stop kills what it found registered, a server that stopped is started
again and the lease of its job expires. Nothing is assumed of a provider process: it may
run for ever, and the deadline of the worker is what ends it. Enqueues, cancels, faults,
stops, crashes and policy changes are never fair. `KeepsQueueFair` checks that the
pipeline supplies the fairness the queue's liveness assumes: of a worker it takes that its
next stage, or the next step of a send (`SendStep`, `Post`), is taken, because `call_timeout`
ends a send and a provider's deadline ends a stage, and nothing of Telegram. (A worker
without the runtime manager, on the command line, has only Telethon's own timeouts for a send.)

Every run has one type invariant at most. `PipelineTypeOK`, `CaptureTypeOK` and
`RuntimeTypeOK` hold on the instances of their runs and are left out of them; the first is
part of the invariant below and the second is proved.

## Proofs

TLAPS proves, for any number of workers, clients, jobs, keys, senders, chunks,
messages, runtimes, calls, tasks, processes, threads, topics, migrations and faults:

| Module | Theorems |
|---|---|
| `DailyJobProofs` | of the queue `TypeCorrect`, `MutualExclusion`, `CancelIsKept`, `EndedJobsRest`, `LapsesStayLocal`; `QueueImplementsContract`; of the pipeline `EndsAreHonest`, `RepeatsAreDoubted`, `CancelIsQuiet`, `FailuresAreCaused` |
| `DeliveryOutboxProofs` | `TypeCorrect`, `ChatInOrder`, `SentIsTrue`, `DoubtBounds`, `SentStays` |
| `HistoryCaptureProofs` | `TypeCorrect`, `CursorIsSound`, `RowsAreFresh` |
| `AccountRuntimeProofs` | `TypeCorrect`, `ClientsDoNotLeak`, `OneAtATime`: the calls and the stop of a runtime work with its client one at a time |
| `PackageBuildProofs` | `UnitsAreRight`, `RepeatsNeedGrowth`, `MessagesExtractedOnce` |
| `AnalysisRunProofs` | `OrphansAreCaused`, `KillsAreSeen`, `RunsAreComplete` |
| `StoreOpenProofs` | `VersionIsTrue`, `RowsAreKept`, `TroubleIsCaused` |
| `ArchiveConnectionsProofs` | `FeedSkipsNothing`, `FeedMirrors`, `StraysAreCaused` |

`MutualExclusion`, `CancelIsKept`, `EndedJobsRest`, the refinement and the theorems of the
pipeline assume
`LeaseMayLapse = FALSE`: a lease of max(300 s, provider timeout + 120 s), renewed by
every progress write, outlives the work between two such writes. The code does not
enforce this (`renew_daily_summary_job_lease` has no caller), so `queue_lapse`
checks what remains without it, and `LapsesStayLocal` and `TypeCorrect` are proved without
it. Every other assumption is the type of a constant: that `Workers` (for the pipeline), `Senders`
and the messages of a package are finite, that `list_origins` lists an origin once (its rows have a primary key),
that the tags of a group are a finite set and not empty (`parse_tag_groups` drops a group without tags), and
that the names a constant stands for are not each other's.

Inductive invariants. For the queue (`IInv` in `DailyJobProofs`): types; at most one
active row per key, which the partial unique index keeps; and, unless the row was overrun,
that an executor owns its row, which is running or cancel_requested with a
live lease. So two executors of equivalent jobs that were not overrun would be two active rows of one key, and
only the executor or a cancel request changes the row; while leases outlive executions no
row is overrun. For the pipeline (`StagesSound`),
on top of that: because a job has one executor, the place of that executor says what its
rows can be (`StageRows`: past the package stage the package is completed, past the
summary stage the summary too, at the cancel handler's last write nothing is unsent); and
of every job, executed or not (`JobRows`, `StatusRows`), a package row left `running` or
an unsent row after a cancel request has a cause on record or an executor that is about to
deal with it. For its sends (`SendersSound`): a row has one sender until a claim finds
another one at it, a row marked sent has none until then, and whatever is sent has a
completed package. The copies in the chat, the senders that have not been answered and a row
that was never handed to Telegram, or was handed back, are together at most one more than
the attempts in doubt (`Budget`); it is what the claim of a stale row, a crash during the call
and a deleted row under a sender each pay for. For the outbox: whatever may still put a chunk into the chat, a sender at
it, a late request or a row that can be claimed, is there only when every earlier chunk is
in the chat or stands before it in the table; and of one chunk (`Budget`), its copies in
the chat, its late requests, the senders that have yet to hand it over and a row that can
be claimed are together at most one more than the attempts with unknown outcome. For the
analysis: a live process that no worker waits for has its cause on record, and a worker
that sees its process killed without an exception of its own finds the mark that was set
before the kill. For the capture: what the pass has scanned is stored, and what its page
stands for is stored or in the page; a legacy cursor is a rescan or has been completed, so
that no pass over it is initial; a windowed pass starts from 0; and messages are posted in
the order of their ids, so that nothing appears behind the head of a pass. For its rows
(`FInv`, on top of that): what is on its way or on a page is a state the message was in,
so that it bears an earlier edit date than the chat or the same text; the last edit, the
deletion and the last reactions are in the row or still among the updates, and older
reactions among the updates come before the last ones. A page may be stored at any moment
because it can replace none of the three.

For the account runtime (`IInv` in `AccountRuntimeProofs`): of every runtime (`Sound`), only
the latest client can be connected, and while it is, `self.client` names it, the supervisor
is not done and stop() has not yet got past disconnecting it; a supervisor that stop()
awaits stands at its finally block or is through it; and the queue of a command lock holds exactly the calls that wait for it
or have it, each once, with whoever is at work first. The lock is an invariant apart
(`LockInv`), because `RemoveFirst` hands it on in the order of arrival.

For what a completed run stores (`CInv` in `AnalysisRunProofs`): the artifacts are those of the
tasks before the one at hand, whose process is asked by the provider in use; a file of a task,
what a process has still to print and an artifact are answers to the same task; and between
the chunks and the report
what is stored is the rows of the points of the artifacts (`PointRows`). That these are the
distinct points of each answer (`ValidatedFacts`) is a fact about the recursive function
`KeptPoints`, proved by induction over the length of the answer. On top of that (`AInv`):
the one process of the current attempt is the one that is awaited, and a file of the current attempt
answers a task behind, or the task at hand by a Codex that gave an answer or by the fallback.
So a file that is read for a Codex that gave none is of an earlier attempt. That is all that
can be said: any file may be written over by a process that an earlier attempt left behind.

For the package there are four, each with the ones before it. `Selected`: the items and the
origins still to be looked for are items of different origins, and whoever is selectable and
has a known message is among them (`Found`); a message that was known is still in the first page
that is looked at, because no row leaves the archive. `Grouped`: from the grouping on
`units` is what `Units` says of the items, which are not touched again; that this is one unit
per origin, and the right one (`WellGrouped`), is a fact about the operators alone. `Read`: what
was packaged has all known messages of its origin, and what was read so far (`Paging`) is
not longer than the archive of the origin and has every known message whose rank, the
number of messages before it, is below its length. A message that is stored meanwhile can only
raise ranks, so a known message is read twice at worst and never skipped; and if none was
stored, the rows are a prefix of the one listing, hence without repetition. `Whole`: the
points of a completed run are the canonical ones of readings that are all full. Then every
message of the points comes from a place of its own (`Source`), the first of those that
offer it, and a topic's place is offered always, its parent's only when no topic has read the message.

Induction. The provers instantiate no induction theorem with an operator. Where a proof needs
induction it takes the least counterexample of a set of numbers (`LeastOf` in
`AccountRuntimeProofs` and `PackageBuildProofs`, `Iterates` in `AnalysisRunProofs`), because a set, unlike an
operator, can be named in a `BY`. So the helpers these proofs need are recursive functions over
`0 .. Len(s)`, not folds.

For the opening there are two. `SafeInv` carries the rows and the version: an
execution in the loop over the migrations has everything up to the version it goes on
from, and what it has yet to drop was copied, while no other execution drops, because the
account is inserted only once. `CauseInv` says exactly where an execution stands that met
nobody and did not die (`Stage`, a condition on the tables per statement), that a history is
scanned twice only after executions overlapped in the migrations, and that the triggers are
missing only in the midst of an execution. For the feed (`IInv` in `ArchiveConnectionsProofs`):
of the contents and of every open transaction, an event names no version its row has not
reached and the newest version of a row is in the events, but for a row whose event is
pending or failed; a transaction goes on from what is committed, because there is one
writer; and a page lies between the client's rows and the archive's. The last part is why
rows newer than their events do no harm.

Only model-checked: liveness and `KeepsQueueFair`, because TLAPS proves neither fairness nor
`ENABLED`. Every invariant a passing run checks is proved as well.

## Findings

Two runs end in a violation; the texts they contradict are quoted in `PROJECT.json`.

* `FailedIsRetried` (`capture_retry`): a database error outside the handler of a pass ends
  the retry task after it emptied its set of targets.
* `HandlersAttached` (`runtime_handlers`): a call that is answered while the supervisor
  disconnects its client schedules the ingestion on that client. The service it makes is
  kept for the next connection, whose live messages no handler sees, while the status
  says that the ingestion runs; history passes still find the messages at the next
  reconnect.

Other disagreements between the code and its texts have no run of their own. Each is a
definition of the module; TLC shows a trace when it is added to the configuration as an
INVARIANT (`TerminalStays` as a PROPERTY). The property in the last column, which is checked
in a passing run, limits the cases in which the code does this.

| Definition | Configuration | Text | What the code does | Bounded by |
|---|---|---|---|---|
| `TerminalStays` | `QueueSafety.cfg` | `docs/api.md:733`, "Request cancellation of a running daily summary job." | a cancel that read the status before the job ended makes an ended job a canceled one | `NoRerun`, `ImplementsContract` |
| `StopDoesNotFail` | `Pipeline.cfg` | `README.md:204-205` | the `except Exception` of the package and the summary run catches the exception by which a stopping worker leaves; the job fails and is not requeued | `FailureHasCause` |
| `CrashDoesNotFail` | `Pipeline.cfg` | `docs/daily-packaging.md:296`, "Expired running leases are reclaimed after service restart." | a job reclaimed after a crash during the package build finds the package row `running` and fails | `FailureHasCause` |
| `CancelDiscards` | `Pipeline.cfg` | `docs/daily-packaging.md:303` | rows persisted before a crash survive the sweep of the canceled job and are sent | `CanceledIsQuiet` |
| `SilenceFails` | `Analysis.cfg` | `daily.py:2836-2840`, "Codex CLI completed without writing output" | a Codex that exits 0 and neither writes nor prints is answered for by the file of an earlier attempt, its own or of a process left behind | `CompleteRun` (its last clause) |
| `OpenShowsAll` | `Open.cfg` | `README.md:448`, "Numbered, transactional migrations upgrade the archive schema" | the upgrade of the first version is not one transaction: after a death between a rename and its copy no later start takes the upgrade up again, and the rows stay in `*_v1` | `TroubleHasCause`, `NoRowLost` |
| `TopicInherits` | `Archive.cfg` | `tests/test_archive_store.py:541`, `test_topic_inherits_archived_parent_state` | discovery reads whether the chat is archived before its transaction: a topic stored while the chat is being archived stays active | `StrayHasCause` |

Noticed while modelling, and covered by no run:

* runtime: an account that is unregistered while somebody calls it gets a second runtime and
  client on the same session, against `docs/server-mode.md`'s one client per account
  (`AccountRuntime` with `MaxRuntimes` above 1 shows it); two concurrent `request_code` calls
  without a runtime overwrite each other's `phone_code_hash`;
* jobs: a rerun of a summary keeps the outbox rows of the earlier one, whose content may
  differ; an `IntegrityError` of the enqueue leaves an implicit transaction open; an
  execution that runs out of retries ends `failed` although a cancel was requested; the idle
  loop still delivers rows of a failed job;
* ingestion: an error while the cursor is read saves `failed` over `migration_rescan`,
  after which the full reconciliation `docs/local-mode.md` promises does not
  happen; a policy enabled while the first pass of a connection runs is not passed
  over until the next reconnect;
* package: the groups of effective tags are keyed by the sequence of the tags, where
  `docs/daily-packaging.md:39-40` speaks of the set, so `a,b` and `b,a` are two groups; two
  groups whose names have the same slug share a file; a message stored while its origin is
  paged may be counted twice in its group;
* analysis: garbage from Codex counts as an answer without points
  (`docs/daily-packaging.md:115-116` says it is validated as JSON before points are
  committed); the file of a task is read when its provider has ended, so that a process left by
  an earlier attempt may replace the answer of Codex or of the fallback until then; a stop of the server may leave the provider process running;
* opening: the triggers of the search index are dropped and made again in autocommit on every
  open, so that a message another process stores in between is never indexed; a process
  that read the version before another applied migration 18 applies it again and resets
  a history that was scanned;
* connections: after a failed statement the loop's transaction keeps the write lock until
  the loop's next write, which commits what the failed one had done: requests meanwhile
  time out after 30 s, and clients never learn of a row whose event failed; with
  `latest=true` the answer's `next_cursor` skips the older rows for a client that follows it.

## Plan

Done first, because everything a user sees of the daily summaries rests on it: the
queue, its contract and refinement, the pipeline, the outbox; then ingestion and the
account runtime; then the two long stages of the pipeline from within, the opening of
the archive, and the feed with the connections beneath it.

Next, in this order:

1. `AccountRuntime` with two runtimes on one session, and that it implements the
   connections `HistoryCapture` assumes.
2. `AnalysisRun` as a refinement of the stage of `DailyJobWorker` it stands for, and likewise
   `PackageBuild`.
3. `Authentication` (login steps and their recorded state) and `Maintenance` (what is pruned
   beside the cursors that need it).
4. The Markdown splitter as a recursive function, checked against a reference definition.
5. Several targets and topics in `HistoryCapture`.

Proofs to come: the refinements of 1 and 2, step by step, and what 3 adds.

Not modelled, and not planned: request parsing, routing and generated contracts,
the console page, the command line, configuration, logging, media
classification, the wording of prompts and reports, participants of a chat. They keep no
state of their own or only format it.
