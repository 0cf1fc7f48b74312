# Verification of LintPDF

TLA+ models of the parts of LintPDF (`src/src/lintpdf/`) where several processes work on
shared state: the API, the Celery workers, the broker, the beat-scheduled sweeps, Redis, the
object store and the database. TLC checks them on small instances; TLAPS proves their safety
for instances of every size. Paths below are relative to `src/src/lintpdf/`, and `tasks.py` is
`queue/tasks.py`.

## 1. The system

A client posts a PDF. The API (FastAPI, PostgreSQL through SQLAlchemy) counts it against the
tenant's limits, inserts a `Job` row, commits it and enqueues a Celery task (broker: Redis). A
worker runs `run_preflight`: it marks the row, runs the orchestrator over the document, commits
the findings with the final status, and then enqueues what follows: webhooks, AI audits,
reports, tiles. A viewer asks for capabilities and tiles later, a customer mints links to
reports, and corpus runs test a profile against baselines. Beat runs sweeps that repair and
prune. Tenants are isolated from one another and share only workers.

| component | state | operations | interacts through | what is hard | what makes it correct |
|---|---|---|---|---|---|
| **Intake of jobs** `api/routes/jobs.py`, `api/routes/batch.py`, `api/middleware.py` | the counter of the day, rows, the list of a batch, keys of warning mails | count, save, queue, warn, list, answer | Redis, rows, messages, mail | count and commit are far apart; a failed snapshot aborts the transaction; tasks are queued one by one | the limit and the spending cap; answered means queued; a batch is whole; one mail per threshold |
| **Preflight job lifecycle** `tasks.py`, `queue/app.py`, `api/routes/jobs.py` | `jobs.status`, `job_findings`, messages and their retry counts, the session of each attempt | submit, run, retry, reap, delete | rows, messages | crashes between commits, redelivery, retries of an attempt that has committed FAILED, time limits, the reaper and DELETE under a running task | findings stored once; terminal means over; nothing announced that is not stored; no job lost or stuck |
| **Webhook delivery** `webhooks/events.py`, `tasks.py` | `webhook_deliveries`, endpoints' retry budgets, dispatch tasks | emit, dispatch, retry, dead-letter, sweep, patch | the emitter's transaction, rows, messages | a task queued before its row commits, budgets that change during backoff, redelivery after success | each endpoint tried, bounded attempts, a truthful audit row, an end |
| **AI audit and OCR passes** `queue/audit_tasks.py`, `audit/`, `ai/` | `audit_status` of findings, text layers, the month's usage, the rerun queue | audit, read, charge, retry for 24 h, mark, drain, rerun | messages, rows, the usage | a cap that is read before a call and charged after it; failures that stay inside a loop; three sources of passes for one job | the overspend is bounded; no pass is dropped without a reason; a pass ends |
| **Corpus runs** `corpus/`, `api/routes/corpus.py`, `tasks.py` | runs, rows per assay, baselines, certificates | create, execute, bootstrap, retry, patch, delete | rows shared by runs, messages | a retry executes a finished run again; assays vanish under a run; baselines are read before the engine and written after it | verdict, counts and rows agree; ended runs are announced; baselines settle; a run ends |
| **Report links** `reports/service.py`, `api/routes/reports.py`, `api/storage.py` | `report_tokens`, one stored object per job and format, hit counters | mint, mint with a key, revoke, expire, serve | rows, objects | two mints race for one token; upload, insert and rollback in sequence; one object behind many links | an answered link exists and has a report; retries are free; honest hits |
| **Capability fill-in** `api/routes/viewer.py`, `tasks.py` | one JSON column per job | ask, auto-ask, fill | the column, messages | read-modify-write of the whole column in several sessions | what is shown is there; what was asked is done |
| **Tile warming** `tasks.py` | Redis lock per job, counter per tenant, status hash | enqueue, warm, defer | Redis, messages | a counter kept by INCR/DECR with a time to live, a lock deleted without asking for its owner | the cap; one worker per job; progress that ends |
| **Engine start-up** `api/database.py`, `queue/worker.py` | engine, session factory, one lock | init, reset after fork, get a session | a lock shared by all threads, inherited by fork | a lock taken twice, a lock inherited while held | whoever asks for a session gets one |
| Configuration cascade, custom profiles `tenants/`, `profiles/storage.py` | one override row per toggle and scope, an audit log, a snapshot per job | resolve, mutate, snapshot | rows | read-modify-write of one JSON value | in the plan |
| Outage detector `audit/outage.py` | a window of outcomes | note, ask | database | two writers of one window | in the plan |
| Decisions `decisions/service.py` | decision rows | record, revoke | rows | two revocations | in the plan |
| Orchestrator and rules `profiles/`, `rules/` | none that lasts | run checks | calls | a failing analyzer | one step (`Run`) of the lifecycle |
| Analyzers, semantics, imports, comparison, report rendering, storage, auth, plugins | none, or I/O | | calls | large, sequential | not modelled |

## 2. Modules

| module | models | theorems |
|---|---|---|
| `Intake` | `submit_job` and `submit_batch`, from the counter to the answer | `IntakeProofs` |
| `PreflightJob` | the job lifecycle, one action per database step of `run_preflight` and of its handlers | `PreflightJobProofs` |
| `JobContract` | what a client may rely on about a job; `PreflightJob` implements it | |
| `JobUnderFaults` | the same where a crash may leave two messages of a job: each fault allows more | |
| `WebhookDelivery` | emission, dispatch and the audit row | `WebhookDeliveryProofs` |
| `DeliveryContract` | what the owner of an endpoint may rely on about one delivery; `WebhookDelivery` implements it | |
| `AiAudit` | the AI passes, their gates and their shared spend | `AiAuditProofs` |
| `CorpusRun` | corpus runs, shared baselines and what clients do to them | `CorpusRunProofs` |
| `RunContract` | what a client may rely on about one corpus run; `CorpusRun` implements it | |
| `ReportLinks` | mints, revocations and the public routes | `ReportLinksProofs` |
| `LinkContract` | what the holder of a share link may rely on, for one token; `ReportLinks` implements it | |
| `CapabilityFill` | requests and tasks on `data_capabilities` | `CapabilityFillProofs` |
| `TileWarming` | the lock, the counter and the status of warming | `TileWarmingProofs` |
| `DbInit` | the lock of `api/database.py` | |
| `MC...` | constants for TLC | |

`MCApi`, `MCTasks`, `MCServices` and `MCViewer` put several modules into one run. These modules
share no variable, because the code shares no row or key between what they model (a session of
a mint never writes a job's status, a warming task never a capability), so nothing is lost by
looking at one at a time: the variable `part` says which one a behaviour shows, and the others
keep their initial states. Where components do share state the sharing is inside one module:
the API, the workers and the sweep in `PreflightJob`, the two AI tasks, the customer and the
drain in `AiAudit`, runs and clients in `CorpusRun`, the public routes and the mints in
`ReportLinks`. `Intake` ends where `PreflightJob` begins: its queued job is the other's enqueued
one.

### Intake

`post[p]` is a request in progress with the rows its session holds (`held`), the tasks it has
still to queue and whether the database has aborted its transaction (`broken`); `job[i]` is the
row, the queueing and the answer of the i-th file let in.

- `CountFirstFile`, `CountFile`, `CountFileFails` are the counter: one INCR per file, checked
  against the limit and the spending cap (`Blocked`), which lets the file in if Redis fails.
  `Refuse` stands for everything a request is turned away for after it was counted.
- `AddRow`, `Snapshot`, `SnapshotFails`, `CommitRows`, `RowsFail` are the transaction. The
  snapshot's exception is swallowed; a query that failed has aborted the transaction, and PostgreSQL
  answers the COMMIT with a rollback that raises nothing: the rows are `"gone"`.
- `PresetUnknown`, `QueueTask`, `QueueTaskFails`, `Warn`, `WarnBlindly`, `StoreBatch`,
  `StoreBatchFails`, `AnswerPost`, `PosterDies` are the rest of a request.

One tenant and one day, with Redis configured; a job has a number from the moment its file is
let in, and the two thresholds are scaled to small counts.

### PreflightJob

`row[j]` is the status column (with `"new"` and `"deleted"` for no row), `api[j]` how far
`submit_job` came, `msg[t]` the message under a delivery tag, `worker[w]` the attempt a task
slot executes: its tag, the place in the code (`pc`), and what counts of its session, namely
the status it has loaded and whether it holds findings not yet committed. `scan` is the list
the reaper has loaded. `results`, `announced` and `effects` record commits of findings,
`job.completed` events, and the other follow-ups.

- `Submit`, `Enqueue`, `Abandon`, `Delete` are the API. The row is committed before the task is
  enqueued, and the calls in between can fail.
- `Deliver`, `Fetch`, `Mark`, `Load`, `Run`, `Store`, `Announce`, `FollowUp`, `Ack` are an
  attempt, cut at its queries, commits and calls to the broker. `Fetch` has the guard for
  terminal rows. `Run` is everything the orchestrator does.
- `Fail`, `Notify`, `Retry`, `GiveUp` are the two nested exception handlers. `Fail` commits FAILED
  with whatever the session held.
- `Raises`, `SoftTimeout`, `Swallowed`, `CommitFails`, `RetryFails`, `Crash`, `HardTimeout` are the
  faults: an exception, the soft limit (caught around the orchestrator), an exception of a
  follow-up that the code catches, a failed commit, a broker that cannot take the retry, a
  dead process (the message returns: `acks_late`, `reject_on_worker_lost`) and the hard limit
  (Celery acks the message).
- `Age`, `ReapScan`, `ReapCommit`, `ReapFails` are `reap_stale_jobs`: it loads, emits, and
  commits all rows at once whatever their status is by then.

SQLAlchemy is modelled by what it does: an UPDATE for a changed attribute only, never
conditional on the status in the table; a flush on a deleted row raises; a failed commit
rolls back and expires what was loaded. `AckAtomic` says that publishing a retry and
acking the failed attempt are one step. They are two in Celery; FALSE lets a crash come in
between and leaves two messages. The other modules with tasks have them in one step.

### WebhookDelivery

A delivery is an event and an endpoint. `emit_event` writes a row and queues a task for each
subscribed endpoint inside the transaction of its caller, which commits later
(`CloseAs`, `Committed`) or never. The task posts, updates the row if it sees one, reads the
budget and retries, gives up or sets the dead flag. `Patch` changes budgets and `Sweep` prunes
rows at any time.

### AiAudit

A pass is a job and a kind: the audit, which asks Claude about batches of findings, or the OCR,
which asks for the text of pages. Both are the same task in outline, so one set of actions has
both, and a unit is a batch or a page. `Gate`, `Look`, `Insert` are the feature and quota gates
with the finding they leave; `CheckCap`, `CallAnswers`, `CallFails`, `ChargeFails` the loop over the
units with the cost cap around each call; `Commit` writes what came. `RetryLater`, `StopTrying`,
`MarkLoad`, `MarkCommit` are the 24-hour retry and its end, `Rerun` the forced audit of the API,
`DrainScan`, `DrainSend`, `DrainDelete`, `DrainSkips`, `DrainDies` the beat task that empties the
rerun queue. `excused` holds the passes that had a reason to leave something undone.

Simplified: jobs are not deleted, the API key is set, every batch has findings, one drain runs at a
time, a call costs one cent (`compute_cost_cents` never bills less), and the outage window is
left out.

### CorpusRun

`exec[x]` is an attempt with what its session has loaded: the assays left, the baseline and the
row of the assay at hand (`base`, `was`), the counts. `CommitVerdict` is the commit per assay, which
raises if the row is gone and there is something to update; `Bootstrap` writes the output back
as the baseline, whatever is there by now; `FinalizeRun` commits counts, verdict and
certificate; `HandleError` and `RetryRun` are the handler, which a session that has failed a
flush never gets to. `PatchExpectations` and `DeleteAssay` are the clients. What the engine finds
is an input, the profile may be missing, and the signing key is set.

### ReportLinks

`link[v]` is the row under a token: a number for a random token, a key for the hash of an
idempotency key. `object[j]` is the one stored report of a job. A mint finds an earlier row
(`Find`), renders, uploads, inserts (`InsertLink`), and on a conflict rolls back and looks again
(`Refind`). `Revoke`, `Erase` and `DropRow` delete the object and then the row; `Serve`,
`FetchReport` and `Count` are the public route, whose counter is read, incremented and written.
One tenant and one format: the code handles the formats of a request one after another.

### CapabilityFill, TileWarming, DbInit

`CapabilityFill` keeps for each request and each task the copy of the column it has loaded
(`seen`). `Touched` models that the failure handler changes the nested dictionary in place,
so that the session sees no change and writes nothing. `TileWarming` has a step per Redis
command. `spoiled`, `torn` and `silent` record that the counter has expired or was left
aside, that a lock was freed early, and that a last status was not written; the properties
name the exceptions they make. `DbInit` has a step for each time `get_db_session`, `init_db` and
`reset_db_state` take the lock. A child starts with the lock free or held by a thread that it
does not have.

## 3. The runs

| run | instance | shows |
|---|---|---|
| `api` | 2 jobs (one engine, one imported), 2 workers, 1 retry, 1 fault; 2 requests of up to 2 files against a limit of 2 and one file more, 2 faults; 3 mints and visits to 2 jobs with 1 key, 2 handlers, 1 fault | findings are stored once and announced after, and `JobContract` is implemented; the limit, whole batches, one mail; links that exist and have a report, free retries, `LinkContract` for each token |
| `task_faults` | 1 job, 2 workers, 3 tags, 2 retries, 2 faults, `AckAtomic` FALSE; the passes of 1 job, 2 slots, 1 fault beside any number of failed attempts; 1 corpus run, 2 slots, 1 retry, 2 faults, 1 edit | tasks that are in the broker end, no job is lost or stays in processing, and each job keeps `JobUnderFaults` |
| `hook_safety` | 1 event, 2 endpoints, ceiling 1 below a budget of 2, budgets patched for ever, 1 fault | bounded and faithful delivery, `DeliveryContract` for each endpoint, independent endpoints, an end |
| `viewer` | 2 capabilities, 2 requests, 2 workers, 2 faults; 2 jobs asked for 3 times, 2 workers, cap 1, 1 fault | what is shown is stored, duplicates are bounded, fills survive crashes; the cap, the counter, one worker per job, progress ends |
| `services` | 1 job with 2 units, 2 slots of which one may be the customer, quota and cap 1, 1 fault; 2 corpus runs that share an assay, 2 slots, 2 retries, 1 edit, 1 fault | bounded overspend and duplicates, no pass dropped; verdicts that match the rows, announced ends, settled baselines, `RunContract` for each run |
| `job_retry_dead` | 1 job, 1 exception | violated: `self.retry` is published and its attempt skipped |
| `job_reaped_alive` | 1 job, no fault | violated: the sweep fails a job at work |
| `hook_early` | 1 delivery, no fault | violated: a row that says zero attempts |
| `db_reinit` | a child with one thread | violated: it waits for itself |
| `caps_lost_update` | 2 fills, no fault | violated: one flag is lost |
| `audit_silent` | 1 audit, one failed call | violated: a task ends and its findings have no status |
| `links_rebranded` | 1 job, two looks, no fault | violated: the first link shows the second look |

**Bounds.** The runs use the smallest numbers at which a retry, the last retry and the step over
the limit differ: `MaxRetries` is 2 in the code, with the default budget of webhooks 5 and the
ceiling above it, the daily limit is 10 for a new tenant, and the thresholds of the mails are
scaled (50 and 150 percent of a limit of 2, so that one is passed within the limit and the
other beyond it). Two jobs in `api` because the sweep commits several rows at once, and two
workers because two copies of a message, two mints of a token, two calls under one cap or two
bootstraps of an assay are what the code can get wrong. One fault of any kind at any
point, or two where that is affordable; the proofs cover the rest. In `task_faults` one tag for
the passes: they come one after another, with crashes, retries and the drain between them.
`MaxEnqueues`, `MaxRequests`, `MaxPosts`, `MaxMade`, `MaxFiles`, `MaxVisits`, `MaxEdits` and the
numbers of faults cap counters that the code does not have. `Locked` is empty in the runs; the
proofs of `AiAudit` are for any set of locked jobs. Symmetry is used in runs without liveness
only, on sets whose members are interchangeable: the slots of `api` and the jobs that are linked; the executors and the
outputs of `services`, where two of the latter also serve as tags.

**Deadlock** checking is off: when the jobs are over and the faults used up, these systems
have nothing to do. `SessionIsServed` is the property against a thread that waits for ever.

**Fairness.** A worker that has taken a task goes on with it (Celery runs it to its end or the
time limits do); a queue with messages is served (each queue has a consumer in the
deployment files); beat goes on scheduling the sweep and the drain, and time passes. Requests,
deletions, patches, failures of a call and faults are never forced. `TileWarming` asks for even
less: a worker need not take another task. In `MCTasks` the drain alone could start in a part
that is not shown, so its fairness is asked for in its own part only.

## 4. What is proved

Each theorem holds for every value of the constants the module's assumptions allow: any number
of jobs, workers, requests, runs, endpoints, files, retries and faults. The properties are
seldom inductive. Each module of proofs has an invariant that says what is true at each place
of the code, an operator for what a step does to the one actor that takes it, and lemmas that
everybody else is left alone.

| module | invariant | why it is needed |
|---|---|---|
| `PreflightJobProofs` | `IInv`: a job has one message, and only after it was enqueued (`ExclusiveCustody`, `Holding`); what findings in the table mean for the row (`JobOK`); what is true at each place of an attempt (`RunOK`) | that findings are stored once depends on where each attempt is |
| `PreflightJobProofs`, without `AckAtomic` | what holds of any run however many copies it has (`Base`); every retry was paid for by a fault (`Paid`); an unsettled job has a message that will settle it (`Cared`); events and the runs about to send one against commits (`Told`); commits, copies and runs that may commit by accident against faults (`Charged`); what a job is before a first fault (`Quiet`) | two runs of a job can do almost anything to each other's row; what is left is accounts |
| `IntakeProofs` | what a request holds at each place (`Places`), that the counter is above the rows and the files under way (`Room`), which request a row belongs to (`Postmarks`, `Owners`), what a listed batch consists of (`Pages`) | the counter is not the number of rows: it is ahead of them by refused and lost files |
| `WebhookDeliveryProofs` | `HookInv`: the emission's loop (`Loops`), and per delivery what is `Untouched`, what the posts add up to (`Counts`), when the row agrees with the task (`Faithful`), and who has been tried (`Reached`), and what the row may say at each stage of the contract (`Fits`) | the ceiling bounds retries, not posts, and the row may be missing, late or pruned |
| `AiAuditProofs` | three: the spend with the calls under way, the notes with the slots about to insert one, and for a pass a message, a row of the rerun queue, a settled verdict or an excuse | each of the three properties is about work in flight |
| `CorpusRunProofs` | `CorpusInv`: one holder per message (`Custody`), which rows a deletion took (`Cascade`), what an attempt has counted is what it committed (`Place`, `Counts`), `boots` plus the attempts about to write (`Settling`), every failed attempt paid for by a fault or by a deletion (`Paid`), and the properties per run (`Truthful`, `Told`) | an attempt starts over what earlier ones have left |
| `ReportLinksProofs` | what a request has loaded (`Books`), what an answer promises (`Promises`), that a row has its object (`Shows`), the counters (`Tallies`), and uploads against requests and faults (`Thrift`) | a retry is free because a row, once there, is found; the bound counts those who looked before |
| `CapabilityFillProofs` | `FillInv`: every loaded copy is backed by commits (`CopiesBacked`), and stored, queued and running fills are at most the requests and crashes (`Balanced`) | a copy may be written back at any time later |
| `TileWarmingProofs` | the counter is the workers that counted and those that leaked (`Tallies`), the lock's owners (`Owners`), `CounterIsMortal` | the counter is changed by commands of its own, and a death between INCR and DECR leaks |

`PreflightJobProofs` also has `Implementation`: every step maps to a step of `JobContract` or to a
stutter, with `status <- row` and `stored <- results`. The proof that an action keeps `IInv`
splits it into the worker that moves (`OwnStep`) and everybody else, who has another tag and by
`Distinct` another job. `WebhookDeliveryProofs` has `DeliveryImplementation`: for every event and
endpoint, each step of an emitter, a worker, the sweep or the client maps to a step of
`DeliveryContract` or to a stutter, where the stage of a delivery is read off its message and
its worker's place (`Stage`), and what its owner sees off the row and the transaction (`Shown`).
`CorpusRunProofs` has `RunImplementation`, run by run: the contract lets an attempt end with an error
only where the row has no verdict yet, so the proof needs to know what the attempt that is
about to fail has loaded (`Place`) and that no other one is at work (`Custody`).
`ReportLinksProofs` has `LinkImplementation`, token by token: the contract lets a row go only by a
revocation that was asked for it, and counts only what was sent of it, so the proof needs that no
two rows and mints share an id, that a request's row is one it has loaded (both in `Books`), and
that a copy of the counter is not ahead of what was sent (`Tallies`).

**Two brokers.** `AckAtomic` says that publishing a retry and acking the failed attempt are one
step. The code does not make them one (`self.retry` publishes, and the ack follows when the task
has ended), so the theorems that assume it say what holds as long as no worker dies in between:
`StoredOnce`, `ExclusiveCustody`, `StoredIsSettled`, `NeverReopened` and `JobContract`.
None of these survives a second message of a job. The other theorems do not
assume it: the job implements `JobUnderFaults` (`FaultyImplementation`), the contract with one
more commit and the right to be reopened for each fault, which is `JobContract` as long as there
was none, which is a theorem too (`FaultFreeImplementation`); a job's task is not lost (`NoTaskLostHolds`), nothing is announced that is not stored
(`OnlyStoredIsAnnouncedHolds`), and findings are committed at most once more than there were faults
(`RepeatsAlwaysBounded`). The last needs two kinds of commit in one account: the one of a run's
`Store`, and the one of a failure handler whose session still holds what the run has added.
The refinement rests on these accounts, and on `Quiet`: before a first fault no run gets to its
handlers (`Paid`), so no retry is published, a job has one message, and its row is pending until
the run marks it and not complete until the run stores.

Some theorems state what no run asks for any more, because a contract that is checked implies it
or others rest on it: `ExclusiveCustodyHolds`, `StoredIsSettledHolds`, `NeverReopenedHolds`,
`RepeatsAlwaysBounded`, `DeadAlwaysFinal` and `HitsAlwaysHonest`.

Only model-checked: liveness (the prover has no rule for fairness over these formulas), `DbInit`,
and the runs that end in a violation. Every safety property of a passing run is a theorem; the type
invariants of the modules are theorems of their own (`TypeCorrect` and its like), and TLC checks
the one of `PreflightJob`.

## 5. Where the code and its texts differ

Shown by runs (see `findings` in `PROJECT.json`): retries after a failure are skipped by the
guard for terminal rows; the reaper counts the time in the queue; a webhook row may never be
updated; a forked child deadlocks at its first session, since `get_db_session` calls
`init_db` with the lock they share (the other modules suppose that a task gets a session, as in
a pool of threads, where `worker_init` has set up the engine); two fills of a job lose one flag;
an audit whose calls fail ends without a status and without a retry; and a later mint changes
what earlier links show.

Met while modelling, and not the subject of a run.

Jobs and intake:

- `tasks.py:459` calls terminal states final. A late exception turns COMPLETE to FAILED, and
  a run the reaper has failed turns FAILED to COMPLETE; `JobContract` allows both.
- After a crash behind the commit of COMPLETE the redelivered task skips every follow-up.
- A snapshot query that fails in the database loses the job silently (`jobs.py:716-737`): the
  COMMIT is a rollback, the task is queued and the client gets its 202, for a row that is not
  there.
- A row whose preset is unknown, or whose task the broker refused, stays pending without a task.
- Requests that are refused after the counter was raised still count, beyond the limit as
  paid overage too.
- A batch sends no warning mail, and the key of a mail is set before the mail may fail.
- `IdempotencyMiddleware` is installed nowhere, although `docs/sdk-spec.md:61-69` describes it.

Webhooks:

- The failure path of `run_preflight` emits `job.failed` after its last commit and closes the
  session, so its audit row is never written (`tasks.py:1233` says every dispatch lands there).
- Nothing clears `is_dead` (`api/models.py:521-524`: a successful replay does).
- The default retry budget is 5 in `tasks.py:1249` and 3 in `api/schemas.py:672` and
  `api/models.py:438`; the backoff is `base * 2**(N-1)` and not the `base * 2**N` of `models.py:442`.
- `DEPLOYMENT.md:232` disables an endpoint after five failures; no code does.

AI passes:

- `audit/quota.py` says that a cap of zero puts every call over quota; the code asks `cap > 0` first.
  It also promises an `audit_status` of `quota_exceeded`, which nothing writes.
- The finding of a gate is called idempotent and can be added twice (`NotesAreBounded`).
- `_mark_pending_retry` can overwrite a verdict that came after its query.
- The OCR swallows the exceptions of its calls as the audit does.

Corpus runs:

- A run that is executed again and fails keeps its old certificate (`models.py:660`: NULL then).
- `delete_assay` says that historical results are preserved; the cascade deletes them.
- A run without assays, or whose assays were all deleted, passes.
- Of two runs that bootstrap an assay the later overwrites the earlier, and also a baseline a
  client has patched in between.

Links, viewer:

- The token of a key does not hash the job: a key that is sent for a second job gets the
  link of the first. An expired link of a key can never be minted again.
- Revoking one link deletes the object that every link of the job shows.
- A download of a missing object raises `ClientError`, where the route expects
  `FileNotFoundError`: a 500 in place of a 404.
- `batch_mint_reports` calls `generate_reports` without its entitlements, so every job of a batch
  fails; and it would send one key for all jobs.
- Warming counts a page that failed as rendered, and its counter's time to live is set by the
  first task of a series and can end under the later ones.

Configuration:

- `toggle_models.py` says of the audit log that it can never drift from the override, and
  `profiles/storage.py:90` that a mutation is atomic. Two of them read the same value, the later
  commit removes the earlier one's profile, and the log, in the order of its timestamps
  (the start of each transaction), may end with another value than the row has.
- A snapshot reads the overrides once for its payload and again for their provenance; under READ
  COMMITTED the two may differ.
- `revoke_decision` says that the first revocation wins; it checks and then writes.

## 6. Plan

The order is by how much rests on a component and how little a test reaches it.

1. Done: `PreflightJob`, `WebhookDelivery`, `DbInit`, `CapabilityFill`, `TileWarming`, `AiAudit`,
   `CorpusRun`, `ReportLinks`, `Intake`, the contracts of a job, a delivery, a run and a link, and the proofs of all of their safety
   properties but `DbInit`'s.
2. Next: the custom profiles and the configuration cascade, with the log and the snapshot. Little
   of what the texts say holds there (see above), so it would be a run that shows the drift
   and a model of the repair.
3. Then: the outage window under `AiAudit`, `Decisions`, and the graphics-state stack and the
   order of checks as operators compared with a reference definition.

The lists of runs, hazards and properties are kept compact: a new module brings its properties
into a passing run of its kind, a property that another one implies gives way, and runs that
show a difference are kept while the code has it. Two hazards have no property, since nothing
in the repository promises anything about them: the snapshot that loses a row, and the failure
handler of a fill that writes nothing.

Not modelled: the contents of documents, findings, payloads and reports, and with them the
analyzers, the semantics of PDF, the conformance checks, comparison and imports, most of the
code by lines, which is sequential and keeps no state; HTTP and authentication; billing
services outside the repository; tenants, which share no state in the parts modelled.
