---------------------------- MODULE PreflightJob ----------------------------
(***************************************************************************)
(* The life of a preflight job: the API inserts the row and enqueues the   *)
(* Celery task run_preflight, a worker moves the row through its states    *)
(* and announces the outcome, a beat-scheduled sweep (reap_stale_jobs)     *)
(* fails jobs it believes dead, and the API may delete the row at any      *)
(* time.                                                                   *)
(*                                                                         *)
(* The broker is modelled by its delivery tags.  A tag whose message is    *)
(* not held by a worker is queued.  acks_late and reject_on_worker_lost    *)
(* mean that a crash only drops the hold, and the message is delivered     *)
(* again.                                                                  *)
(*                                                                         *)
(* Each worker runs the task in its own SQLAlchemy session.  What matters  *)
(* of the session is kept: the status it loaded (an UPDATE is emitted only *)
(* for a changed attribute, and it is never conditional on the status in   *)
(* the table), and whether it holds result rows that are not committed.    *)
(***************************************************************************)
EXTENDS Naturals, FiniteSets

CONSTANTS
    Jobs,        \* job ids
    Workers,     \* task slots of the worker processes
    Tags,        \* delivery tags of the broker
    NoJob,       \* the job of a free tag
    NoTag,       \* the tag of an idle worker
    Source,      \* Source[j]: Job.preflight_source
    MaxRetries,  \* max_retries of the task
    Faults,      \* which faults may occur
    MaxFaults,   \* bound on their number
    AckAtomic    \* a retry's publish and the ack of the attempt are one step

FaultKinds == {"crash", "hard", "error", "db", "broker"}

ASSUME JobAssumption == NoJob \notin Jobs
ASSUME TagAssumption == NoTag \notin Tags
ASSUME FiniteAssumption == IsFiniteSet(Workers) /\ IsFiniteSet(Tags)
ASSUME SourceAssumption == Source \in [Jobs -> {"engine", "external", "minimal"}]
ASSUME BoundAssumption == /\ MaxRetries \in Nat
                          /\ MaxFaults \in Nat
                          /\ Faults \subseteq FaultKinds
                          /\ AckAtomic \in BOOLEAN

VARIABLES
    row,       \* the status column of the job's row, "new" or "deleted" without a row
    api,       \* how far submit_job got with the job
    msg,       \* msg[t]: the message under a tag, the job and its retry count
    worker,    \* worker[w]: the task a slot is executing
    overdue,   \* jobs created more than 12 minutes ago
    scan,      \* the rows the reaper has loaded and will fail
    results,   \* how often the result rows of the job were committed
    announced, \* how often job.completed was emitted
    effects,   \* the other effects the job's runs have had; "lost" is an attempt acked by force
    faults     \* faults so far

vars == <<row, api, msg, worker, overdue, scan, results, announced, effects, faults>>
-----------------------------------------------------------------------------
Status == {"pending", "processing", "complete", "failed"}
Terminal == {"complete", "failed"}
FollowUps == {"audit", "completed", "state", "reports", "tiles"}
Before == {"mark", "load", "run", "store"}     \* work a terminal status rules out
Steps == {"fetch", "fail", "notify", "raise", "ack"} \union Before \union FollowUps

Message == [job : Jobs \union {NoJob}, retries : 0 .. MaxRetries]
Slot == [tag : Tags \union {NoTag}, pc : Steps \union {"idle"},
         seen : Status \union {"new", "deleted", "expired"}, unsaved : 0 .. 1]

FreeTag == [job |-> NoJob, retries |-> 0]
Idle == [tag |-> NoTag, pc |-> "idle", seen |-> "expired", unsaved |-> 0]

\* The job the worker is executing.
JobOf(w) == msg[worker[w].tag].job
Busy(w) == worker[w].tag # NoTag
Held(t) == \E w \in Workers : worker[w].tag = t
Exists(j) == row[j] \in Status

At(w, p) == Busy(w) /\ worker[w].pc = p

\* The task goes on at p; its session has loaded the status s, and holds d results
\* that are not committed.
Continue(w, p, s, d) ==
    worker' = [worker EXCEPT ![w] = [tag |-> worker[w].tag, pc |-> p, seen |-> s, unsaved |-> d]]
Goto(w, p) == Continue(w, p, worker[w].seen, worker[w].unsaved)

\* A flush writes the status only if it differs from the one the session loaded.
Flushed(w, new) == IF worker[w].seen = new THEN row[JobOf(w)] ELSE new

\* Mutant: the engine's path relies on the umbrella event alone.
FirstFollowUpSkips(j) == IF Source[j] = "engine" THEN "state" ELSE "completed"

\* The order of what follows the commit of the result: the engine's path also
\* enqueues the AI tasks and emits the umbrella event.
FirstFollowUp(j) == IF Source[j] = "engine" THEN "audit" ELSE "completed"
NextFollowUp(j, p) ==
    CASE p = "audit" -> "completed"
      [] p = "completed" -> IF Source[j] = "engine" THEN "state" ELSE "reports"
      [] p = "state" -> "reports"
      [] p = "reports" -> "tiles"
      [] OTHER -> "ack"

Fault(kind) == /\ kind \in Faults
               /\ faults < MaxFaults
               /\ faults' = faults + 1

Init == /\ row = [j \in Jobs |-> "new"]
        /\ api = [j \in Jobs |-> "new"]
        /\ msg = [t \in Tags |-> FreeTag]
        /\ worker = [w \in Workers |-> Idle]
        /\ overdue = {}
        /\ scan = {}
        /\ results = [j \in Jobs |-> 0]
        /\ announced = [j \in Jobs |-> 0]
        /\ effects = [j \in Jobs |-> {}]
        /\ faults = 0
-----------------------------------------------------------------------------
(* The API. *)

\* submit_job commits the row before it enqueues the task ...
Submit(j) == /\ api[j] = "new"
             /\ api' = [api EXCEPT ![j] = "saved"]
             /\ row' = [row EXCEPT ![j] = "pending"]
             /\ UNCHANGED <<msg, worker, overdue, scan, results, announced, effects, faults>>

Publish(t, j, r) == /\ msg[t] = FreeTag
                    /\ msg' = [msg EXCEPT ![t] = [job |-> j, retries |-> r]]

\* ... with run_preflight.apply_async.
Enqueue(j) == /\ api[j] = "saved"
              /\ api' = [api EXCEPT ![j] = "enqueued"]
              /\ \E t \in Tags : Publish(t, j, 0)
              /\ UNCHANGED <<row, worker, overdue, scan, results, announced, effects, faults>>

\* An unknown ai_preset (404), a broker error or a crash in between: the row stays.
Abandon(j) == /\ api[j] = "saved"
              /\ api' = [api EXCEPT ![j] = "abandoned"]
              /\ UNCHANGED <<row, msg, worker, overdue, scan, results, announced, effects, faults>>

\* delete_job does not ask for the status.
Delete(j) == /\ Exists(j)
             /\ row' = [row EXCEPT ![j] = "deleted"]
             /\ UNCHANGED <<api, msg, worker, overdue, scan, results, announced, effects, faults>>

\* Twelve minutes pass since created_at, whether or not a worker has started.
Age(j) == /\ Exists(j)
          /\ j \notin overdue
          /\ overdue' = overdue \union {j}
          /\ UNCHANGED <<row, api, msg, worker, scan, results, announced, effects, faults>>
-----------------------------------------------------------------------------
(* run_preflight. *)

\* The broker hands a message to one worker at a time: the hard limit is far below
\* the hour after which Redis would deliver an unacked message again.
Deliver(w, t) == /\ ~Busy(w)
                 /\ msg[t].job # NoJob
                 /\ ~Held(t)
                 /\ worker' = [worker EXCEPT ![w] = [tag |-> t, pc |-> "fetch",
                                                     seen |-> "expired", unsaved |-> 0]]
                 /\ UNCHANGED <<row, api, msg, overdue, scan, results, announced, effects, faults>>

\* Mutants: no look at the status; only COMPLETE counts as terminal.
FetchUnguarded(w) ==
    /\ At(w, "fetch")
    /\ Continue(w, IF Exists(JobOf(w)) THEN "mark" ELSE "ack", row[JobOf(w)], 0)
    /\ UNCHANGED <<row, api, msg, overdue, scan, results, announced, effects, faults>>

FetchRedoesFailed(w) ==
    /\ At(w, "fetch")
    /\ Continue(w, IF Exists(JobOf(w)) /\ row[JobOf(w)] # "complete" THEN "mark" ELSE "ack",
                row[JobOf(w)], 0)
    /\ UNCHANGED <<row, api, msg, overdue, scan, results, announced, effects, faults>>

\* A missing row and a terminal status end the attempt; the caller acks.
Fetch(w) == /\ At(w, "fetch")
            /\ LET s == row[JobOf(w)] IN
               Continue(w, IF Exists(JobOf(w)) /\ s \notin Terminal THEN "mark" ELSE "ack",
                        s, 0)
            /\ UNCHANGED <<row, api, msg, overdue, scan, results, announced, effects, faults>>

\* The commit of PROCESSING expires the loaded attributes.  No UPDATE is sent if
\* the row was loaded as PROCESSING; one that matches no row raises.
Mark(w) ==
    LET j == JobOf(w) IN
    /\ At(w, "mark")
    /\ IF worker[w].seen = "processing" \/ Exists(j)
       THEN /\ row' = [row EXCEPT ![j] = Flushed(w, "processing")]
            /\ Continue(w, "load", "expired", 0)
       ELSE /\ Goto(w, "fail")
            /\ UNCHANGED row
    /\ UNCHANGED <<api, msg, overdue, scan, results, announced, effects, faults>>

\* The first read after the commit reloads the row; nothing looks at its status.
Load(w) == /\ At(w, "load")
           /\ Continue(w, IF Exists(JobOf(w)) THEN "run" ELSE "fail", row[JobOf(w)], 0)
           /\ UNCHANGED <<row, api, msg, overdue, scan, results, announced, effects, faults>>

\* Download, profile, orchestrator (or import, or essentials): the session now
\* holds the result.
Run(w) == /\ At(w, "run")
          /\ Continue(w, "store", worker[w].seen, 1)
          /\ UNCHANGED <<row, api, msg, overdue, scan, results, announced, effects, faults>>

\* Mutants: the status is committed without the findings; the session keeps the
\* findings it has committed; a missing row goes unnoticed.
StoreStatusOnly(w) ==
    /\ At(w, "store")
    /\ row' = [row EXCEPT ![JobOf(w)] = IF Exists(JobOf(w)) THEN "complete" ELSE @]
    /\ Continue(w, FirstFollowUp(JobOf(w)), "expired", 0)
    /\ UNCHANGED <<api, msg, overdue, scan, results, announced, effects, faults>>

StoreKeepsRows(w) ==
    /\ At(w, "store")
    /\ Exists(JobOf(w))
    /\ row' = [row EXCEPT ![JobOf(w)] = Flushed(w, "complete")]
    /\ results' = [results EXCEPT ![JobOf(w)] = @ + 1]
    /\ Continue(w, FirstFollowUp(JobOf(w)), "expired", 1)
    /\ UNCHANGED <<api, msg, overdue, scan, announced, effects, faults>>

StoreRepeats(w) ==
    /\ At(w, "store")
    /\ Exists(JobOf(w))
    /\ row' = [row EXCEPT ![JobOf(w)] = Flushed(w, "complete")]
    /\ results' = [results EXCEPT ![JobOf(w)] = @ + 1]
    /\ \E p \in {"store", FirstFollowUp(JobOf(w))} : Continue(w, p, "expired", 0)
    /\ UNCHANGED <<api, msg, overdue, scan, announced, effects, faults>>

StoreUnchecked(w) ==
    LET j == JobOf(w) IN
    /\ At(w, "store")
    /\ row' = [row EXCEPT ![j] = IF Exists(j) THEN Flushed(w, "complete") ELSE @]
    /\ results' = [results EXCEPT ![j] = IF Exists(j) THEN @ + 1 ELSE @]
    /\ Continue(w, FirstFollowUp(j), "expired", 0)
    /\ UNCHANGED <<api, msg, overdue, scan, announced, effects, faults>>

\* COMPLETE, the result and the findings are one commit.
Store(w) ==
    LET j == JobOf(w) IN
    /\ At(w, "store")
    /\ IF Exists(j)
       THEN /\ row' = [row EXCEPT ![j] = Flushed(w, "complete")]
            /\ results' = [results EXCEPT ![j] = @ + 1]
            /\ Continue(w, FirstFollowUp(j), "expired", 0)
       ELSE /\ Continue(w, "fail", "expired", 0)
            /\ UNCHANGED <<row, results>>
    /\ UNCHANGED <<api, msg, overdue, scan, announced, effects, faults>>

\* job.completed: reading job.tenant_id reloads the row, and raises without one.
Announce(w) ==
    LET j == JobOf(w) IN
    /\ At(w, "completed")
    /\ IF Exists(j)
       THEN /\ announced' = [announced EXCEPT ![j] = @ + 1]
            /\ Continue(w, NextFollowUp(j, "completed"), row[j], 0)
       ELSE /\ Goto(w, "fail")
            /\ UNCHANGED announced
    /\ UNCHANGED <<row, api, msg, overdue, scan, results, effects, faults>>

\* The AI tasks, the umbrella event, the reports and the tile warming.  The
\* reports reference the row, and their commit expires it; outside the engine's
\* path the task's return value then reads it again.
FollowUp(w, p) ==
    LET j == JobOf(w)
        gone == Source[j] # "engine" /\ worker[w].seen = "expired" /\ ~Exists(j) IN
    /\ p \in FollowUps \ {"completed"}
    /\ At(w, p)
    /\ effects' = [effects EXCEPT ![j] = IF p = "reports" /\ ~Exists(j)
                                         THEN @ ELSE @ \union {p}]
    /\ Continue(w, IF p = "tiles" /\ gone THEN "fail" ELSE NextFollowUp(j, p),
                IF p = "reports" THEN "expired" ELSE worker[w].seen, 0)
    /\ UNCHANGED <<row, api, msg, overdue, scan, results, announced, faults>>

\* except Exception: the job is marked FAILED by the same session.  A commit
\* here also writes what the failed run had left in the session.
Fail(w) ==
    LET j == JobOf(w) IN
    /\ At(w, "fail")
    /\ IF Exists(j)
       THEN /\ row' = [row EXCEPT ![j] = Flushed(w, "failed")]
            /\ results' = [results EXCEPT ![j] = @ + worker[w].unsaved]
            /\ Continue(w, "notify", "expired", 0)
       ELSE /\ Continue(w, "raise", "expired", 0)
            /\ UNCHANGED <<row, results>>
    /\ UNCHANGED <<api, msg, overdue, scan, announced, effects, faults>>

\* The job.failed webhook, skipped if the row is gone by now.
Notify(w) ==
    LET j == JobOf(w) IN
    /\ At(w, "notify")
    /\ effects' = [effects EXCEPT ![j] = IF Exists(j) THEN @ \union {"failed"} ELSE @]
    /\ Goto(w, "raise")
    /\ UNCHANGED <<row, api, msg, overdue, scan, results, announced, faults>>

\* Mutants: retries are not counted against the limit; the retry is not published.
RetryUnlimited(w) ==
    LET t == worker[w].tag IN
    /\ At(w, "raise")
    /\ msg' = [msg EXCEPT ![t].retries = @ + 1]
    /\ worker' = [worker EXCEPT ![w] = Idle]
    /\ UNCHANGED <<row, api, overdue, scan, results, announced, effects, faults>>

RetryForgotten(w) ==
    /\ At(w, "raise")
    /\ msg' = [msg EXCEPT ![worker[w].tag] = FreeTag]
    /\ worker' = [worker EXCEPT ![w] = Idle]
    /\ UNCHANGED <<row, api, overdue, scan, results, announced, effects, faults>>

\* The outer handler: self.retry publishes the next attempt and ends this one.
Retry(w) ==
    LET t == worker[w].tag
        r == msg[t].retries IN
    /\ At(w, "raise")
    /\ r < MaxRetries
    /\ IF AckAtomic
       THEN /\ msg' = [msg EXCEPT ![t].retries = r + 1]
            /\ worker' = [worker EXCEPT ![w] = Idle]
       ELSE /\ \E u \in Tags : Publish(u, msg[t].job, r + 1)
            /\ Goto(w, "ack")
    /\ UNCHANGED <<row, api, overdue, scan, results, announced, effects, faults>>

\* No retries left: the task returns a failed result.
GiveUp(w) == /\ At(w, "raise")
             /\ msg[worker[w].tag].retries >= MaxRetries
             /\ Goto(w, "ack")
             /\ UNCHANGED <<row, api, msg, overdue, scan, results, announced, effects, faults>>

Ack(w) == /\ At(w, "ack")
          /\ msg' = [msg EXCEPT ![worker[w].tag] = FreeTag]
          /\ worker' = [worker EXCEPT ![w] = Idle]
          /\ UNCHANGED <<row, api, overdue, scan, results, announced, effects, faults>>
-----------------------------------------------------------------------------
(* Faults of a run. *)

\* An exception or a soft time limit; the first query has no row to mark FAILED.
Raises(w) == /\ Busy(w)
             /\ worker[w].pc \in {"fetch"} \union Before \union FollowUps
             /\ Fault("error")
             /\ Goto(w, IF worker[w].pc = "fetch" THEN "raise" ELSE "fail")
             /\ UNCHANGED <<row, api, msg, overdue, scan, results, announced, effects>>

\* A soft time limit inside the orchestrator has a handler of its own, which
\* commits FAILED before the general one runs.
SoftTimeout(w) ==
    /\ At(w, "run")
    /\ Source[JobOf(w)] = "engine"
    /\ Exists(JobOf(w))
    /\ Fault("error")
    /\ row' = [row EXCEPT ![JobOf(w)] = Flushed(w, "failed")]
    /\ Continue(w, "fail", "expired", 0)
    /\ UNCHANGED <<api, msg, overdue, scan, results, announced, effects>>

\* A follow-up or the webhook of a failure that fails is logged and the run goes on.
Swallowed(w, p) ==
    LET j == JobOf(w) IN
    /\ p \in FollowUps \union {"notify"}
    /\ At(w, p)
    /\ p = "completed" => Exists(j)
    /\ Fault("error")
    /\ Continue(w, IF p = "notify" THEN "raise" ELSE NextFollowUp(j, p),
                IF p = "completed" THEN row[j] ELSE worker[w].seen, 0)
    /\ UNCHANGED <<row, api, msg, overdue, scan, results, announced, effects>>

\* A commit that fails rolls the session back; the one in the handler is logged.
CommitFails(w) == /\ Busy(w)
                  /\ worker[w].pc \in {"mark", "store", "fail"}
                  /\ Fault("db")
                  /\ Continue(w, IF worker[w].pc = "fail" THEN "raise" ELSE "fail", "expired", 0)
                  /\ UNCHANGED <<row, api, msg, overdue, scan, results, announced, effects>>

\* Mutant: without acks_late the message is gone with the process.
CrashAcked(w) == /\ Busy(w)
                 /\ Fault("crash")
                 /\ msg' = [msg EXCEPT ![worker[w].tag] = FreeTag]
                 /\ worker' = [worker EXCEPT ![w] = Idle]
                 /\ UNCHANGED <<row, api, overdue, scan, results, announced, effects>>

\* The process dies; the message goes back to the queue.
Crash(w) == /\ Busy(w)
            /\ Fault("crash")
            /\ worker' = [worker EXCEPT ![w] = Idle]
            /\ UNCHANGED <<row, api, msg, overdue, scan, results, announced, effects>>

\* The hard time limit kills the process, and Celery acks the message.
HardTimeout(w) == /\ Busy(w)
                  /\ Fault("hard")
                  /\ msg' = [msg EXCEPT ![worker[w].tag] = FreeTag]
                  /\ worker' = [worker EXCEPT ![w] = Idle]
                  /\ effects' = [effects EXCEPT ![JobOf(w)] = @ \union {"lost"}]
                  /\ UNCHANGED <<row, api, overdue, scan, results, announced>>

\* self.retry cannot reach the broker: the task fails and is acked.
RetryFails(w) == /\ At(w, "raise")
                 /\ msg[worker[w].tag].retries < MaxRetries
                 /\ Fault("broker")
                 /\ Goto(w, "ack")
                 /\ effects' = [effects EXCEPT ![JobOf(w)] = @ \union {"lost"}]
                 /\ UNCHANGED <<row, api, msg, overdue, scan, results, announced>>
-----------------------------------------------------------------------------
(* reap_stale_jobs. *)

\* Mutant: the sweep looks for jobs that were never started.
StalePending == {j \in Jobs : row[j] = "pending" /\ j \in overdue}

Stale == {j \in Jobs : row[j] = "processing" /\ j \in overdue}

\* The sweep loads the rows and emits job.failed for each before it commits.
ReapScan == /\ scan = {}
            /\ Stale # {}
            /\ scan' = Stale
            /\ effects' = [j \in Jobs |-> IF j \in Stale
                                          THEN effects[j] \union {"failed"} ELSE effects[j]]
            /\ UNCHANGED <<row, api, msg, worker, overdue, results, announced, faults>>

\* One commit for all the rows, whatever their status is by now; a deleted row
\* makes it fail.
ReapCommit == /\ scan # {}
              /\ scan' = {}
              /\ row' = IF \A j \in scan : Exists(j)
                        THEN [j \in Jobs |-> IF j \in scan THEN "failed" ELSE row[j]]
                        ELSE row
              /\ UNCHANGED <<api, msg, worker, overdue, results, announced, effects, faults>>

ReapFails == /\ scan # {}
             /\ scan' = {}
             /\ Fault("db")
             /\ UNCHANGED <<row, api, msg, worker, overdue, results, announced, effects>>
-----------------------------------------------------------------------------
ApiStep(j) == Submit(j) \/ Enqueue(j) \/ Abandon(j) \/ Delete(j)

TaskStep(w) == \/ Fetch(w) \/ Mark(w) \/ Load(w) \/ Run(w) \/ Store(w)
               \/ Announce(w)
               \/ \E p \in FollowUps : FollowUp(w, p)
               \/ Fail(w) \/ Notify(w) \/ Retry(w) \/ GiveUp(w) \/ Ack(w)

FaultStep(w) == \/ \E p \in FollowUps \union {"notify"} : Swallowed(w, p)
                \/ Raises(w) \/ SoftTimeout(w) \/ CommitFails(w) \/ Crash(w)
                \/ HardTimeout(w) \/ RetryFails(w)

ReapStep == ReapScan \/ ReapCommit

Next == \/ \E j \in Jobs : ApiStep(j) \/ Age(j)
        \/ \E w \in Workers, t \in Tags : Deliver(w, t)
        \/ \E w \in Workers : TaskStep(w) \/ FaultStep(w)
        \/ ReapStep
        \/ ReapFails

Spec == Init /\ [][Next]_vars

\* Workers run what they take, an idle worker takes queued messages, time
\* passes, and beat keeps scheduling the sweep.  The API and the faults are free.
Fairness == /\ \A w \in Workers : WF_vars(TaskStep(w))
            /\ \A t \in Tags : WF_vars(\E w \in Workers : Deliver(w, t))
            /\ \A j \in Jobs : WF_vars(Age(j))
            /\ WF_vars(ReapStep)

FairSpec == Spec /\ Fairness
-----------------------------------------------------------------------------
TypeOK ==
    /\ row \in [Jobs -> Status \union {"new", "deleted"}]
    /\ api \in [Jobs -> {"new", "saved", "enqueued", "abandoned"}]
    /\ msg \in [Tags -> Message]
    /\ worker \in [Workers -> Slot]
    /\ overdue \subseteq Jobs
    /\ scan \subseteq Jobs
    /\ results \in [Jobs -> Nat]
    /\ announced \in [Jobs -> Nat]
    /\ effects \in [Jobs -> SUBSET (FollowUps \union {"failed", "lost"})]
    /\ faults \in 0 .. MaxFaults

\* A job's findings are committed at most once, whatever crashes, redeliveries,
\* retries, late handlers and sweeps its runs meet (run_preflight, reap_stale_jobs).
StoredOnce == \A j \in Jobs : results[j] <= 1

\* Where the publish of a retry and the ack of the attempt are two steps, two runs of
\* a job may overlap; even so its findings are committed again only as often as
\* something went wrong (task_acks_late, self.retry).
RepeatsAreBounded == \A j \in Jobs : results[j] <= 1 + faults

\* No two workers execute the same job and no second copy of its message waits,
\* although the message survives crashes and is published again by every retry.
ExclusiveCustody ==
    /\ \A t, u \in Tags : msg[t].job = msg[u].job /\ msg[t].job # NoJob => t = u
    /\ \A v, w \in Workers : worker[v].tag = worker[w].tag /\ Busy(v) => v = w

\* Once findings are committed the row is terminal or gone: no worker, handler
\* or sweep that acts later on what it read earlier brings it back to work.
StoredIsSettled ==
    \A j \in Jobs : results[j] > 0 => row[j] \in Terminal \union {"deleted"}

\* A run announces, audits, reports and warms only what it has committed, so a
\* subscriber of job.completed or an AI task always finds the findings.
OnlyStoredIsAnnounced ==
    \A j \in Jobs : /\ announced[j] <= results[j]
                    /\ effects[j] \intersect FollowUps # {} => results[j] > 0

\* A row that was complete or failed never shows pending or processing again
\* (the redelivery guard at the top of run_preflight).
NeverReopened ==
    [][\A j \in Jobs : row[j] \in Terminal => row'[j] \notin {"pending", "processing"}]_vars

\* While a job is unsettled the broker still has its task, as long as no more
\* faults than retries have happened and no attempt was acked by force
\* (task_acks_late, task_reject_on_worker_lost and self.retry together).
NoTaskLost ==
    \A j \in Jobs : /\ faults <= MaxRetries
                    /\ api[j] = "enqueued"
                    /\ row[j] \in {"pending", "processing"}
                    /\ "lost" \notin effects[j]
                    => \E t \in Tags : msg[t].job = j

\* Every job the API accepted and enqueued leaves pending and processing, unless an
\* attempt was acked by force.
EnqueuedSettles ==
    \A j \in Jobs : api[j] = "enqueued"
                        ~> row[j] \in Terminal \union {"deleted"} \/ "lost" \in effects[j]

\* No job stays in processing forever, even if its worker was killed and its
\* message acked: the reaper ends it.
ProcessingSettles == \A j \in Jobs : row[j] = "processing" ~> row[j] # "processing"

\* Whoever waits for job.completed gets it once the findings are stored, unless the
\* job is deleted: only a fault between the commit and the event can lose it, and
\* neither a sweep nor a second worker does (run_preflight's follow-ups).
StoredIsAnnounced ==
    \A j \in Jobs : results[j] > 0
                        ~> announced[j] > 0 \/ row[j] = "deleted" \/ faults > 0

Contract == INSTANCE JobContract WITH status <- row, stored <- results

\* The workers, the reaper and the API together keep the client's contract:
\* every step they take is a step of JobContract or invisible to a client.
ImplementsContract == Contract!Spec

Loose(j) == INSTANCE JobUnderFaults WITH
    status <- row[j], stored <- results[j], announced <- announced[j], incidents <- faults

\* Where a crash may leave two messages of a job, two runs of it overlap: its client then
\* sees what JobUnderFaults allows, which is no more than JobContract until a first fault.
\* The extra commits are paid for by faults (task_acks_late, self.retry).
ImplementsUnderFaults ==
    /\ \A j \in Jobs : Loose(j)!Init
    /\ [][\A j \in Jobs : Loose(j)!Next \/ UNCHANGED Loose(j)!vars]_vars
-----------------------------------------------------------------------------
(* What the comments of the code claim. *)

\* "Never cancels work that could still legitimately be running" (tasks.py:955):
\* the sweep fails no row whose task a worker is executing.
ReaperSparesLiveWork ==
    [][\A j \in scan : row[j] = "processing" /\ row'[j] = "failed" /\ scan' = {}
            => \A w \in Workers : Busy(w) => JobOf(w) # j]_vars

\* "Retry on transient failures" (tasks.py:922): an attempt after the first does
\* the work again if the job failed and neither the sweep nor a client touched it.
TransientFailureIsRetried ==
    [][\A w \in Workers :
          /\ At(w, "fetch") /\ worker'[w] # worker[w]
          /\ msg[worker[w].tag].retries > 0
          /\ row[JobOf(w)] = "failed" /\ JobOf(w) \notin overdue
          => worker'[w].pc = "mark"]_vars
=============================================================================
