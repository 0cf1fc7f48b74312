------------------------------- MODULE Intake -------------------------------
(***************************************************************************)
(* How preflight jobs are let in: submit_job for one file, submit_batch    *)
(* for several.  Each file is counted against the tenant's limit of the    *)
(* day with one atomic command of Redis, beyond which a paying tenant may  *)
(* go up to a spending cap; the rows of a request are committed together,  *)
(* their tasks are queued one by one, and a tenant that nears its limit is *)
(* sent one mail per threshold.                                            *)
(*                                                                         *)
(* One tenant, one day.  A job has a number here from the moment its file  *)
(* is let in.  What becomes of its task is the subject of PreflightJob.    *)
(***************************************************************************)
EXTENDS Integers, FiniteSets

CONSTANTS
    Posters,     \* requests in progress
    Limit,       \* Tenant.rate_limit_daily
    Overage,     \* Tenant.overage_enabled
    Rate,        \* cents for a file beyond the limit
    SpendCap,    \* Tenant.overage_cap_cents
    NoCap,       \* its NULL
    WarnAt,      \* RATE_LIMIT_WARN_THRESHOLD
    OverageAt,   \* RATE_LIMIT_OVERAGE_THRESHOLD
    MaxFiles,    \* bound on the files of a batch
    MaxPosts,    \* bound on the requests
    MaxMade,     \* bound on the files that are let in
    PostFaults,  \* which faults may occur
    MaxPostFaults

ASSUME TenantAssumption ==
    /\ Limit \in Nat /\ Rate \in Nat /\ Overage \in BOOLEAN
    /\ NoCap \notin Nat /\ SpendCap \in Nat \union {NoCap}
    /\ WarnAt \in Nat /\ OverageAt \in Nat
ASSUME PostBoundAssumption == /\ MaxFiles \in Nat \ {0} /\ MaxPosts \in Nat /\ MaxMade \in Nat
                              /\ MaxPostFaults \in Nat

VARIABLES
    used,     \* the counter of the day
    post,     \* post[p]: a request, and what its session holds
    job,      \* job[i]: the job of the i-th file that was let in
    made,     \* files let in so far
    posts,    \* requests so far
    listed,   \* batches stored in Redis: sets of jobs
    notified, \* thresholds whose key is set
    mails,    \* mails[t]: mails sent for a threshold
    opened,   \* files let in because Redis failed
    doubled,  \* warnings sent without a look at their key, because Redis failed
    slips     \* faults so far

postVars == <<used, post, job, made, posts, listed, notified, mails, opened, doubled, slips>>
-----------------------------------------------------------------------------
Numbers == 1 .. MaxMade
Thresholds == {WarnAt, OverageAt}

\* A row is "gone" when its transaction was rolled back and nobody noticed.
Posted == [of : 0 .. MaxPosts, row : {"none", "saved", "gone"}, queued : BOOLEAN,
           answered : BOOLEAN]
NewJob == [of |-> 0, row |-> "none", queued |-> FALSE, answered |-> FALSE]

PostSteps == {"count", "upload", "snapshot", "commit", "queue", "warn", "list", "answer"}
PostRequest == [pc : PostSteps \union {"idle"}, of : 0 .. MaxPosts, batch : BOOLEAN,
                imported : BOOLEAN, files : 0 .. MaxFiles, current : Numbers \union {0},
                seen : Nat,                  \* the count the last file was let in with
                held : SUBSET Numbers,       \* the rows of the session
                unqueued : SUBSET Numbers,   \* pending_queue
                broken : BOOLEAN]            \* the database has aborted the transaction
IdlePoster == [pc |-> "idle", of |-> 0, batch |-> FALSE, imported |-> FALSE, files |-> 0,
               current |-> 0, seen |-> 0, held |-> {}, unqueued |-> {}, broken |-> FALSE]

Reached(p, s) == post[p].pc = s
Proceed(p, s) == post' = [post EXCEPT ![p] = [@ EXCEPT !.pc = s]]
Hang(p) == post' = [post EXCEPT ![p] = IdlePoster]

Slip(kind) == /\ kind \in PostFaults
              /\ slips < MaxPostFaults
              /\ slips' = slips + 1

\* build_usage_info, for the n-th file of the day.
Blocked(n) == /\ n > Limit
              /\ \/ ~Overage \/ Rate = 0
                 \/ SpendCap # NoCap /\ (n - Limit) * Rate > SpendCap
Percent(n) == IF Limit > 0 THEN (n * 100) \div Limit ELSE 100
ThresholdOf(n) == IF Percent(n) >= OverageAt THEN OverageAt ELSE WarnAt

IntakeInit == /\ used = 0
              /\ post = [p \in Posters |-> IdlePoster]
              /\ job = [i \in Numbers |-> NewJob]
              /\ made = 0
              /\ posts = 0
              /\ listed = {}
              /\ notified = {}
              /\ mails = [t \in Thresholds |-> 0]
              /\ opened = 0
              /\ doubled = 0
              /\ slips = 0
-----------------------------------------------------------------------------
(* The loop over the files. *)

Arrive(p, n, batch, imported) ==
    /\ Reached(p, "idle")
    /\ posts < MaxPosts
    /\ posts' = posts + 1
    /\ post' = [post EXCEPT ![p] = [IdlePoster EXCEPT
           !.pc = "count", !.of = posts + 1, !.batch = batch, !.imported = imported, !.files = n]]
    /\ UNCHANGED <<used, job, made, listed, notified, mails, opened, doubled, slips>>

LetIn(p, n) ==
    /\ made < MaxMade
    /\ made' = made + 1
    /\ job' = [job EXCEPT ![made + 1] = [@ EXCEPT !.of = post[p].of]]
    /\ post' = [post EXCEPT ![p] = [@ EXCEPT !.pc = "upload", !.current = made + 1, !.seen = n]]

\* Mutant: a batch is counted once.
CountFirstFile(p) ==
    LET n == IF post[p].held = {} THEN used + 1 ELSE used IN
    /\ Reached(p, "count")
    /\ used' = n
    /\ IF Blocked(n) THEN Hang(p) /\ UNCHANGED <<job, made>> ELSE LetIn(p, n)
    /\ UNCHANGED <<posts, listed, notified, mails, opened, doubled, slips>>

\* check_rate_limit: a file that is refused has been counted, and takes the files of its
\* batch before it along, whose rows are not committed.
CountFile(p) ==
    LET n == used + 1 IN
    /\ Reached(p, "count")
    /\ used' = n
    /\ IF Blocked(n) THEN Hang(p) /\ UNCHANGED <<job, made>> ELSE LetIn(p, n)
    /\ UNCHANGED <<posts, listed, notified, mails, opened, doubled, slips>>

\* An error of Redis, before or after the script has run, lets the file in.
CountFileFails(p) ==
    /\ Reached(p, "count")
    /\ Slip("redis")
    /\ used' \in {used, used + 1}
    /\ opened' = opened + 1
    /\ LetIn(p, 0)
    /\ UNCHANGED <<posts, listed, notified, mails, doubled>>

\* The burst limit, the file quota, an unknown profile, an upload that is not valid or
\* cannot be stored.
Refuse(p) == /\ Reached(p, "count") \/ Reached(p, "upload")
             /\ Hang(p)
             /\ UNCHANGED <<used, job, made, posts, listed, notified, mails, opened, doubled,
                            slips>>

\* Mutant: the row of each file of a batch is committed at once.
AddRowAndCommit(p) ==
    /\ Reached(p, "upload")
    /\ post' = [post EXCEPT ![p] = [@ EXCEPT
           !.held = post[p].held \union {post[p].current}, !.files = post[p].files - 1,
           !.pc = IF ~post[p].batch THEN "snapshot"
                  ELSE IF post[p].files > 1 THEN "count" ELSE "commit"]]
    /\ job' = [job EXCEPT ![post[p].current] = [@ EXCEPT
           !.row = IF post[p].batch THEN "saved" ELSE "none"]]
    /\ UNCHANGED <<used, made, posts, listed, notified, mails, opened, doubled, slips>>

\* The file is stored and its row added to the session; a single row is flushed, too.
AddRow(p) ==
    /\ Reached(p, "upload")
    /\ post' = [post EXCEPT ![p] = [@ EXCEPT
           !.held = post[p].held \union {post[p].current}, !.files = post[p].files - 1,
           !.pc = IF ~post[p].batch THEN "snapshot"
                  ELSE IF post[p].files > 1 THEN "count" ELSE "commit"]]
    /\ UNCHANGED <<used, job, made, posts, listed, notified, mails, opened, doubled, slips>>
-----------------------------------------------------------------------------
(* The rows are committed and the tasks queued. *)

Snapshot(p) == /\ Reached(p, "snapshot")
               /\ Proceed(p, "commit")
               /\ UNCHANGED <<used, job, made, posts, listed, notified, mails, opened, doubled,
                              slips>>

\* A query of write_snapshot fails: the error is logged and the submission goes on, in a
\* transaction that the database has aborted.
SnapshotFails(p) ==
    /\ Reached(p, "snapshot")
    /\ Slip("query")
    /\ post' = [post EXCEPT ![p] = [@ EXCEPT !.pc = "commit", !.broken = TRUE]]
    /\ UNCHANGED <<used, job, made, posts, listed, notified, mails, opened, doubled>>

\* The commit of an aborted transaction rolls it back, and psycopg2 says nothing.
CommitRows(p) ==
    /\ Reached(p, "commit")
    /\ ~(post[p].broken /\ post[p].imported)
    /\ job' = [i \in Numbers |-> IF i \in post[p].held
                                 THEN [job[i] EXCEPT !.row = IF post[p].broken THEN "gone"
                                                                               ELSE "saved"]
                                 ELSE job[i]]
    /\ post' = [post EXCEPT ![p] = [@ EXCEPT !.pc = "queue", !.unqueued = post[p].held]]
    /\ UNCHANGED <<used, made, posts, listed, notified, mails, opened, doubled, slips>>

\* The row of an imported report is still to be written, which an aborted transaction
\* refuses.
RowsFail(p) ==
    /\ Reached(p, "commit")
    /\ \/ post[p].broken /\ post[p].imported /\ UNCHANGED slips
       \/ Slip("db")
    /\ Hang(p)
    /\ UNCHANGED <<used, job, made, posts, listed, notified, mails, opened, doubled>>

\* The preset is looked up after the commit: 404, and the row stays.
PresetUnknown(p) == /\ Reached(p, "queue")
                    /\ ~post[p].batch
                    /\ Hang(p)
                    /\ UNCHANGED <<used, job, made, posts, listed, notified, mails, opened,
                                   doubled, slips>>

AfterQueue(p) == IF post[p].batch THEN "list"
                 ELSE IF post[p].seen > 0 /\ Percent(post[p].seen) >= WarnAt THEN "warn"
                 ELSE "answer"

QueueTask(p) ==
    /\ Reached(p, "queue")
    /\ \E i \in post[p].unqueued :
          /\ \A k \in post[p].unqueued : i <= k
          /\ job' = [job EXCEPT ![i] = [@ EXCEPT !.queued = TRUE]]
          /\ post' = [post EXCEPT ![p] = [@ EXCEPT
                 !.unqueued = post[p].unqueued \ {i},
                 !.pc = IF post[p].unqueued = {i} THEN AfterQueue(p) ELSE "queue"]]
    /\ UNCHANGED <<used, made, posts, listed, notified, mails, opened, doubled, slips>>

\* Mutant: a broker error is logged and the loop goes on.
QueueTaskShrugged(p) ==
    /\ Reached(p, "queue")
    /\ Slip("broker")
    /\ \E i \in post[p].unqueued :
          /\ \A k \in post[p].unqueued : i <= k
          /\ post' = [post EXCEPT ![p] = [@ EXCEPT
                 !.unqueued = post[p].unqueued \ {i},
                 !.pc = IF post[p].unqueued = {i} THEN AfterQueue(p) ELSE "queue"]]
    /\ UNCHANGED <<used, job, made, posts, listed, notified, mails, opened, doubled>>

\* The answer is a 500, whatever was queued before.
QueueTaskFails(p) == /\ Reached(p, "queue")
                     /\ Slip("broker")
                     /\ Hang(p)
                     /\ UNCHANGED <<used, job, made, posts, listed, notified, mails, opened,
                                    doubled>>
-----------------------------------------------------------------------------
(* The warning, the list of the batch, the answer. *)

\* Mail goes through a provider that may refuse it; the key is set by then.
SendMail(t) == mails' \in {mails, [mails EXCEPT ![t] = @ + 1]}

\* Mutant: the key is set after the mail, without a condition.
WarnUnconditionally(p) ==
    LET t == ThresholdOf(post[p].seen) IN
    /\ Reached(p, "warn")
    /\ notified' = notified \union {t}
    /\ SendMail(t)
    /\ Proceed(p, "answer")
    /\ UNCHANGED <<used, job, made, posts, listed, opened, doubled, slips>>

\* _send_rate_warning_if_needed: SET NX.
Warn(p) ==
    LET t == ThresholdOf(post[p].seen) IN
    /\ Reached(p, "warn")
    /\ notified' = notified \union {t}
    /\ IF t \in notified THEN UNCHANGED mails ELSE SendMail(t)
    /\ Proceed(p, "answer")
    /\ UNCHANGED <<used, job, made, posts, listed, opened, doubled, slips>>

\* "Redis dedup check failed - sending warning anyway".
WarnBlindly(p) ==
    LET t == ThresholdOf(post[p].seen) IN
    /\ Reached(p, "warn")
    /\ Slip("redis")
    /\ notified' \in {notified, notified \union {t}}
    /\ doubled' = doubled + 1
    /\ SendMail(t)
    /\ Proceed(p, "answer")
    /\ UNCHANGED <<used, job, made, posts, listed, opened>>

StoreBatch(p) == /\ Reached(p, "list")
                 /\ listed' = listed \union {post[p].held}
                 /\ Proceed(p, "answer")
                 /\ UNCHANGED <<used, job, made, posts, notified, mails, opened, doubled, slips>>

\* Best-effort: the batch is answered, and may not be found by its id.
StoreBatchFails(p) ==
    /\ Reached(p, "list")
    /\ Slip("redis")
    /\ listed' \in {listed, listed \union {post[p].held}}
    /\ Proceed(p, "answer")
    /\ UNCHANGED <<used, job, made, posts, notified, mails, opened, doubled>>

AnswerPost(p) ==
    /\ Reached(p, "answer")
    /\ job' = [i \in Numbers |-> IF i \in post[p].held THEN [job[i] EXCEPT !.answered = TRUE]
                                                       ELSE job[i]]
    /\ Hang(p)
    /\ UNCHANGED <<used, made, posts, listed, notified, mails, opened, doubled, slips>>

\* The process dies; the session's transaction is rolled back.
PosterDies(p) == /\ ~Reached(p, "idle")
                 /\ Slip("crash")
                 /\ Hang(p)
                 /\ UNCHANGED <<used, job, made, posts, listed, notified, mails, opened, doubled>>
-----------------------------------------------------------------------------
ArriveStep(p) == \/ \E imported \in BOOLEAN : Arrive(p, 1, FALSE, imported)
                 \/ \E n \in 1 .. MaxFiles : Arrive(p, n, TRUE, FALSE)

PostStep(p) == \/ ArriveStep(p)
               \/ CountFile(p) \/ Refuse(p) \/ AddRow(p)
               \/ Snapshot(p) \/ CommitRows(p) \/ PresetUnknown(p) \/ QueueTask(p)
               \/ Warn(p) \/ StoreBatch(p) \/ AnswerPost(p)

PostFault(p) == \/ CountFileFails(p) \/ SnapshotFails(p) \/ RowsFail(p) \/ QueueTaskFails(p)
                \/ WarnBlindly(p) \/ StoreBatchFails(p) \/ PosterDies(p)

IntakeNext == \E p \in Posters : PostStep(p) \/ PostFault(p)

IntakeSpec == IntakeInit /\ [][IntakeNext]_postVars
-----------------------------------------------------------------------------
IntakeTypeOK ==
    /\ used \in Nat
    /\ post \in [Posters -> PostRequest]
    /\ job \in [Numbers -> Posted]
    /\ made \in 0 .. MaxMade
    /\ posts \in 0 .. MaxPosts
    /\ listed \subseteq SUBSET Numbers
    /\ notified \subseteq Thresholds
    /\ mails \in [Thresholds -> Nat]
    /\ opened \in Nat
    /\ doubled \in Nat
    /\ slips \in 0 .. MaxPostFaults

Saved == {i \in Numbers : job[i].row = "saved"}

\* check_rate_limit: however many requests count at the same time, and whatever is
\* refused later, the jobs of a day stay within the limit and the spending cap, apart
\* from those that were let in because Redis failed.
LimitHolds == LET n == Cardinality(Saved) - opened IN n > 0 => ~Blocked(n)

\* The comment at batch.py:275: a task is queued only when the transaction of its row is
\* over; and a client that was answered has all its jobs in the queue.
AnsweredIsQueued == \A i \in Numbers : /\ job[i].queued => job[i].row # "none"
                                       /\ job[i].answered => job[i].queued

\* Of the files of one request all become rows or none, and a batch that can be looked
\* up consists of jobs that were queued.
BatchIsWhole ==
    /\ \A i, k \in Numbers : job[i].of = job[k].of /\ job[i].of > 0 => job[i].row = job[k].row
    /\ \A B \in listed : \A i \in B : job[i].queued

\* "only one email per threshold per day" (jobs.py:184), whichever requests pass it at
\* the same time, but for those that could not ask Redis.
OneMailPerThreshold == \A t \in Thresholds : mails[t] <= 1 + doubled
=============================================================================
