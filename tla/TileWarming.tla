----------------------------- MODULE TileWarming -----------------------------
(***************************************************************************)
(* warm_viewer_tiles: after a job completes, its page tiles are rendered   *)
(* ahead of the viewer.  The tasks of one tenant coordinate through Redis: *)
(* a lock per job, set with NX and a time to live, and deleted without      *)
(* asking who holds it, and a counter per tenant that caps the tasks at    *)
(* work, raised with INCR, lowered with DECR, and given a time to live by  *)
(* whoever raises it to one.                                               *)
(*                                                                         *)
(* Tenants do not interact, so there is one.  The pages, their tiles and   *)
(* the progress in between are not modelled.                               *)
(***************************************************************************)
EXTENDS Integers, FiniteSets

CONSTANTS
    Jobs,         \* the tenant's jobs
    Warmers,      \* task slots
    NoJob,        \* the job of an idle worker
    Cap,          \* LINTPDF_TILE_WARMING_PER_TENANT_MAX
    MaxEnqueues,  \* bound on the runs of preflight that ask for tiles
    TileFaults,   \* which faults may occur
    MaxTileFaults \* bound on their number

TileFaultKinds == {"crash", "hard", "error", "redis", "broker", "expiry"}

ASSUME NoJobAssumption == NoJob \notin Jobs
ASSUME CapAssumption == Cap \in Nat \ {0}
ASSUME WarmBounds == /\ MaxEnqueues \in Nat /\ MaxTileFaults \in Nat
                     /\ TileFaults \subseteq TileFaultKinds

VARIABLES
    lock,      \* lock[j]: the key of the job's lock exists
    count,     \* the tenant's counter
    lasting,   \* it has no time to live
    status,    \* status[j]: the status hash the viewer polls
    waiting,   \* waiting[j]: messages
    warmer,    \* warmer[w]: where the task is, its job, and whether it holds a slot
    enqueues,  \* how often the tiles of a job were asked for
    leaked,    \* slots of workers that died with them, or could not lower the counter
    spoiled,   \* the counter has expired, or a task has gone on without it
    torn,      \* jobs whose lock was deleted twice by one task, or expired under it
    silent,    \* jobs over which a worker died, or Redis lost the last status
    tileFaults \* faults so far

tileVars == <<lock, count, lasting, status, waiting, warmer, enqueues, leaked, spoiled, torn,
              silent, tileFaults>>
-----------------------------------------------------------------------------
IdleWarmer == [pc |-> "idle", job |-> NoJob, slot |-> 0]

At(w, p) == warmer[w].pc = p
Goto(w, p) == warmer' = [warmer EXCEPT ![w].pc = p]
GotoWith(w, p, s) == warmer' = [warmer EXCEPT ![w].pc = p, ![w].slot = s]
JobOf(w) == warmer[w].job

\* The tasks that have raised the counter and not yet lowered it.
Counted == {w \in Warmers : warmer[w].pc \in {"expire", "over"} \/ warmer[w].slot = 1}
Warming == {w \in Warmers : warmer[w].pc \in {"publish", "work"}}

TileFault(kind) == /\ kind \in TileFaults
                   /\ tileFaults < MaxTileFaults
                   /\ tileFaults' = tileFaults + 1

history == <<enqueues, leaked, spoiled, torn, silent>>

TileInit == /\ lock = [j \in Jobs |-> FALSE]
            /\ count = 0
            /\ lasting = TRUE
            /\ status = [j \in Jobs |-> "none"]
            /\ waiting = [j \in Jobs |-> 0]
            /\ warmer = [w \in Warmers |-> IdleWarmer]
            /\ enqueues = 0
            /\ leaked = 0
            /\ spoiled = FALSE
            /\ torn = {}
            /\ silent = {}
            /\ tileFaults = 0
-----------------------------------------------------------------------------
\* enqueue_tile_warming, at the end of a run of preflight.
Enqueue(j) == /\ enqueues < MaxEnqueues
              /\ enqueues' = enqueues + 1
              /\ waiting' = [waiting EXCEPT ![j] = @ + 1]
              /\ UNCHANGED <<lock, count, lasting, status, warmer, leaked, spoiled, torn,
                             silent, tileFaults>>

\* Mutant: the lock is taken without NX.
AcquireAnyway(w, j) ==
    /\ At(w, "idle")
    /\ waiting[j] > 0
    /\ waiting' = [waiting EXCEPT ![j] = @ - 1]
    /\ lock' = [lock EXCEPT ![j] = TRUE]
    /\ warmer' = [warmer EXCEPT ![w] = [pc |-> "check", job |-> j, slot |-> 0]]
    /\ UNCHANGED <<count, lasting, status, history, tileFaults>>

\* SET NX: a task that finds the lock taken is over, and acked.
Acquire(w, j) ==
    /\ At(w, "idle")
    /\ waiting[j] > 0
    /\ waiting' = [waiting EXCEPT ![j] = @ - 1]
    /\ lock' = [lock EXCEPT ![j] = TRUE]
    /\ warmer' = IF lock[j] THEN warmer
                 ELSE [warmer EXCEPT ![w] = [pc |-> "check", job |-> j, slot |-> 0]]
    /\ UNCHANGED <<count, lasting, status, history, tileFaults>>

\* The job is still COMPLETE and has pages, or there is nothing to do.
Check(w) == /\ At(w, "check")
            /\ Goto(w, "incr") \/ Goto(w, "release")
            /\ UNCHANGED <<lock, count, lasting, status, waiting, history, tileFaults>>

\* Mutant: the task that raises the counter beyond the cap goes on.
IncrLate(w) == /\ At(w, "incr")
               /\ count' = count + 1
               /\ IF count' = 1 THEN Goto(w, "expire")
                  ELSE IF count > Cap THEN Goto(w, "over")
                  ELSE GotoWith(w, "publish", 1)
               /\ UNCHANGED <<lock, lasting, status, waiting, history, tileFaults>>

\* Mutant: the task takes itself for a holder before it looks at the cap.
IncrHeld(w) == /\ At(w, "incr")
               /\ count' = count + 1
               /\ IF count' = 1 THEN Goto(w, "expire")
                  ELSE IF count' > Cap THEN GotoWith(w, "over", 1)
                  ELSE GotoWith(w, "publish", 1)
               /\ UNCHANGED <<lock, lasting, status, waiting, history, tileFaults>>

Incr(w) == /\ At(w, "incr")
           /\ count' = count + 1
           /\ IF count' = 1 THEN Goto(w, "expire")
              ELSE IF count' > Cap THEN Goto(w, "over")
              ELSE GotoWith(w, "publish", 1)
           /\ UNCHANGED <<lock, lasting, status, waiting, history, tileFaults>>

\* Mutant: an error of EXPIRE is ignored.
ExpireIgnored(w) == /\ At(w, "expire")
                    /\ GotoWith(w, "publish", 1)
                    /\ UNCHANGED <<lock, count, lasting, status, waiting, history, tileFaults>>

Expire(w) == /\ At(w, "expire")
             /\ lasting' = FALSE
             /\ GotoWith(w, "publish", 1)
             /\ UNCHANGED <<lock, count, status, waiting, history, tileFaults>>

\* Over the cap: lower the counter, free the job, queue the task again, and leave ...
Decr(w) == /\ At(w, "over")
           /\ count' = count - 1
           /\ Goto(w, "drop")
           /\ UNCHANGED <<lock, lasting, status, waiting, history, tileFaults>>

DropLock(w) == /\ At(w, "drop")
               /\ lock' = [lock EXCEPT ![JobOf(w)] = FALSE]
               /\ Goto(w, "defer")
               /\ UNCHANGED <<count, lasting, status, waiting, history, tileFaults>>

\* ... through the finally block, which frees the job a second time.
Defer(w) == /\ At(w, "defer")
            /\ waiting' = [waiting EXCEPT ![JobOf(w)] = @ + 1]
            /\ torn' = torn \union {JobOf(w)}
            /\ Goto(w, "release")
            /\ UNCHANGED <<lock, count, lasting, status, enqueues, leaked, spoiled, silent,
                           tileFaults>>

Publish(w) == /\ At(w, "publish")
              /\ status' = [status EXCEPT ![JobOf(w)] = "in_progress"]
              /\ Goto(w, "work")
              /\ UNCHANGED <<lock, count, lasting, waiting, history, tileFaults>>

\* A page that fails is logged and counts as rendered.
FinishTiles(w) == /\ At(w, "work")
                  /\ status' = [status EXCEPT ![JobOf(w)] = "complete"]
                  /\ Goto(w, "release")
                  /\ UNCHANGED <<lock, count, lasting, waiting, history, tileFaults>>

\* Mutant: the slot is given back by tasks that never had one.
ReleaseTwice(w) == /\ At(w, "release")
                   /\ count' = count - 1
                   /\ GotoWith(w, "unlock", 0)
                   /\ UNCHANGED <<lock, lasting, status, waiting, history, tileFaults>>

\* The finally block.  DECR creates a key that has expired.
Release(w) == /\ At(w, "release")
              /\ count' = count - warmer[w].slot
              /\ GotoWith(w, "unlock", 0)
              /\ UNCHANGED <<lock, lasting, status, waiting, history, tileFaults>>

Unlock(w) == /\ At(w, "unlock")
             /\ lock' = [lock EXCEPT ![JobOf(w)] = FALSE]
             /\ warmer' = [warmer EXCEPT ![w] = IdleWarmer]
             /\ UNCHANGED <<count, lasting, status, waiting, history, tileFaults>>
-----------------------------------------------------------------------------
(* Faults, and time. *)

\* Mutant: the failure is not published.
WarmFailsSilently(w) == /\ warmer[w].pc \in {"check", "publish", "work"}
                        /\ TileFault("error")
                        /\ Goto(w, "release")
                        /\ UNCHANGED <<lock, count, lasting, status, waiting, history>>

\* The database, the storage, or a soft time limit.  Nothing retries the task.
WarmFails(w) == /\ warmer[w].pc \in {"check", "publish", "work"}
                /\ TileFault("error")
                /\ status' = [status EXCEPT ![JobOf(w)] = "failed"]
                /\ Goto(w, "release")
                /\ UNCHANGED <<lock, count, lasting, waiting, history>>

\* An error of Redis or of the broker while the task asks for a slot: it goes on
\* without one, even when it has just freed the job.
Uncapped(w) == /\ \/ warmer[w].pc \in {"incr", "expire", "over"} /\ TileFault("redis")
                  \/ At(w, "defer") /\ TileFault("broker")
               /\ spoiled' = TRUE
               /\ torn' = IF At(w, "defer") THEN torn \union {JobOf(w)} ELSE torn
               /\ Goto(w, "publish")
               /\ UNCHANGED <<lock, count, lasting, status, waiting, enqueues, leaked, silent>>

\* Elsewhere an error of Redis is logged or ignored: the task goes on as if the
\* command had been carried out.
Unnoticed(w) ==
    /\ TileFault("redis")
    /\ \/ /\ At(w, "drop") /\ Goto(w, "defer")
          /\ UNCHANGED <<leaked, silent>>
       \/ /\ At(w, "publish") /\ Goto(w, "work")
          /\ UNCHANGED <<leaked, silent>>
       \/ /\ At(w, "work") /\ Goto(w, "release")
          /\ silent' = silent \union {JobOf(w)}
          /\ UNCHANGED leaked
       \/ /\ At(w, "release") /\ GotoWith(w, "unlock", 0)
          /\ leaked' = leaked + warmer[w].slot
          /\ UNCHANGED silent
       \/ /\ At(w, "unlock") /\ warmer' = [warmer EXCEPT ![w] = IdleWarmer]
          /\ UNCHANGED <<leaked, silent>>
    /\ UNCHANGED <<lock, count, lasting, status, waiting, enqueues, spoiled, torn>>

\* ... and a task that cannot ask for its lock is over, and acked.
AcquireFails(w, j) == /\ At(w, "idle")
                      /\ waiting[j] > 0
                      /\ TileFault("redis")
                      /\ waiting' = [waiting EXCEPT ![j] = @ - 1]
                      /\ UNCHANGED <<lock, count, lasting, status, warmer, history>>

Die(w) == /\ ~At(w, "idle")
          /\ leaked' = IF w \in Counted THEN leaked + 1 ELSE leaked
          /\ silent' = silent \union {JobOf(w)}
          /\ warmer' = [warmer EXCEPT ![w] = IdleWarmer]
          /\ UNCHANGED <<lock, count, lasting, status, enqueues, spoiled, torn>>

\* The process dies, and the message is delivered again.
WarmerDies(w) == /\ TileFault("crash")
                 /\ Die(w)
                 /\ waiting' = [waiting EXCEPT ![JobOf(w)] = @ + 1]

\* The hard time limit kills it, and Celery acks the message.
WarmerIsCut(w) == /\ TileFault("hard")
                  /\ Die(w)
                  /\ UNCHANGED waiting

\* A lock outlives its task, unless the task runs in a pool of threads, where the
\* time limits do not apply.
LockExpires(j) ==
    /\ lock[j]
    /\ IF \E w \in Warmers : JobOf(w) = j
       THEN TileFault("expiry") /\ torn' = torn \union {j}
       ELSE UNCHANGED <<torn, tileFaults>>
    /\ lock' = [lock EXCEPT ![j] = FALSE]
    /\ UNCHANGED <<count, lasting, status, waiting, warmer, enqueues, leaked, spoiled, silent>>

\* The counter's time to live starts with the first of a series of tasks.
CountExpires == /\ ~lasting
                /\ TileFault("expiry")
                /\ count' = 0
                /\ lasting' = TRUE
                /\ leaked' = 0
                /\ spoiled' = TRUE
                /\ UNCHANGED <<lock, status, waiting, warmer, enqueues, torn, silent>>
-----------------------------------------------------------------------------
Step(w) == \/ \E j \in Jobs : Acquire(w, j)
           \/ Check(w) \/ Incr(w) \/ Expire(w) \/ Decr(w) \/ DropLock(w) \/ Defer(w)
           \/ Publish(w) \/ FinishTiles(w) \/ Release(w) \/ Unlock(w)

TileNext == \/ \E j \in Jobs : Enqueue(j) \/ LockExpires(j)
            \/ \E w \in Warmers : \/ Step(w) \/ WarmFails(w) \/ Uncapped(w) \/ Unnoticed(w)
                                  \/ WarmerDies(w) \/ WarmerIsCut(w)
                                  \/ \E j \in Jobs : AcquireFails(w, j)
            \/ CountExpires

TileSpec == TileInit /\ [][TileNext]_tileVars

\* A worker carries on with its task.  That it takes another one is not needed.
WarmFairness == \A w \in Warmers : WF_tileVars(~At(w, "idle") /\ Step(w))

TileFairSpec == TileSpec /\ WarmFairness
-----------------------------------------------------------------------------
TileTypeOK ==
    /\ lock \in [Jobs -> BOOLEAN]
    /\ count \in Int
    /\ lasting \in BOOLEAN
    /\ status \in [Jobs -> {"none", "in_progress", "complete", "failed"}]
    /\ waiting \in [Jobs -> Nat]
    /\ warmer \in [Warmers -> [pc : {"idle", "check", "incr", "expire", "over", "drop", "defer",
                                     "publish", "work", "release", "unlock"},
                               job : Jobs \union {NoJob}, slot : 0 .. 1]]
    /\ \A w \in Warmers : /\ At(w, "idle") <=> JobOf(w) = NoJob
                          /\ warmer[w].slot = 1 => warmer[w].pc \in {"publish", "work", "release"}
    /\ enqueues \in 0 .. MaxEnqueues
    /\ leaked \in Nat
    /\ spoiled \in BOOLEAN
    /\ torn \subseteq Jobs
    /\ silent \subseteq Jobs
    /\ tileFaults \in 0 .. MaxTileFaults

\* The tenant never has more tasks at work than the cap, whatever the order in which
\* they raise and lower the counter and whoever dies, until the counter expires or
\* Redis fails.
CapHolds == ~spoiled => Cardinality(Warming) <= Cap

\* Until then the counter stands for the tasks that have raised it and the dead ones.
CounterIsExact == ~spoiled => count = Cardinality(Counted) + leaked

\* A counter that no worker will lower is gone some day: it has a time to live, or the
\* task that raised it to one is about to give it one, unless that task has died.
CounterIsMortal ==
    ~spoiled /\ count > 0 /\ lasting => leaked > 0 \/ \E w \in Warmers : At(w, "expire")

\* Two workers render the same job only after a deferral has freed it twice or its
\* lock has expired under a task.
OneWarmerPerJob ==
    \A v, w \in Warming : v # w /\ JobOf(v) = JobOf(w) => JobOf(v) \in torn

\* The progress the viewer polls comes to an end, unless a worker died over the job
\* or Redis failed while it was written.
ProgressEnds ==
    \A j \in Jobs : status[j] = "in_progress" ~> status[j] # "in_progress" \/ j \in silent
=============================================================================
