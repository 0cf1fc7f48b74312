---------------------------- MODULE CapabilityFill ----------------------------
(***************************************************************************)
(* Filling in the viewer capabilities of one job.  Which capabilities have *)
(* data, and which fills are pending or have failed, is one JSON column of *)
(* the job's row, data_capabilities.  API requests and fill_capability     *)
(* tasks each load the whole column in a session of their own, change a    *)
(* copy of it, and write the whole column back.                            *)
(*                                                                         *)
(* The column is a record: ready is the set of capabilities that are true, *)
(* fill is _fill_status, which is absent when every entry is "none".       *)
(***************************************************************************)
EXTENDS Naturals

CONSTANTS
    Capabilities,  \* those a fill is wired for
    Imported,      \* those the imported report had brought
    Asks,          \* what a request may ask for: one capability, or all the automatic ones
    Clients,       \* API requests in progress
    Workers,       \* task slots
    MaxRequests,   \* bound on the requests that queue something
    Faults,        \* which faults may occur
    MaxFaults      \* bound on their number

FaultKinds == {"crash", "hard", "error", "db", "broker"}

ASSUME ImportAssumption == Imported \subseteq Capabilities
ASSUME AskAssumption == Asks \subseteq SUBSET Capabilities
ASSUME CapabilityBounds == /\ MaxRequests \in Nat /\ MaxFaults \in Nat
                           /\ Faults \subseteq FaultKinds

VARIABLES
    column,    \* data_capabilities
    client,    \* client[k]: the request, what it has yet to queue, what it has loaded
    queued,    \* queued[c]: messages for a fill of c
    worker,    \* worker[w]: the task, and what its session has loaded
    stored,    \* stored[c]: how often the findings of a fill of c were committed
    asked,     \* asked[c]: how often a fill of c was queued
    requests,  \* requests so far
    crashes,   \* crashes so far
    faults     \* faults so far, crashes included

vars == <<column, client, queued, worker, stored, asked, requests, crashes, faults>>
-----------------------------------------------------------------------------
Column == [ready : SUBSET Capabilities,
           fill : [Capabilities -> {"none", "pending", "failed"}]]

NoFill == [c \in Capabilities |-> "none"]
Fresh == [ready |-> Imported, fill |-> NoFill]

IdleClient == [pc |-> "idle", todo |-> {}, seen |-> Fresh]
IdleWorker == [pc |-> "idle", of |-> {}, seen |-> Fresh]

\* The session sends an UPDATE only if the value differs from the one it loaded.
Written(loaded, new) == IF new = loaded THEN column ELSE new

WithFill(col, S, s) == [col EXCEPT !.fill = [c \in Capabilities |-> IF c \in S THEN s ELSE @[c]]]

\* A task changes _fill_status inside the value it has loaded, not in a copy, so a
\* column that differs only there is not written.
Touched(loaded, c, s) == IF loaded.fill = NoFill THEN loaded ELSE WithFill(loaded, {c}, s)

Fault(kind) == /\ kind \in Faults
               /\ faults < MaxFaults
               /\ faults' = faults + 1

Init == /\ column = Fresh
        /\ client = [k \in Clients |-> IdleClient]
        /\ queued = [c \in Capabilities |-> 0]
        /\ worker = [w \in Workers |-> IdleWorker]
        /\ stored = [c \in Capabilities |-> 0]
        /\ asked = [c \in Capabilities |-> 0]
        /\ requests = 0
        /\ crashes = 0
        /\ faults = 0
-----------------------------------------------------------------------------
(* fill_job_capability, and _auto_enqueue_missing_capabilities for a view of an *)
(* imported job. *)

\* What is there or pending is not queued again.
Ask(k, S) ==
    LET todo == {c \in S : c \notin column.ready /\ column.fill[c] # "pending"} IN
    /\ client[k].pc = "idle"
    /\ requests < MaxRequests
    /\ todo # {}
    /\ requests' = requests + 1
    /\ client' = [client EXCEPT ![k] = [pc |-> "save", todo |-> todo, seen |-> column]]
    /\ UNCHANGED <<column, queued, worker, stored, asked, crashes, faults>>

\* The mark is committed before anything is queued.
Save(k) ==
    /\ client[k].pc = "save"
    /\ column' = WithFill(client[k].seen, client[k].todo, "pending")
    /\ client' = [client EXCEPT ![k].pc = "queue"]
    /\ UNCHANGED <<queued, worker, stored, asked, requests, crashes, faults>>

Drop(k, c) == LET rest == client[k].todo \ {c} IN
    client' = [client EXCEPT ![k] = IF rest = {} THEN IdleClient
                                    ELSE [@ EXCEPT !.pc = "queue", !.todo = rest]]

Queue(k, c) == /\ client[k].pc = "queue"
               /\ c \in client[k].todo
               /\ queued' = [queued EXCEPT ![c] = @ + 1]
               /\ asked' = [asked EXCEPT ![c] = @ + 1]
               /\ Drop(k, c)
               /\ UNCHANGED <<column, worker, stored, requests, crashes, faults>>

\* The broker is unreachable: the column is loaded again ...
QueueFails(k) == /\ client[k].pc = "queue"
                 /\ Fault("broker")
                 /\ client' = [client EXCEPT ![k].pc = "undo", ![k].seen = column]
                 /\ UNCHANGED <<column, queued, worker, stored, asked, requests, crashes>>

\* ... and a capability marked as failed.
Undo(k, c) ==
    /\ client[k].pc = "undo"
    /\ c \in client[k].todo
    /\ column' = Written(client[k].seen, WithFill(client[k].seen, {c}, "failed"))
    /\ Drop(k, c)
    /\ UNCHANGED <<queued, worker, stored, asked, requests, crashes, faults>>
-----------------------------------------------------------------------------
(* fill_capability. *)

\* Mutant: the capability is announced before the analyzer has run.
StartOptimistic(w, c) ==
    /\ worker[w].pc = "idle"
    /\ queued[c] > 0
    /\ queued' = [queued EXCEPT ![c] = @ - 1]
    /\ column' = [column EXCEPT !.ready = @ \union {c}]
    /\ worker' = [worker EXCEPT ![w] = [pc |-> "work", of |-> {c}, seen |-> column']]
    /\ UNCHANGED <<client, stored, asked, requests, crashes, faults>>

Start(w, c) ==
    /\ worker[w].pc = "idle"
    /\ queued[c] > 0
    /\ queued' = [queued EXCEPT ![c] = @ - 1]
    /\ worker' = [worker EXCEPT ![w] = [pc |-> "work", of |-> {c}, seen |-> column]]
    /\ UNCHANGED <<column, client, stored, asked, requests, crashes, faults>>

End(w) == worker' = [worker EXCEPT ![w].pc = "ack"]

\* The findings and the column are one commit.  The last entry of _fill_status
\* takes the map with it, which is a change the session notices.
Finish(w, c) ==
    LET seen == worker[w].seen
        new == [WithFill(seen, {c}, "none") EXCEPT !.ready = @ \union {c}] IN
    /\ worker[w].pc = "work"
    /\ c \in worker[w].of
    /\ column' = IF c \in seen.ready /\ (new.fill # NoFill \/ seen.fill = NoFill)
                 THEN column ELSE new
    /\ stored' = [stored EXCEPT ![c] = @ + 1]
    /\ End(w)
    /\ UNCHANGED <<client, queued, asked, requests, crashes, faults>>

\* Mutant: the failed task is retried.
FailsRetried(w, c, added) ==
    /\ worker[w].pc = "work"
    /\ c \in worker[w].of
    /\ Fault("error")
    /\ stored' = [stored EXCEPT ![c] = @ + added]
    /\ queued' = [queued EXCEPT ![c] = @ + 1]
    /\ worker' = [worker EXCEPT ![w] = IdleWorker]
    /\ UNCHANGED <<column, client, asked, requests, crashes>>

\* An exception or a soft time limit, before or after the findings were added: the
\* handler commits what the session holds and tries to mark the fill as failed.
Fails(w, c, added) ==
    LET seen == worker[w].seen IN
    /\ worker[w].pc = "work"
    /\ c \in worker[w].of
    /\ Fault("error")
    /\ column' = Written(Touched(seen, c, "failed"), WithFill(seen, {c}, "failed"))
    /\ stored' = [stored EXCEPT ![c] = @ + added]
    /\ End(w)
    /\ UNCHANGED <<client, queued, asked, requests, crashes>>

\* A commit that fails rolls back; the handler then loads the column again.
CommitFails(w, c) ==
    /\ worker[w].pc = "work"
    /\ c \in worker[w].of
    /\ Fault("db")
    /\ column' = Written(Touched(column, c, "failed"), WithFill(column, {c}, "failed"))
    /\ End(w)
    /\ UNCHANGED <<client, queued, stored, asked, requests, crashes>>

\* Success and failure are acked alike: nothing calls for the task's one retry.
Ack(w) == /\ worker[w].pc = "ack"
          /\ worker' = [worker EXCEPT ![w] = IdleWorker]
          /\ UNCHANGED <<column, client, queued, stored, asked, requests, crashes, faults>>

\* Mutant: without acks_late the message is gone with the process.
CrashAcked(w) == /\ worker[w].pc # "idle"
                 /\ Fault("crash")
                 /\ crashes' = crashes + 1
                 /\ worker' = [worker EXCEPT ![w] = IdleWorker]
                 /\ UNCHANGED <<column, client, queued, stored, asked, requests>>

Crash(w) == /\ worker[w].pc # "idle"
            /\ Fault("crash")
            /\ crashes' = crashes + 1
            /\ queued' = [c \in Capabilities |-> queued[c] + IF c \in worker[w].of THEN 1 ELSE 0]
            /\ worker' = [worker EXCEPT ![w] = IdleWorker]
            /\ UNCHANGED <<column, client, stored, asked, requests>>

\* The hard time limit kills the process, and Celery acks the message.
HardTimeout(w) == /\ worker[w].pc = "work"
                  /\ Fault("hard")
                  /\ worker' = [worker EXCEPT ![w] = IdleWorker]
                  /\ UNCHANGED <<column, client, queued, stored, asked, requests, crashes>>
-----------------------------------------------------------------------------
ClientStep(k) == Save(k) \/ \E c \in Capabilities : Queue(k, c) \/ Undo(k, c)

WorkerStep(w) == Ack(w) \/ \E c \in Capabilities : Start(w, c) \/ Finish(w, c)

FaultStep == \/ \E k \in Clients : QueueFails(k)
             \/ \E w \in Workers : \/ Crash(w) \/ HardTimeout(w)
                                   \/ \E c \in Capabilities : \/ CommitFails(w, c)
                                                              \/ \E b \in 0 .. 1 : Fails(w, c, b)

Next == \/ \E k \in Clients : ClientStep(k) \/ \E S \in Asks : Ask(k, S)
        \/ \E w \in Workers : WorkerStep(w)
        \/ FaultStep

Spec == Init /\ [][Next]_vars

\* A request runs to its end, and the workers serve the queue.
Fairness == /\ \A k \in Clients : WF_vars(ClientStep(k))
            /\ \A w \in Workers : WF_vars(WorkerStep(w))

FairSpec == Spec /\ Fairness
-----------------------------------------------------------------------------
TypeOK ==
    /\ column \in Column
    /\ client \in [Clients -> [pc : {"idle", "save", "queue", "undo"},
                               todo : SUBSET Capabilities, seen : Column]]
    /\ \A k \in Clients : client[k].pc = "idle" <=> client[k].todo = {}
    /\ queued \in [Capabilities -> Nat]
    /\ worker \in [Workers -> [pc : {"idle", "work", "ack"},
                               of : {{}} \union {{c} : c \in Capabilities}, seen : Column]]
    /\ stored \in [Capabilities -> Nat]
    /\ asked \in [Capabilities -> Nat]
    /\ requests \in 0 .. MaxRequests
    /\ crashes \in 0 .. faults
    /\ faults \in 0 .. MaxFaults

\* Whoever overwrites whose column, the viewer is never told that data is there
\* which no fill and no import has committed.
AvailableIsBacked == \A c \in column.ready \ Imported : stored[c] > 0

\* The findings of a fill are in the job once for each time the fill was queued, and
\* once more at most for each worker that died over it.
DuplicatesAreBounded == \A c \in Capabilities : stored[c] <= asked[c] + crashes

\* A fill that was queued is carried out, whatever crashes, unless something other
\* than a crash went wrong.
QueuedIsFilled == \A c \in Capabilities : asked[c] > 0 ~> stored[c] > 0 \/ faults > crashes
-----------------------------------------------------------------------------
(* What the docs claim. *)

\* "On success: ... Flips ``job.data_capabilities[capability] = True``" (tasks.py:1908),
\* and the viewer will "deterministically swap to authoritative backend data when
\* analysis completes" (ARCHITECTURE.md:127): what was filled is shown as available.
FilledIsAvailable == \A c \in Capabilities : stored[c] > 0 => c \in column.ready
=============================================================================
