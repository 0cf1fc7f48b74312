--------------------------- MODULE WebhookDelivery ---------------------------
(***************************************************************************)
(* Webhook events: emit_event writes an audit row for every endpoint       *)
(* subscribed to an event and queues a dispatch_webhook task for it; the   *)
(* caller of emit_event ends the transaction later, or never.  The task    *)
(* posts the payload, records the attempt in the audit row if it finds     *)
(* one, and retries, gives up or marks the delivery dead.                  *)
(*                                                                         *)
(* A delivery is a pair of an event and an endpoint.  Its tasks share      *)
(* nothing but the endpoint's retry budget, so worker slots are not        *)
(* modelled.  Backoff is the time a message waits in the queue.            *)
(***************************************************************************)
EXTENDS Naturals

CONSTANTS
    Events,        \* emissions
    Endpoints,     \* webhook_endpoints
    Deliveries,    \* the pairs <<event, endpoint>> with a matching subscription
    Committed,     \* the events whose emitter commits after emit_event
    Patched,       \* the endpoints whose owner may patch the retry budget
    Budgets,       \* the values of webhook_endpoints.max_retries
    NoBudget,      \* its NULL
    DefaultBudget, \* _DEFAULT_MAX_RETRIES
    Ceiling,       \* _RETRY_CEILING
    Faults,        \* which faults may occur
    MaxFaults      \* bound on their number

FaultKinds == {"crash", "emitter", "db", "broker"}

ASSUME DeliveryAssumption == Deliveries \subseteq Events \X Endpoints
ASSUME CommittedAssumption == Committed \subseteq Events
ASSUME PatchedAssumption == Patched \subseteq Endpoints
ASSUME BudgetAssumption == /\ Budgets \subseteq Nat
                           /\ NoBudget \notin Nat
                           /\ DefaultBudget \in Nat
                           /\ Ceiling \in Nat
                           /\ DefaultBudget <= Ceiling
ASSUME FaultAssumption == Faults \subseteq FaultKinds /\ MaxFaults \in Nat

VARIABLES
    emit,    \* emit[v]: how far the emitter of v is with its transaction
    left,    \* left[v]: the endpoints its loop has not reached
    row,     \* row[d]: the audit row, and who can see it
    task,    \* task[d]: the dispatch task, its retry count and its last answer
    budget,  \* budget[e]: the endpoint's retry budget, patched at any time
    past,    \* past[d]: what has happened to the delivery, for the properties
    faults   \* faults so far

vars == <<emit, left, row, task, budget, past, faults>>
-----------------------------------------------------------------------------
Answers == {"ok", "rejected", "unavailable"}     \* < 400, 4xx, 5xx or no answer

Row == [at : {"none", "flushed", "saved", "swept"}, attempts : Nat,
        code : Answers \union {"none"}, dead : BOOLEAN]
Task == [pc : {"none", "queued", "post", "audit", "config", "dead", "ack", "over"},
         retries : 0 .. Ceiling, answer : Answers \union {"none"}]
Past == [posts : Nat, oks : Nat, crashes : Nat,
         seen : BOOLEAN,    \* the audit row was visible when the last attempt began
         lost : BOOLEAN]    \* a write about the delivery has failed

NoRow == [at |-> "none", attempts |-> 0, code |-> "none", dead |-> FALSE]
FreshRow == [NoRow EXCEPT !.at = "flushed"]
NoTask == [pc |-> "none", retries |-> 0, answer |-> "none"]
Queued(r) == [pc |-> "queued", retries |-> r, answer |-> "none"]

Smaller(m, n) == IF m < n THEN m ELSE n

Running(d) == task[d].pc \in {"post", "audit", "config", "dead", "ack"}
Attempt(d) == task[d].retries + 1

\* Mutant: the hard ceiling is not applied.
MaxRetriesUncapped(d) == IF row[d].at = "saved" /\ budget[d[2]] # NoBudget
                         THEN budget[d[2]] ELSE DefaultBudget

\* The budget is read at every failure; without an audit row the endpoint is unknown.
MaxRetries(d) == IF row[d].at = "saved" /\ budget[d[2]] # NoBudget
                 THEN Smaller(budget[d[2]], Ceiling) ELSE DefaultBudget

Goto(d, p) == task' = [task EXCEPT ![d].pc = p]
Fault(kind) == /\ kind \in Faults
               /\ faults < MaxFaults
               /\ faults' = faults + 1

Init == /\ emit = [v \in Events |-> "idle"]
        /\ left = [v \in Events |-> {}]
        /\ row = [d \in Deliveries |-> NoRow]
        /\ task = [d \in Deliveries |-> NoTask]
        /\ budget = [e \in Endpoints |-> NoBudget]
        /\ past = [d \in Deliveries |-> [posts |-> 0, oks |-> 0, crashes |-> 0,
                                         seen |-> FALSE, lost |-> FALSE]]
        /\ faults = 0
-----------------------------------------------------------------------------
(* emit_event and its caller. *)

Begin(v) == /\ emit[v] = "idle"
            /\ emit' = [emit EXCEPT ![v] = "open"]
            /\ left' = [left EXCEPT ![v] = {e \in Endpoints : <<v, e>> \in Deliveries}]
            /\ UNCHANGED <<row, task, budget, past, faults>>

\* Mutant: the loop stops after the first endpoint it serves.
OfferFirst(v, e) == /\ emit[v] = "open"
                    /\ e \in left[v]
                    /\ left' = [left EXCEPT ![v] = {}]
                    /\ row' = [row EXCEPT ![<<v, e>>] = FreshRow]
                    /\ task' = [task EXCEPT ![<<v, e>>] = Queued(0)]
                    /\ UNCHANGED <<emit, budget, past, faults>>

\* The row is flushed, not committed, when the task is queued.
Offer(v, e) == /\ emit[v] = "open"
               /\ e \in left[v]
               /\ left' = [left EXCEPT ![v] = @ \ {e}]
               /\ row' = [row EXCEPT ![<<v, e>>] = FreshRow]
               /\ task' = [task EXCEPT ![<<v, e>>] = Queued(0)]
               /\ UNCHANGED <<emit, budget, past, faults>>

\* A broker error is logged and the row kept.
OfferFails(v, e) == /\ emit[v] = "open"
                    /\ e \in left[v]
                    /\ Fault("broker")
                    /\ left' = [left EXCEPT ![v] = @ \ {e}]
                    /\ row' = [row EXCEPT ![<<v, e>>] = FreshRow]
                    /\ UNCHANGED <<emit, task, budget, past>>

\* A failed flush leaves a session that refuses every later flush and commit.
FlushFails(v) == /\ emit[v] = "open"
                 /\ left[v] # {}
                 /\ Fault("db")
                 /\ emit' = [emit EXCEPT ![v] = "poisoned"]
                 /\ left' = [left EXCEPT ![v] = {}]
                 /\ UNCHANGED <<row, task, budget, past>>

Rows(v) == {d \in Deliveries : d[1] = v /\ row[d].at = "flushed"}

\* The emitter's transaction ends: its rows become visible, or vanish.
CloseAs(v, kept) ==
    /\ emit' = [emit EXCEPT ![v] = "closed"]
    /\ row' = [d \in Deliveries |-> IF d \notin Rows(v) THEN row[d]
                                    ELSE IF kept THEN [row[d] EXCEPT !.at = "saved"] ELSE NoRow]
    /\ UNCHANGED <<left, task, budget, past>>

\* Not every caller commits: run_preflight emits job.failed and closes the session.
Close(v) == /\ emit[v] \in {"open", "poisoned"}
            /\ left[v] = {}
            /\ CloseAs(v, emit[v] = "open" /\ v \in Committed)
            /\ UNCHANGED faults

\* The commit fails, or the emitter dies anywhere in the loop.
EmitterFails(v) == /\ emit[v] \in {"open", "poisoned"}
                   /\ Fault("emitter")
                   /\ CloseAs(v, FALSE)
-----------------------------------------------------------------------------
(* dispatch_webhook. *)

Take(d) == /\ task[d].pc = "queued"
           /\ Goto(d, "post")
           /\ UNCHANGED <<emit, left, row, budget, past, faults>>

Post(d, a) == /\ task[d].pc = "post"
              /\ task' = [task EXCEPT ![d].pc = "audit", ![d].answer = a]
              /\ past' = [past EXCEPT ![d].posts = @ + 1,
                                      ![d].oks = IF a = "ok" THEN @ + 1 ELSE @,
                                      ![d].seen = row[d].at = "saved"]
              /\ UNCHANGED <<emit, left, row, budget, faults>>

\* Mutant: the retry decision forgets to ask for success.
AfterAuditRetry(a) == IF a = "rejected" THEN "dead" ELSE "config"

\* Where a task goes once the attempt is recorded.  A 4xx is not retried.
AfterAudit(a) == CASE a = "ok" -> "ack"
                   [] a = "unavailable" -> "config"
                   [] a = "rejected" -> "dead"

\* Mutants: the attempt is recorded 0-indexed; the row is marked dead before the
\* retry is decided.
AuditZeroIndexed(d) == /\ task[d].pc = "audit"
                       /\ row' = [row EXCEPT ![d] = IF @.at # "saved" THEN @
                                                    ELSE [@ EXCEPT !.attempts = task[d].retries,
                                                                   !.code = task[d].answer]]
                       /\ Goto(d, AfterAudit(task[d].answer))
                       /\ UNCHANGED <<emit, left, budget, past, faults>>

AuditMarksDead(d) == /\ task[d].pc = "audit"
                     /\ row' = [row EXCEPT ![d] = IF @.at # "saved" THEN @
                                                  ELSE [@ EXCEPT !.attempts = Attempt(d),
                                                                 !.code = task[d].answer,
                                                                 !.dead = task[d].answer # "ok"]]
                     /\ Goto(d, AfterAudit(task[d].answer))
                     /\ UNCHANGED <<emit, left, budget, past, faults>>

\* A row that is not visible is skipped silently.
Audit(d) == /\ task[d].pc = "audit"
            /\ row' = [row EXCEPT ![d] = IF @.at # "saved" THEN @
                                         ELSE [@ EXCEPT !.attempts = Attempt(d),
                                                        !.code = task[d].answer]]
            /\ Goto(d, AfterAudit(task[d].answer))
            /\ UNCHANGED <<emit, left, budget, past, faults>>

AuditFails(d) == /\ task[d].pc = "audit"
                 /\ Fault("db")
                 /\ past' = [past EXCEPT ![d].lost = TRUE]
                 /\ Goto(d, AfterAudit(task[d].answer))
                 /\ UNCHANGED <<emit, left, row, budget>>

\* Mutant: the retry count is not carried over.
RetrySameCount(d) == /\ task[d].pc = "config"
                     /\ Attempt(d) <= MaxRetries(d)
                     /\ task' = [task EXCEPT ![d] = Queued(task[d].retries)]
                     /\ UNCHANGED <<emit, left, row, budget, past, faults>>

\* self.retry, with the backoff as the message's countdown.
Retry(d) == /\ task[d].pc = "config"
            /\ Attempt(d) <= MaxRetries(d)
            /\ task' = [task EXCEPT ![d] = Queued(Attempt(d))]
            /\ UNCHANGED <<emit, left, row, budget, past, faults>>

\* Mutant: no way out when the budget is just used up.
GiveUpLate(d) == /\ task[d].pc = "config"
                 /\ Attempt(d) > MaxRetries(d) + 1
                 /\ Goto(d, "dead")
                 /\ UNCHANGED <<emit, left, row, budget, past, faults>>

GiveUp(d) == /\ task[d].pc = "config"
             /\ Attempt(d) > MaxRetries(d)
             /\ Goto(d, "dead")
             /\ UNCHANGED <<emit, left, row, budget, past, faults>>

\* Nothing catches a database error of the lookup or a broker error of the retry:
\* the task fails and is acked.
RetryFails(d) == /\ task[d].pc = "config"
                 /\ Fault("db") \/ (Attempt(d) <= MaxRetries(d) /\ Fault("broker"))
                 /\ past' = [past EXCEPT ![d].lost = TRUE]
                 /\ Goto(d, "over")
                 /\ UNCHANGED <<emit, left, row, budget>>

MarkDead(d) == /\ task[d].pc = "dead"
               /\ row' = [row EXCEPT ![d].dead = @ \/ row[d].at = "saved"]
               /\ Goto(d, "ack")
               /\ UNCHANGED <<emit, left, budget, past, faults>>

MarkFails(d) == /\ task[d].pc = "dead"
                /\ Fault("db")
                /\ past' = [past EXCEPT ![d].lost = TRUE]
                /\ Goto(d, "ack")
                /\ UNCHANGED <<emit, left, row, budget>>

Ack(d) == /\ task[d].pc = "ack"
          /\ Goto(d, "over")
          /\ UNCHANGED <<emit, left, row, budget, past, faults>>

\* The worker dies; the message is delivered again with the same retry count.
Crash(d) == /\ Running(d)
            /\ Fault("crash")
            /\ task' = [task EXCEPT ![d] = Queued(task[d].retries)]
            /\ past' = [past EXCEPT ![d].crashes = @ + 1]
            /\ UNCHANGED <<emit, left, row, budget>>
-----------------------------------------------------------------------------
(* The endpoint's owner and the nightly sweep. *)

Patch(e, b) == /\ e \in Patched
               /\ b # budget[e]
               /\ budget' = [budget EXCEPT ![e] = b]
               /\ UNCHANGED <<emit, left, row, task, past, faults>>

\* sweep_webhook_deliveries deletes the rows S older than their retention in one
\* commit.  Ages are not modelled, and the sweep does not ask for the task.
Sweep(S) == /\ S # {}
            /\ \A d \in S : row[d].at = "saved"
            /\ row' = [d \in Deliveries |-> IF d \in S THEN [row[d] EXCEPT !.at = "swept"]
                                                       ELSE row[d]]
            /\ UNCHANGED <<emit, left, task, budget, past, faults>>
-----------------------------------------------------------------------------
EmitStep(v) == Begin(v) \/ (\E e \in Endpoints : Offer(v, e)) \/ Close(v)

TaskStep(d) == \/ Take(d)
               \/ \E a \in Answers : Post(d, a)
               \/ Audit(d) \/ Retry(d) \/ GiveUp(d) \/ MarkDead(d) \/ Ack(d)

FaultStep == \/ \E v \in Events : \/ FlushFails(v) \/ EmitterFails(v)
                                  \/ \E e \in Endpoints : OfferFails(v, e)
             \/ \E d \in Deliveries : AuditFails(d) \/ RetryFails(d) \/ MarkFails(d) \/ Crash(d)

Next == \/ \E v \in Events : EmitStep(v)
        \/ \E d \in Deliveries : TaskStep(d)
        \/ FaultStep
        \/ \E e \in Endpoints, b \in Budgets \union {NoBudget} : Patch(e, b)
        \/ \E S \in SUBSET Deliveries : Sweep(S)

Spec == Init /\ [][Next]_vars

\* The webhooks queue is served and an emitter that has begun runs to its end.
Fairness == /\ \A v \in Events : WF_vars(emit[v] # "idle" /\ EmitStep(v))
            /\ \A d \in Deliveries : WF_vars(TaskStep(d))

FairSpec == Spec /\ Fairness
-----------------------------------------------------------------------------
TypeOK ==
    /\ emit \in [Events -> {"idle", "open", "poisoned", "closed"}]
    /\ left \in [Events -> SUBSET Endpoints]
    /\ row \in [Deliveries -> Row]
    /\ task \in [Deliveries -> Task]
    /\ budget \in [Endpoints -> Budgets \union {NoBudget}]
    /\ past \in [Deliveries -> Past]
    /\ faults \in 0 .. MaxFaults

\* An endpoint that has answered with success gets the event again only because a
\* worker died before it acked.
AnsweredOnce == \A d \in Deliveries : past[d].oks <= 1 + past[d].crashes

\* However the budget is patched in mid-backoff, a delivery is posted no more often
\* than the ceiling allows, not counting redeliveries.
CeilingHolds == \A d \in Deliveries : past[d].posts <= 1 + Ceiling + past[d].crashes

\* When a task is over, a row that its last attempt could see tells the attempts
\* made and the last answer, and is dead unless that was a success.
AuditIsFaithful ==
    \A d \in Deliveries :
        task[d].pc = "over" /\ row[d].at = "saved" /\ past[d].seen /\ ~past[d].lost
            => /\ row[d].attempts = Attempt(d)
               /\ row[d].code = task[d].answer
               /\ row[d].code = "ok" \/ row[d].dead

\* When an emission is over and nothing is queued, each subscribed endpoint has been
\* tried, whatever the others answered and however often a worker died over one.
EveryEndpointIsTried ==
    \A d \in Deliveries :
        /\ emit[d[1]] = "closed"
        /\ task[d].pc \in {"none", "over"}
        /\ faults = 0 \/ \E c \in Deliveries : past[c].crashes = faults
        => past[d].posts > 0

\* A delivery marked dead is not posted again, unless a worker died over it.
DeadIsFinal ==
    [][\A d \in Deliveries : row[d].dead /\ past[d].crashes = 0
                                 => past'[d].posts = past[d].posts]_vars

\* How far a delivery has come, as the owner of the endpoint sees it.
Stage(d) == CASE task[d].pc = "none" -> "none"
              [] task[d].pc \in {"queued", "post"} -> "due"
              [] task[d].pc = "over" -> "over"
              [] OTHER -> "answered"
Shown(d) == CASE row[d].at = "saved" -> "shown" [] row[d].at = "swept" -> "gone"
              [] OTHER -> "not yet"
Told(d) == [attempts |-> row[d].attempts, code |-> row[d].code, dead |-> row[d].dead]

Contract(d) == INSTANCE DeliveryContract WITH
                   stage <- Stage(d), tries <- task[d].retries, answer <- task[d].answer,
                   resent <- past[d].crashes, shown <- Shown(d), audit <- Told(d)

\* emit_event, dispatch_webhook, the sweep and the patches together keep the contract
\* with the owner of each endpoint: what a step of theirs does to a delivery is a step
\* of DeliveryContract or does not show.
ImplementsDelivery ==
    /\ \A d \in Deliveries : Contract(d)!Init
    /\ [][\A d \in Deliveries : Contract(d)!Next \/ UNCHANGED Contract(d)!vars]_vars

\* Every dispatch comes to an end, whatever the endpoint answers and however its
\* budget is patched.
DispatchEnds == \A d \in Deliveries : task[d].pc = "queued" ~> task[d].pc = "over"

-----------------------------------------------------------------------------
(* What the comments and schemas of the code claim. *)

\* "a row is written here before the first attempt and updated with the final
\* status after retries" (models.py:464).
FinalStatusIsAudited ==
    \A d \in Deliveries : task[d].pc = "over" /\ row[d].at = "saved" => row[d].attempts > 0
=============================================================================
