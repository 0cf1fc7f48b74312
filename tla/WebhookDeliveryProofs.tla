------------------------ MODULE WebhookDeliveryProofs ------------------------
(***************************************************************************)
(* Proofs about WebhookDelivery for any events, endpoints, budgets and     *)
(* number of faults.                                                       *)
(***************************************************************************)
EXTENDS WebhookDelivery, TLAPS

\* The emitter of d has not come to it.
Ahead(d) == \/ emit[d[1]] = "idle"
            \/ emit[d[1]] = "open" /\ d[2] \in left[d[1]]

\* Something other than the crashes over one delivery has gone wrong.
Marred == faults > 0 /\ \A c \in Deliveries : past[c].crashes < faults

\* A loop goes through its own deliveries only.
Loops == \A v \in Events : \A e \in left[v] : <<v, e>> \in Deliveries

\* Before its task is queued nothing has happened to a delivery.
Untouched(d) == Ahead(d) => task[d].pc = "none" /\ row[d].at = "none"

\* What the attempts so far add up to, by where the task is.
Counts(d) ==
    /\ task[d].pc = "none" => /\ past[d].posts = 0 /\ past[d].oks = 0 /\ past[d].crashes = 0
                              /\ ~past[d].seen
    /\ task[d].pc \in {"queued", "post"} => /\ past[d].oks <= past[d].crashes
                                            /\ past[d].posts <= task[d].retries + past[d].crashes
    /\ task[d].pc \in {"audit", "config", "dead", "ack", "over"}
           => /\ past[d].posts <= task[d].retries + 1 + past[d].crashes
              /\ past[d].posts > 0
              /\ task[d].answer \in Answers
    /\ task[d].pc \in {"config", "dead"} => past[d].oks <= past[d].crashes
    /\ task[d].pc = "audit" /\ task[d].answer # "ok" => past[d].oks <= past[d].crashes
    /\ past[d].oks <= 1 + past[d].crashes

\* What the audit row says, by where the task is.
Faithful(d) ==
    /\ past[d].seen => row[d].at \in {"saved", "swept"}
    /\ row[d].at = "saved" /\ past[d].seen /\ ~past[d].lost
           => /\ task[d].pc \in {"config", "dead", "ack", "over"}
                    => row[d].attempts = task[d].retries + 1 /\ row[d].code = task[d].answer
              /\ task[d].pc \in {"ack", "over"} => row[d].code = "ok" \/ row[d].dead
    /\ row[d].dead => task[d].pc \in {"ack", "over"} \/ past[d].crashes > 0

\* What the contract with the owner needs besides: a row that is not visible says
\* nothing, and only an unavailable endpoint is tried again.
Fits(d) ==
    /\ row[d].at \in {"none", "flushed"} => /\ row[d].attempts = 0 /\ row[d].code = "none"
                                            /\ row[d].dead = FALSE
    /\ task[d].pc = "none" => task[d].retries = 0 /\ task[d].answer = "none"
    /\ task[d].pc = "config" => task[d].answer = "unavailable"
    /\ task[d].pc = "dead" => task[d].answer # "ok"

\* A delivery whose emitter is past it has a task, or something has gone wrong.
Reached(d) == /\ past[d].crashes <= faults
              /\ task[d].pc = "none" => Ahead(d) \/ Marred

HookInv == /\ TypeOK
           /\ Loops
           /\ \A d \in Deliveries : /\ Untouched(d) /\ Counts(d) /\ Faithful(d)
                                      /\ Fits(d) /\ Reached(d)
-----------------------------------------------------------------------------
(* What a step does to one delivery. *)

Same(d) == task'[d] = task[d] /\ row'[d] = row[d] /\ past'[d] = past[d]

\* The loop reaches it: the row is flushed, and the task queued unless the broker fails.
Offered(d) == /\ Ahead(d)
              /\ row'[d] = FreshRow
              /\ \/ task'[d].pc = "queued" /\ task'[d].retries = 0 /\ task'[d].answer = "none"
                 \/ task'[d] = task[d]
              /\ past'[d] = past[d]

\* The emitter's transaction ends, or the sweep deletes the row.
RowMoves(d) == /\ \/ row[d].at = "flushed" /\ row'[d] = NoRow
                  \/ /\ \/ row[d].at = "flushed" /\ row'[d].at = "saved"
                        \/ row[d].at = "saved" /\ row'[d].at = "swept"
                     /\ row'[d].attempts = row[d].attempts /\ row'[d].code = row[d].code
                     /\ row'[d].dead = row[d].dead
               /\ task'[d] = task[d] /\ past'[d] = past[d]

\* The task goes from p to q and nothing else happens.
Steps(d, p, q) == /\ task[d].pc = p /\ task'[d].pc = q
                  /\ task'[d].retries = task[d].retries /\ task'[d].answer = task[d].answer
                  /\ row'[d] = row[d] /\ past'[d] = past[d]

Posted(d) == /\ task[d].pc = "post" /\ task'[d].pc = "audit"
             /\ task'[d].retries = task[d].retries /\ task'[d].answer \in Answers
             /\ row'[d] = row[d]
             /\ past'[d].posts = past[d].posts + 1
             /\ past'[d].oks = IF task'[d].answer = "ok" THEN past[d].oks + 1 ELSE past[d].oks
             /\ past'[d].crashes = past[d].crashes
             /\ past'[d].seen <=> row[d].at = "saved"

\* The attempt is recorded in a row that is visible.
Audited(d) == /\ task[d].pc = "audit" /\ task'[d].pc = AfterAudit(task[d].answer)
              /\ task'[d].retries = task[d].retries /\ task'[d].answer = task[d].answer
              /\ past'[d] = past[d]
              /\ row'[d].at = row[d].at /\ row'[d].dead = row[d].dead
              /\ row[d].at = "saved" => /\ row'[d].attempts = task[d].retries + 1
                                        /\ row'[d].code = task[d].answer
              /\ row[d].at # "saved" => row'[d] = row[d]

\* A write is lost, and the task goes from p to q.
Loses(d, p, q) == /\ task[d].pc = p /\ task'[d].pc = q
                  /\ task'[d].retries = task[d].retries /\ task'[d].answer = task[d].answer
                  /\ row'[d] = row[d]
                  /\ past'[d].posts = past[d].posts /\ past'[d].oks = past[d].oks
                  /\ past'[d].crashes = past[d].crashes /\ past'[d].seen = past[d].seen
                  /\ past'[d].lost

Retried(d) == /\ task[d].pc = "config" /\ task'[d].pc = "queued"
              /\ task'[d].retries = task[d].retries + 1 /\ task'[d].answer = "none"
              /\ row'[d] = row[d] /\ past'[d] = past[d]

Buried(d) == /\ task[d].pc = "dead" /\ task'[d].pc = "ack"
             /\ task'[d].retries = task[d].retries /\ task'[d].answer = task[d].answer
             /\ past'[d] = past[d]
             /\ row'[d].at = row[d].at /\ row'[d].attempts = row[d].attempts
             /\ row'[d].code = row[d].code
             /\ row'[d].dead <=> row[d].dead \/ row[d].at = "saved"

Crashed(d) == /\ task[d].pc \in {"post", "audit", "config", "dead", "ack"}
              /\ task'[d].pc = "queued"
              /\ task'[d].retries = task[d].retries /\ task'[d].answer = "none"
              /\ row'[d] = row[d]
              /\ past'[d].posts = past[d].posts /\ past'[d].oks = past[d].oks
              /\ past'[d].crashes = past[d].crashes + 1 /\ past'[d].seen = past[d].seen

Runs(d) == \/ Steps(d, "queued", "post") \/ Steps(d, "config", "dead") \/ Steps(d, "ack", "over")
           \/ Posted(d) \/ Audited(d) \/ Retried(d) \/ Buried(d) \/ Crashed(d)
           \/ Loses(d, "audit", AfterAudit(task[d].answer))
           \/ Loses(d, "config", "over") \/ Loses(d, "dead", "ack")

Moves(d) == Same(d) \/ Offered(d) \/ RowMoves(d) \/ Runs(d)
-----------------------------------------------------------------------------
LEMMA Fields ==
    ASSUME TypeOK, NEW d \in Deliveries
    PROVE  /\ task \in [Deliveries -> Task] /\ task[d] \in Task
           /\ row \in [Deliveries -> Row] /\ row[d] \in Row
           /\ past \in [Deliveries -> Past] /\ past[d] \in Past
           /\ task[d].retries \in Nat /\ task[d].retries <= Ceiling
           /\ past[d].posts \in Nat /\ past[d].oks \in Nat /\ past[d].crashes \in Nat
           /\ past[d].seen \in BOOLEAN /\ past[d].lost \in BOOLEAN
           /\ row[d].dead \in BOOLEAN /\ row[d].attempts \in Nat
           /\ d[1] \in Events /\ d[2] \in Endpoints /\ d = <<d[1], d[2]>>
BY DeliveryAssumption, BudgetAssumption DEF TypeOK, Task, Row, Past

LEMMA GotoFields ==
    ASSUME TypeOK, NEW d \in Deliveries, NEW q, Goto(d, q)
    PROVE  /\ task'[d].pc = q
           /\ task'[d].retries = task[d].retries /\ task'[d].answer = task[d].answer
           /\ \A c \in Deliveries \ {d} : task'[c] = task[c]
BY Fields DEF Goto, Task

LEMMA PostRuns ==
    ASSUME TypeOK, NEW d \in Deliveries, NEW a \in Answers, Post(d, a)
    PROVE  Posted(d) /\ \A c \in Deliveries \ {d} : Same(c)
BY Fields DEF Post, Posted, Same, Task, Past

LEMMA AuditRuns ==
    ASSUME TypeOK, NEW d \in Deliveries, Audit(d)
    PROVE  Audited(d) /\ \A c \in Deliveries \ {d} : Same(c)
BY Fields, GotoFields DEF Audit, Audited, Same, Row, Attempt

LEMMA LossRuns ==
    ASSUME TypeOK, NEW d \in Deliveries, NEW q, Goto(d, q),
           past' = [past EXCEPT ![d].lost = TRUE], row' = row
    PROVE  Loses(d, task[d].pc, q) /\ \A c \in Deliveries \ {d} : Same(c)
BY Fields, GotoFields DEF Loses, Same, Past

LEMMA MarkRuns ==
    ASSUME TypeOK, NEW d \in Deliveries, MarkDead(d)
    PROVE  Buried(d) /\ \A c \in Deliveries \ {d} : Same(c)
BY Fields, GotoFields DEF MarkDead, Buried, Same, Row

LEMMA QueuedFields ==
    ASSUME TypeOK, NEW d \in Deliveries, NEW r, task' = [task EXCEPT ![d] = Queued(r)]
    PROVE  /\ task'[d].pc = "queued" /\ task'[d].retries = r /\ task'[d].answer = "none"
           /\ \A c \in Deliveries \ {d} : task'[c] = task[c]
BY Fields DEF Queued

LEMMA CrashRuns ==
    ASSUME TypeOK, NEW d \in Deliveries, Crash(d)
    PROVE  Crashed(d) /\ \A c \in Deliveries \ {d} : Same(c)
<1>1. /\ task[d].pc \in {"post", "audit", "config", "dead", "ack"}
      /\ row' = row
      /\ task' = [task EXCEPT ![d] = Queued(task[d].retries)]
      /\ past' = [past EXCEPT ![d].crashes = @ + 1]
  BY DEF Crash, Running
<1>2. /\ past'[d].posts = past[d].posts /\ past'[d].oks = past[d].oks
      /\ past'[d].crashes = past[d].crashes + 1 /\ past'[d].seen = past[d].seen
      /\ \A c \in Deliveries \ {d} : past'[c] = past[c]
  BY <1>1, Fields DEF Past
<1> QED
  BY <1>1, <1>2, QueuedFields DEF Crashed, Same

LEMMA TaskRuns ==
    ASSUME TypeOK, NEW d \in Deliveries,
           TaskStep(d) \/ AuditFails(d) \/ RetryFails(d) \/ MarkFails(d) \/ Crash(d)
    PROVE  Runs(d) /\ \A c \in Deliveries \ {d} : Same(c)
<1>1. CASE Take(d)
  BY <1>1, GotoFields, Fields DEF Take, Steps, Runs, Same
<1>2. ASSUME NEW a \in Answers, Post(d, a) PROVE Runs(d) /\ \A c \in Deliveries \ {d} : Same(c)
  BY <1>2, PostRuns DEF Runs
<1>3. CASE Audit(d)
  BY <1>3, AuditRuns DEF Runs
<1>4. CASE Retry(d)
  BY <1>4, QueuedFields, Fields DEF Retry, Retried, Attempt, Runs, Same
<1>5. CASE GiveUp(d)
  BY <1>5, GotoFields, Fields DEF GiveUp, Steps, Runs, Same
<1>6. CASE MarkDead(d)
  BY <1>6, MarkRuns DEF Runs
<1>7. CASE Ack(d)
  BY <1>7, GotoFields, Fields DEF Ack, Steps, Runs, Same
<1>8. CASE AuditFails(d)
  BY <1>8, LossRuns DEF AuditFails, Runs
<1>9. CASE RetryFails(d)
  BY <1>9, LossRuns DEF RetryFails, Runs
<1>10. CASE MarkFails(d)
  BY <1>10, LossRuns DEF MarkFails, Runs
<1>11. CASE Crash(d)
  BY <1>11, CrashRuns DEF Runs
<1> QED
  BY <1>1, <1>2, <1>3, <1>4, <1>5, <1>6, <1>7, <1>8, <1>9, <1>10, <1>11 DEF TaskStep

LEMMA OfferRuns ==
    ASSUME TypeOK, Loops, NEW v \in Events, NEW e \in Endpoints, Offer(v, e) \/ OfferFails(v, e)
    PROVE  /\ <<v, e>> \in Deliveries
           /\ Offered(<<v, e>>)
           /\ \A c \in Deliveries \ {<<v, e>>} : Same(c)
<1> DEFINE d == <<v, e>>
<1>1. d \in Deliveries /\ emit[v] = "open" /\ e \in left[v]
  BY DEF Offer, OfferFails, Loops
<1>2. d[1] = v /\ d[2] = e
  OBVIOUS
<1>3. Ahead(d)
  BY <1>1, <1>2 DEF Ahead
<1>4. row' = [row EXCEPT ![d] = FreshRow] /\ past' = past
  BY DEF Offer, OfferFails
<1>5. task' = [task EXCEPT ![d] = Queued(0)] \/ task' = task
  BY DEF Offer, OfferFails
<1> HIDE DEF d
<1>6. /\ row'[d] = FreshRow
      /\ \A c \in Deliveries \ {d} : row'[c] = row[c]
  BY <1>1, <1>4, Fields
<1>7. /\ \/ task'[d].pc = "queued" /\ task'[d].retries = 0 /\ task'[d].answer = "none"
         \/ task'[d] = task[d]
      /\ \A c \in Deliveries \ {d} : task'[c] = task[c]
  BY <1>1, <1>5, QueuedFields
<1>8. Offered(d) /\ \A c \in Deliveries \ {d} : Same(c)
  BY <1>3, <1>4, <1>6, <1>7 DEF Offered, Same
<1> QED
  BY <1>1, <1>8 DEF d

LEMMA CloseRuns ==
    ASSUME TypeOK, NEW v \in Events, NEW kept \in BOOLEAN, CloseAs(v, kept)
    PROVE  \A c \in Deliveries : Same(c) \/ RowMoves(c)
<1> SUFFICES ASSUME NEW c \in Deliveries PROVE Same(c) \/ RowMoves(c)
  OBVIOUS
<1>1. task' = task /\ past' = past
  BY DEF CloseAs
<1>2. row'[c] = IF c \notin Rows(v) THEN row[c]
                ELSE IF kept THEN [row[c] EXCEPT !.at = "saved"] ELSE NoRow
  BY DEF CloseAs
<1>3. CASE c \notin Rows(v)
  BY <1>1, <1>2, <1>3 DEF Same
<1>4. CASE c \in Rows(v)
  <2>1. row[c].at = "flushed"
    BY <1>4 DEF Rows
  <2>2. CASE kept
    BY <1>1, <1>2, <1>4, <2>1, <2>2, Fields DEF Row, RowMoves
  <2>3. CASE ~kept
    BY <1>1, <1>2, <1>4, <2>1, <2>3 DEF RowMoves
  <2> QED
    BY <2>2, <2>3
<1> QED
  BY <1>3, <1>4

LEMMA SweepRuns ==
    ASSUME TypeOK, NEW S \in SUBSET Deliveries, Sweep(S)
    PROVE  \A c \in Deliveries : Same(c) \/ RowMoves(c)
<1> SUFFICES ASSUME NEW c \in Deliveries PROVE Same(c) \/ RowMoves(c)
  OBVIOUS
<1>1. task' = task /\ past' = past
  BY DEF Sweep
<1>2. row'[c] = IF c \in S THEN [row[c] EXCEPT !.at = "swept"] ELSE row[c]
  BY DEF Sweep
<1>3. c \in S => row[c].at = "saved"
  BY DEF Sweep
<1> QED
  BY <1>1, <1>2, <1>3, Fields DEF Same, RowMoves, Row

\* Every step is one of these moves for every delivery.
LEMMA StepMoves ==
    ASSUME TypeOK, Loops, Next, NEW c \in Deliveries
    PROVE  Moves(c)
<1>1. ASSUME NEW v \in Events, Begin(v) \/ FlushFails(v) PROVE Same(c)
  BY <1>1 DEF Begin, FlushFails, Same
<1>2. ASSUME NEW v \in Events, NEW e \in Endpoints, Offer(v, e) \/ OfferFails(v, e)
      PROVE  Same(c) \/ Offered(c)
  BY <1>2, OfferRuns
<1>3. ASSUME NEW v \in Events, Close(v) \/ EmitterFails(v) PROVE Same(c) \/ RowMoves(c)
  <2>1. PICK kept \in BOOLEAN : CloseAs(v, kept)
    BY <1>3 DEF Close, EmitterFails
  <2> QED
    BY <2>1, CloseRuns
<1>4. ASSUME NEW d \in Deliveries,
             TaskStep(d) \/ AuditFails(d) \/ RetryFails(d) \/ MarkFails(d) \/ Crash(d)
      PROVE  Same(c) \/ Runs(c)
  BY <1>4, TaskRuns
<1>5. ASSUME NEW e \in Endpoints, NEW b \in Budgets \union {NoBudget}, Patch(e, b) PROVE Same(c)
  BY <1>5 DEF Patch, Same
<1>6. ASSUME NEW S \in SUBSET Deliveries, Sweep(S) PROVE Same(c) \/ RowMoves(c)
  BY <1>6, SweepRuns
<1> QED
  BY <1>1, <1>2, <1>3, <1>4, <1>5, <1>6 DEF Next, EmitStep, FaultStep, Moves
-----------------------------------------------------------------------------
(* What one delivery's record keeps. *)

LEMMA CountsKept ==
    ASSUME TypeOK, NEW d \in Deliveries, Untouched(d), Counts(d), Moves(d)
    PROVE  Counts(d)'
<1>0. /\ past[d].posts \in Nat /\ past[d].oks \in Nat /\ past[d].crashes \in Nat
      /\ task[d].retries \in Nat
  BY Fields
<1>1. CASE Same(d) \/ RowMoves(d)
  BY <1>1 DEF Same, RowMoves, Counts
<1>2. CASE Offered(d)
  BY <1>0, <1>2 DEF Offered, Untouched, Counts
<1>3. CASE Steps(d, "queued", "post") \/ Steps(d, "config", "dead") \/ Steps(d, "ack", "over")
  BY <1>0, <1>3 DEF Steps, Counts
<1>4. CASE Posted(d)
  BY <1>0, <1>4 DEF Posted, Counts
<1>5. CASE Audited(d)
  BY <1>0, <1>5 DEF Audited, AfterAudit, Answers, Counts
<1>6. CASE Retried(d)
  BY <1>0, <1>6 DEF Retried, Counts
<1>7. CASE Buried(d)
  BY <1>0, <1>7 DEF Buried, Counts
<1>8. CASE Crashed(d)
  BY <1>0, <1>8 DEF Crashed, Counts
<1>9. CASE Loses(d, "audit", AfterAudit(task[d].answer))
  BY <1>0, <1>9 DEF Loses, AfterAudit, Answers, Counts
<1>10. CASE Loses(d, "config", "over") \/ Loses(d, "dead", "ack")
  BY <1>0, <1>10 DEF Loses, Counts
<1> QED
  BY <1>1, <1>2, <1>3, <1>4, <1>5, <1>6, <1>7, <1>8, <1>9, <1>10 DEF Moves, Runs

LEMMA FaithKept ==
    ASSUME TypeOK, NEW d \in Deliveries, Untouched(d), Counts(d), Faithful(d), Moves(d)
    PROVE  Faithful(d)'
<1>0. /\ past[d].crashes \in Nat /\ past[d].seen \in BOOLEAN /\ past[d].lost \in BOOLEAN
      /\ row[d].dead \in BOOLEAN
  BY Fields
<1>1. CASE Same(d)
  BY <1>1 DEF Same, Faithful
<1>2. CASE RowMoves(d)
  BY <1>0, <1>2 DEF RowMoves, Faithful, NoRow
<1>3. CASE Offered(d)
  BY <1>0, <1>3 DEF Offered, Untouched, Counts, Faithful, FreshRow, NoRow
<1>4. CASE Steps(d, "queued", "post") \/ Steps(d, "config", "dead") \/ Steps(d, "ack", "over")
  BY <1>0, <1>4 DEF Steps, Faithful
<1>5. CASE Posted(d)
  BY <1>0, <1>5 DEF Posted, Faithful
<1>6. CASE Audited(d)
  BY <1>0, <1>6 DEF Audited, AfterAudit, Answers, Counts, Faithful
<1>7. CASE Retried(d)
  BY <1>0, <1>7 DEF Retried, Faithful
<1>8. CASE Buried(d)
  BY <1>0, <1>8 DEF Buried, Faithful
<1>9. CASE Crashed(d)
  BY <1>0, <1>9 DEF Crashed, Faithful
<1>10. CASE \/ Loses(d, "audit", AfterAudit(task[d].answer))
            \/ Loses(d, "config", "over") \/ Loses(d, "dead", "ack")
  BY <1>0, <1>10 DEF Loses, AfterAudit, Answers, Counts, Faithful
<1> QED
  BY <1>1, <1>2, <1>3, <1>4, <1>5, <1>6, <1>7, <1>8, <1>9, <1>10 DEF Moves, Runs

LEMMA FitKept ==
    ASSUME TypeOK, NEW d \in Deliveries, Untouched(d), Counts(d), Fits(d), Moves(d)
    PROVE  Fits(d)'
<1>1. CASE Same(d)
  BY <1>1 DEF Same, Fits
<1>2. CASE RowMoves(d)
  BY <1>2 DEF RowMoves, Fits, NoRow
<1>3. CASE Offered(d)
  BY <1>3 DEF Offered, Untouched, Fits, FreshRow, NoRow
<1>4. CASE Steps(d, "queued", "post") \/ Steps(d, "config", "dead") \/ Steps(d, "ack", "over")
  BY <1>4 DEF Steps, Fits
<1>5. CASE Posted(d) \/ Retried(d) \/ Crashed(d)
  BY <1>5 DEF Posted, Retried, Crashed, Fits
<1>6. CASE Audited(d)
  BY <1>6 DEF Audited, AfterAudit, Answers, Counts, Fits
<1>7. CASE Buried(d)
  BY <1>7 DEF Buried, Fits
<1>8. CASE \/ Loses(d, "audit", AfterAudit(task[d].answer))
           \/ Loses(d, "config", "over") \/ Loses(d, "dead", "ack")
  BY <1>8 DEF Loses, AfterAudit, Answers, Counts, Fits
<1> QED
  BY <1>1, <1>2, <1>3, <1>4, <1>5, <1>6, <1>7, <1>8 DEF Moves, Runs
-----------------------------------------------------------------------------
(* The emitters and the faults. *)

LEMMA LoopsKept ==
    ASSUME TypeOK, Loops, Next
    PROVE  Loops'
<1>0. left \in [Events -> SUBSET Endpoints]
  BY DEF TypeOK
<1>1. ASSUME NEW v \in Events, Begin(v) PROVE Loops'
  <2> SUFFICES ASSUME NEW u \in Events, NEW e \in left'[u] PROVE <<u, e>> \in Deliveries
    BY DEF Loops
  <2>1. left' = [left EXCEPT ![v] = {g \in Endpoints : <<v, g>> \in Deliveries}]
    BY <1>1 DEF Begin
  <2> QED
    BY <1>0, <2>1 DEF Loops
<1>2. ASSUME NEW v \in Events, NEW e \in Endpoints, Offer(v, e) \/ OfferFails(v, e) PROVE Loops'
  BY <1>0, <1>2 DEF Offer, OfferFails, Loops
<1>3. ASSUME NEW v \in Events, FlushFails(v) PROVE Loops'
  BY <1>0, <1>3 DEF FlushFails, Loops
<1>4. CASE UNCHANGED left
  BY <1>4 DEF Loops
<1> QED
  BY <1>1, <1>2, <1>3, <1>4
     DEF Next, EmitStep, TaskStep, FaultStep, Close, EmitterFails, CloseAs, Take, Post, Audit,
         Retry, GiveUp, MarkDead, Ack, AuditFails, RetryFails, MarkFails, Crash, Patch, Sweep

\* Nobody is waiting for its emitter who was not before.
LEMMA AheadBefore ==
    ASSUME TypeOK, Next, NEW c \in Deliveries, Ahead(c)'
    PROVE  Ahead(c)
<1>0. /\ emit \in [Events -> {"idle", "open", "poisoned", "closed"}]
      /\ left \in [Events -> SUBSET Endpoints]
      /\ c[1] \in Events /\ c[2] \in Endpoints
  BY Fields DEF TypeOK
<1>1. ASSUME NEW v \in Events, Begin(v) PROVE Ahead(c)
  BY <1>0, <1>1 DEF Begin, Ahead
<1>2. ASSUME NEW v \in Events, NEW e \in Endpoints, Offer(v, e) \/ OfferFails(v, e)
      PROVE  Ahead(c)
  BY <1>0, <1>2 DEF Offer, OfferFails, Ahead
<1>3. ASSUME NEW v \in Events, FlushFails(v) PROVE Ahead(c)
  BY <1>0, <1>3 DEF FlushFails, Ahead
<1>4. ASSUME NEW v \in Events, Close(v) \/ EmitterFails(v) PROVE Ahead(c)
  BY <1>0, <1>4 DEF Close, EmitterFails, CloseAs, Ahead
<1>5. CASE UNCHANGED <<emit, left>>
  BY <1>5 DEF Ahead
<1> QED
  BY <1>1, <1>2, <1>3, <1>4, <1>5
     DEF Next, EmitStep, TaskStep, FaultStep, Take, Post, Audit, Retry,
         GiveUp, MarkDead, Ack, AuditFails, RetryFails, MarkFails, Crash, Patch, Sweep

LEMMA UntouchedKept ==
    ASSUME TypeOK, Loops, Next, NEW c \in Deliveries, Untouched(c)
    PROVE  Untouched(c)'
<1> SUFFICES ASSUME Ahead(c)' PROVE task'[c].pc = "none" /\ row'[c].at = "none"
  BY DEF Untouched
<1>1. task[c].pc = "none" /\ row[c].at = "none"
  BY AheadBefore DEF Untouched
<1>2. CASE Same(c)
  BY <1>1, <1>2 DEF Same
<1>3. ~Runs(c)
  BY <1>1 DEF Runs, Steps, Posted, Audited, Retried, Buried, Crashed, Loses
<1>4. ~RowMoves(c)
  BY <1>1 DEF RowMoves
<1>5. ASSUME NEW v \in Events, NEW e \in Endpoints, Offer(v, e) \/ OfferFails(v, e)
      PROVE  Same(c)
  <2>1. emit[v] = "open" /\ emit' = emit /\ left' = [left EXCEPT ![v] = @ \ {e}]
    BY <1>5 DEF Offer, OfferFails
  <2>2. c # <<v, e>>
    BY <2>1 DEF Ahead, TypeOK
  <2> QED
    BY <1>5, <2>2, OfferRuns
<1>6. ASSUME NEW v \in Events, Close(v) \/ EmitterFails(v) PROVE Same(c) \/ RowMoves(c)
  <2>1. PICK kept \in BOOLEAN : CloseAs(v, kept)
    BY <1>6 DEF Close, EmitterFails
  <2> QED
    BY <2>1, CloseRuns
<1>7. ASSUME NEW d \in Deliveries,
             TaskStep(d) \/ AuditFails(d) \/ RetryFails(d) \/ MarkFails(d) \/ Crash(d)
      PROVE  Same(c) \/ Runs(c)
  BY <1>7, TaskRuns
<1>8. ASSUME NEW S \in SUBSET Deliveries, Sweep(S) PROVE Same(c) \/ RowMoves(c)
  BY <1>8, SweepRuns
<1>9. CASE UNCHANGED <<row, task, past>>
  BY <1>1, <1>9
<1> QED
  BY <1>2, <1>3, <1>4, <1>5, <1>6, <1>7, <1>8, <1>9
     DEF Next, EmitStep, FaultStep, Begin, FlushFails, Patch

\* A step counts at most one fault, and a crash as one.
LEMMA FaultsCount ==
    ASSUME TypeOK, Loops, Next
    PROVE  /\ faults' \in {faults, faults + 1}
           /\ \A c \in Deliveries :
                  \/ past'[c].crashes = past[c].crashes
                  \/ past'[c].crashes = past[c].crashes + 1 /\ faults' = faults + 1
<1>1. faults' \in {faults, faults + 1}
  BY DEF Next, EmitStep, TaskStep, FaultStep, Fault, Begin, Offer, OfferFails, FlushFails, Close,
         EmitterFails, Take, Post, Audit, Retry, GiveUp, MarkDead, Ack, AuditFails, RetryFails,
         MarkFails, Crash, Patch, Sweep
<1>2. ASSUME NEW c \in Deliveries
      PROVE  \/ past'[c].crashes = past[c].crashes
             \/ past'[c].crashes = past[c].crashes + 1 /\ faults' = faults + 1
  <2>1. CASE ~Crashed(c)
    BY <2>1, StepMoves DEF Moves, Same, Offered, RowMoves, Runs, Steps, Posted, Audited, Retried,
                           Buried, Loses
  <2>2. CASE Crashed(c)
    <3>0. past'[c].crashes = past[c].crashes + 1 /\ past[c].crashes \in Nat
      BY <2>2, Fields DEF Crashed
    <3>1. CASE FaultStep
      BY <3>0, <3>1 DEF FaultStep, Fault, OfferFails, FlushFails, EmitterFails, AuditFails,
                        RetryFails, MarkFails, Crash
    <3>2. ASSUME NEW d \in Deliveries, NEW a \in Answers, Post(d, a) PROVE FALSE
      BY <3>0, <3>2, PostRuns DEF Posted, Same
    <3>3. CASE UNCHANGED past
      BY <3>0, <3>3
    <3> QED
      BY <3>1, <3>2, <3>3 DEF Next, EmitStep, TaskStep, Begin, Offer, Close, CloseAs, Take, Audit,
                              Retry, GiveUp, MarkDead, Ack, Patch, Sweep
  <2> QED
    BY <2>1, <2>2
<1> QED
  BY <1>1, <1>2

LEMMA MarredStays ==
    ASSUME TypeOK, Loops, Next, Marred
    PROVE  Marred'
<1>1. /\ faults \in Nat
      /\ \A c \in Deliveries : past[c].crashes \in Nat
  BY Fields DEF TypeOK
<1> QED
  BY <1>1, FaultsCount DEF Marred

\* A fault that is not a crash mars the run.
LEMMA OtherFault ==
    ASSUME TypeOK, \A c \in Deliveries : past[c].crashes <= faults,
           past' = past, faults' = faults + 1
    PROVE  Marred'
<1>1. /\ faults \in Nat
      /\ \A c \in Deliveries : past[c].crashes \in Nat
  BY Fields DEF TypeOK
<1> QED
  BY <1>1 DEF Marred

LEMMA ReachedKept ==
    ASSUME TypeOK, Loops, \A d \in Deliveries : Reached(d), Next, NEW c \in Deliveries,
           Counts(c)
    PROVE  Reached(c)'
<1>0. /\ faults \in Nat
      /\ past[c].crashes \in Nat
      /\ past[c].crashes <= faults
      /\ emit \in [Events -> {"idle", "open", "poisoned", "closed"}]
      /\ left \in [Events -> SUBSET Endpoints]
      /\ c[1] \in Events /\ c[2] \in Endpoints /\ c = <<c[1], c[2]>>
  BY Fields DEF TypeOK, Reached
<1>1. past'[c].crashes <= faults'
  BY <1>0, FaultsCount
<1>2. ASSUME task'[c].pc = "none" PROVE Ahead(c)' \/ Marred'
  <2>1. task[c].pc = "none"
    BY <1>2, StepMoves DEF Moves, Same, Offered, RowMoves, Runs, Steps, Posted, Audited, Retried,
                           Buried, Crashed, Loses, AfterAudit, Counts, Answers
  <2>2. CASE Marred
    BY <2>2, MarredStays
  <2>3. CASE Ahead(c)
    <3>a. \A d \in Deliveries : past[d].crashes <= faults
      BY DEF Reached
    <3>1. ASSUME NEW v \in Events, Begin(v) PROVE Ahead(c)'
      BY <1>0, <2>3, <3>1 DEF Begin, Ahead
    <3>2. ASSUME NEW v \in Events, NEW e \in Endpoints, Offer(v, e) PROVE Ahead(c)'
      <4>1. <<v, e>> \in Deliveries
        BY <3>2 DEF Offer, Loops
      <4>2. c # <<v, e>>
        BY <1>2, <3>2, <4>1, QueuedFields DEF Offer
      <4> QED
        BY <1>0, <2>3, <3>2, <4>2 DEF Offer, Ahead
    <3>3. ASSUME NEW v \in Events, NEW e \in Endpoints, OfferFails(v, e) PROVE Marred'
      BY <3>3, <3>a, OtherFault DEF OfferFails, Fault
    <3>4. ASSUME NEW v \in Events, FlushFails(v) \/ EmitterFails(v) PROVE Marred'
      BY <3>4, <3>a, OtherFault DEF FlushFails, EmitterFails, CloseAs, Fault
    <3>5. ASSUME NEW v \in Events, Close(v) PROVE Ahead(c)'
      BY <1>0, <2>3, <3>5 DEF Close, CloseAs, Ahead
    <3>6. CASE UNCHANGED <<emit, left>>
      BY <2>3, <3>6 DEF Ahead
    <3> QED
      BY <3>1, <3>2, <3>3, <3>4, <3>5, <3>6
         DEF Next, EmitStep, TaskStep, FaultStep, Take, Post, Audit, Retry,
             GiveUp, MarkDead, Ack, AuditFails, RetryFails, MarkFails, Crash, Patch, Sweep
  <2> QED
    BY <2>1, <2>2, <2>3 DEF Reached
<1> QED
  BY <1>1, <1>2 DEF Reached
-----------------------------------------------------------------------------
(* Types. *)

LEMMA MaxRetriesBounded ==
    ASSUME TypeOK, NEW d \in Deliveries
    PROVE  MaxRetries(d) \in 0 .. Ceiling
<1>1. budget[d[2]] \in Budgets \union {NoBudget}
  BY Fields DEF TypeOK
<1>2. /\ Ceiling \in Nat /\ DefaultBudget \in 0 .. Ceiling
      /\ budget[d[2]] # NoBudget => budget[d[2]] \in Nat
  <2>1. Ceiling \in Nat /\ DefaultBudget \in 0 .. Ceiling /\ Budgets \subseteq Nat
    BY BudgetAssumption
  <2> QED
    BY <1>1, <2>1
<1>3. budget[d[2]] # NoBudget => Smaller(budget[d[2]], Ceiling) \in 0 .. Ceiling
  BY <1>2 DEF Smaller
<1> QED
  BY <1>2, <1>3 DEF MaxRetries

LEMMA GotoTypes ==
    ASSUME TypeOK, NEW d \in Deliveries, NEW q, Goto(d, q),
           q \in {"post", "audit", "config", "dead", "ack", "over"}
    PROVE  task' \in [Deliveries -> Task]
BY Fields DEF Goto, Task

LEMMA QueuedTypes ==
    ASSUME TypeOK, NEW d \in Deliveries, NEW r \in 0 .. Ceiling,
           task' = [task EXCEPT ![d] = Queued(r)]
    PROVE  task' \in [Deliveries -> Task]
BY Fields DEF Queued, Task

LEMMA TaskTypes ==
    ASSUME TypeOK, Loops, Next, \A d \in Deliveries : Counts(d)
    PROVE  task' \in [Deliveries -> Task]
<1>1. ASSUME NEW v \in Events, NEW e \in Endpoints, Offer(v, e) PROVE task' \in [Deliveries -> Task]
  <2>1. <<v, e>> \in Deliveries
    BY <1>1 DEF Offer, Loops
  <2>2. 0 \in 0 .. Ceiling
    BY BudgetAssumption
  <2>3. task' = [task EXCEPT ![<<v, e>>] = Queued(0)]
    BY <1>1 DEF Offer
  <2> QED
    BY <2>1, <2>2, <2>3, QueuedTypes
<1>2. ASSUME NEW d \in Deliveries, Retry(d) PROVE task' \in [Deliveries -> Task]
  <2>1. Attempt(d) \in 0 .. Ceiling
    BY <1>2, MaxRetriesBounded, Fields, BudgetAssumption DEF Retry, Attempt
  <2> QED
    BY <1>2, <2>1, QueuedTypes DEF Retry
<1>3. ASSUME NEW d \in Deliveries, Crash(d) PROVE task' \in [Deliveries -> Task]
  <2>1. task[d].retries \in 0 .. Ceiling
    BY Fields DEF Task
  <2> QED
    BY <1>3, <2>1, QueuedTypes DEF Crash
<1>4. ASSUME NEW d \in Deliveries, NEW a \in Answers, Post(d, a)
      PROVE  task' \in [Deliveries -> Task]
  BY <1>4, Fields DEF Post, Task
<1>5. ASSUME NEW d \in Deliveries, Audit(d) \/ AuditFails(d) PROVE task' \in [Deliveries -> Task]
  <2>1. task[d].answer \in Answers /\ Goto(d, AfterAudit(task[d].answer))
    BY <1>5 DEF Audit, AuditFails, Counts
  <2>2. AfterAudit(task[d].answer) \in {"config", "dead", "ack"}
    BY <2>1 DEF AfterAudit, Answers
  <2> QED
    BY <2>1, <2>2, GotoTypes
<1>6. ASSUME NEW d \in Deliveries,
             \/ Take(d) \/ GiveUp(d) \/ MarkDead(d) \/ Ack(d) \/ RetryFails(d) \/ MarkFails(d)
      PROVE  task' \in [Deliveries -> Task]
  BY <1>6, GotoTypes DEF Take, GiveUp, MarkDead, Ack, RetryFails, MarkFails
<1>7. CASE UNCHANGED task
  BY <1>7 DEF TypeOK
<1> QED
  BY <1>1, <1>2, <1>3, <1>4, <1>5, <1>6, <1>7
     DEF Next, EmitStep, TaskStep, FaultStep, Begin, OfferFails, FlushFails, Close, EmitterFails,
         CloseAs, Patch, Sweep

LEMMA RowTypes ==
    ASSUME TypeOK, Loops, Next, \A d \in Deliveries : Counts(d)
    PROVE  row' \in [Deliveries -> Row]
<1>0. row \in [Deliveries -> Row] /\ FreshRow \in Row /\ NoRow \in Row
  BY DEF TypeOK, FreshRow, NoRow, Row
<1>1. ASSUME NEW v \in Events, NEW e \in Endpoints, Offer(v, e) \/ OfferFails(v, e)
      PROVE  row' \in [Deliveries -> Row]
  BY <1>0, <1>1 DEF Offer, OfferFails
<1>2. ASSUME NEW v \in Events, Close(v) \/ EmitterFails(v) PROVE row' \in [Deliveries -> Row]
  <2>1. PICK kept \in BOOLEAN : CloseAs(v, kept)
    BY <1>2 DEF Close, EmitterFails
  <2>2. \A d \in Deliveries : [row[d] EXCEPT !.at = "saved"] \in Row
    BY <1>0 DEF Row
  <2> QED
    BY <1>0, <2>1, <2>2 DEF CloseAs
<1>3. ASSUME NEW d \in Deliveries, Audit(d) PROVE row' \in [Deliveries -> Row]
  <2> DEFINE r == [row[d] EXCEPT !.attempts = Attempt(d), !.code = task[d].answer]
  <2>1. r \in Row
    <3>1. Attempt(d) \in Nat /\ task[d].answer \in Answers
      BY <1>3, Fields DEF Audit, Attempt, Counts
    <3> QED
      BY <1>0, <3>1 DEF Row
  <2>2. row' = [row EXCEPT ![d] = IF row[d].at # "saved" THEN row[d] ELSE r]
    BY <1>3 DEF Audit
  <2> HIDE DEF r
  <2> QED
    BY <1>0, <2>1, <2>2
<1>4. ASSUME NEW d \in Deliveries, MarkDead(d) PROVE row' \in [Deliveries -> Row]
  <2> DEFINE r == [row[d] EXCEPT !.dead = row[d].dead \/ row[d].at = "saved"]
  <2>1. r \in Row
    BY <1>0 DEF Row
  <2>2. row' = [row EXCEPT ![d] = r]
    BY <1>4 DEF MarkDead
  <2> HIDE DEF r
  <2> QED
    BY <1>0, <2>1, <2>2
<1>5. ASSUME NEW S \in SUBSET Deliveries, Sweep(S) PROVE row' \in [Deliveries -> Row]
  <2>1. \A d \in Deliveries : [row[d] EXCEPT !.at = "swept"] \in Row
    BY <1>0 DEF Row
  <2> QED
    BY <1>0, <1>5, <2>1 DEF Sweep
<1>6. CASE UNCHANGED row
  BY <1>0, <1>6
<1> QED
  BY <1>1, <1>2, <1>3, <1>4, <1>5, <1>6
     DEF Next, EmitStep, TaskStep, FaultStep, Begin, FlushFails, Take, Post, Retry, GiveUp, Ack,
         AuditFails, RetryFails, MarkFails, Crash, Patch

LEMMA PastTypes ==
    ASSUME TypeOK, Next
    PROVE  past' \in [Deliveries -> Past]
<1>0. past \in [Deliveries -> Past]
  BY DEF TypeOK
<1>1. ASSUME NEW d \in Deliveries, NEW a \in Answers, Post(d, a)
      PROVE  past' \in [Deliveries -> Past]
  <2> DEFINE k == IF a = "ok" THEN past[d].oks + 1 ELSE past[d].oks
             b == row[d].at = "saved"
             f == [past[d] EXCEPT !.posts = past[d].posts + 1]
             g == [f EXCEPT !.oks = k]
             e == [g EXCEPT !.seen = b]
  <2>1. k \in Nat
    BY <1>0 DEF Past
  <2>2. e \in Past
    <3>1. past[d] \in Past /\ b \in BOOLEAN
      BY <1>0
    <3>2. f \in Past
      BY <3>1 DEF Past
    <3>3. g \in Past
      <4> HIDE DEF k, f
      <4> QED
        BY <2>1, <3>2 DEF Past
    <3> HIDE DEF g, b
    <3> QED
      BY <3>1, <3>3 DEF Past
  <2>3. past' = [past EXCEPT ![d] = e]
    BY <1>0, <1>1 DEF Post, Past
  <2> HIDE DEF e
  <2> QED
    BY <1>0, <2>2, <2>3
<1>2. ASSUME NEW d \in Deliveries, AuditFails(d) \/ RetryFails(d) \/ MarkFails(d)
      PROVE  past' \in [Deliveries -> Past]
  BY <1>0, <1>2 DEF AuditFails, RetryFails, MarkFails, Past
<1>3. ASSUME NEW d \in Deliveries, Crash(d) PROVE past' \in [Deliveries -> Past]
  BY <1>0, <1>3 DEF Crash, Past
<1>4. CASE UNCHANGED past
  BY <1>0, <1>4
<1> QED
  BY <1>1, <1>2, <1>3, <1>4
     DEF Next, EmitStep, TaskStep, FaultStep, Begin, Offer, OfferFails, FlushFails, Close,
         EmitterFails, CloseAs, Take, Audit, Retry, GiveUp, MarkDead, Ack, Patch, Sweep

LEMMA OtherTypes ==
    ASSUME TypeOK, Next
    PROVE  /\ emit' \in [Events -> {"idle", "open", "poisoned", "closed"}]
           /\ left' \in [Events -> SUBSET Endpoints]
           /\ budget' \in [Endpoints -> Budgets \union {NoBudget}]
           /\ faults' \in 0 .. MaxFaults
<1>1. emit' \in [Events -> {"idle", "open", "poisoned", "closed"}]
  BY DEF TypeOK, Next, EmitStep, TaskStep, FaultStep, Begin, Offer, OfferFails, FlushFails, Close,
         EmitterFails, CloseAs, Take, Post, Audit, Retry, GiveUp, MarkDead, Ack, AuditFails,
         RetryFails, MarkFails, Crash, Patch, Sweep
<1>2. left' \in [Events -> SUBSET Endpoints]
  <2>0. left \in [Events -> SUBSET Endpoints]
    BY DEF TypeOK
  <2>1. ASSUME NEW v \in Events, Begin(v) PROVE left' \in [Events -> SUBSET Endpoints]
    BY <2>0, <2>1 DEF Begin
  <2>2. ASSUME NEW v \in Events, NEW e \in Endpoints, Offer(v, e) \/ OfferFails(v, e)
        PROVE  left' \in [Events -> SUBSET Endpoints]
    BY <2>0, <2>2 DEF Offer, OfferFails
  <2>3. ASSUME NEW v \in Events, FlushFails(v) PROVE left' \in [Events -> SUBSET Endpoints]
    BY <2>0, <2>3 DEF FlushFails
  <2>4. CASE UNCHANGED left
    BY <2>0, <2>4
  <2> QED
    BY <2>1, <2>2, <2>3, <2>4
       DEF Next, EmitStep, TaskStep, FaultStep, Close, EmitterFails, CloseAs, Take, Post, Audit,
           Retry, GiveUp, MarkDead, Ack, AuditFails, RetryFails, MarkFails, Crash, Patch, Sweep
<1>3. budget' \in [Endpoints -> Budgets \union {NoBudget}]
  BY DEF TypeOK, Next, EmitStep, TaskStep, FaultStep, Begin, Offer, OfferFails, FlushFails, Close,
         EmitterFails, CloseAs, Take, Post, Audit, Retry, GiveUp, MarkDead, Ack, AuditFails,
         RetryFails, MarkFails, Crash, Patch, Sweep
<1>4. faults' \in 0 .. MaxFaults
  <2>1. faults' = faults \/ \E k \in FaultKinds : Fault(k)
    BY DEF Next, EmitStep, TaskStep, FaultStep, Begin, Offer, OfferFails, FlushFails, Close,
           EmitterFails, CloseAs, Take, Post, Audit, Retry, GiveUp, MarkDead, Ack, AuditFails,
           RetryFails, MarkFails, Crash, Patch, Sweep, FaultKinds
  <2> QED
    BY <2>1, FaultAssumption DEF TypeOK, Fault
<1> QED
  BY <1>1, <1>2, <1>3, <1>4
-----------------------------------------------------------------------------
(* The theorems. *)

LEMMA HookInvInit == Init => HookInv
<1> SUFFICES ASSUME Init PROVE HookInv
  OBVIOUS
<1>1. TypeOK
  <2>1. emit \in [Events -> {"idle", "open", "poisoned", "closed"}]
        /\ left \in [Events -> SUBSET Endpoints]
        /\ budget \in [Endpoints -> Budgets \union {NoBudget}]
        /\ faults \in 0 .. MaxFaults
    BY FaultAssumption DEF Init
  <2>2. row \in [Deliveries -> Row]
    BY DEF Init, NoRow, Row
  <2>3. task \in [Deliveries -> Task]
    BY BudgetAssumption DEF Init, NoTask, Task
  <2>4. past \in [Deliveries -> Past]
    BY DEF Init, Past
  <2> QED
    BY <2>1, <2>2, <2>3, <2>4 DEF TypeOK
<1>2. Loops
  BY DEF Init, Loops
<1>3. ASSUME NEW d \in Deliveries
      PROVE  Untouched(d) /\ Counts(d) /\ Faithful(d) /\ Fits(d) /\ Reached(d)
  <2>1. /\ task[d].pc = "none" /\ row[d].at = "none" /\ ~row[d].dead
        /\ task[d].retries = 0 /\ task[d].answer = "none"
        /\ row[d].attempts = 0 /\ row[d].code = "none"
        /\ past[d].posts = 0 /\ past[d].oks = 0 /\ past[d].crashes = 0 /\ ~past[d].seen
        /\ faults = 0
    BY DEF Init, NoTask, NoRow
  <2>2. Ahead(d)
    BY Fields, <1>1 DEF Init, Ahead
  <2> QED
    BY <2>1, <2>2 DEF Untouched, Counts, Faithful, Fits, Reached
<1> QED
  BY <1>1, <1>2, <1>3 DEF HookInv

LEMMA HookInvStep == HookInv /\ [Next]_vars => HookInv'
<1> SUFFICES ASSUME HookInv, [Next]_vars PROVE HookInv'
  OBVIOUS
<1>1. CASE Next
  <2>0. /\ TypeOK /\ Loops
        /\ \A d \in Deliveries : Untouched(d) /\ Counts(d) /\ Faithful(d) /\ Fits(d) /\ Reached(d)
    BY DEF HookInv
  <2>1. TypeOK'
    BY <1>1, <2>0, TaskTypes, RowTypes, PastTypes, OtherTypes DEF TypeOK
  <2>2. Loops'
    BY <1>1, <2>0, LoopsKept
  <2>3. ASSUME NEW d \in Deliveries
        PROVE  Untouched(d)' /\ Counts(d)' /\ Faithful(d)' /\ Fits(d)' /\ Reached(d)'
    BY <1>1, <2>0, StepMoves, UntouchedKept, CountsKept, FaithKept, FitKept, ReachedKept
  <2> QED
    BY <2>1, <2>2, <2>3 DEF HookInv
<1>2. CASE UNCHANGED vars
  BY <1>2 DEF vars, HookInv, TypeOK, Loops, Untouched, Counts, Faithful, Fits, Reached,
            Ahead, Marred
<1> QED
  BY <1>1, <1>2

THEOREM HookInvariance == Spec => []HookInv
BY HookInvInit, HookInvStep, PTL DEF Spec

\* Everything has its type; in particular no task is retried more often than the ceiling.
THEOREM HookTypeCorrect == Spec => []TypeOK
<1>1. HookInv => TypeOK
  BY DEF HookInv
<1> QED
  BY <1>1, HookInvariance, PTL

\* A success is repeated only after a worker has died over the task.
THEOREM AnsweredOnceAlways == Spec => []AnsweredOnce
<1>1. HookInv => AnsweredOnce
  BY DEF HookInv, Counts, AnsweredOnce
<1> QED
  BY <1>1, HookInvariance, PTL

\* However a budget is patched in mid-backoff, _RETRY_CEILING bounds the posts.
THEOREM CeilingAlwaysHolds == Spec => []CeilingHolds
<1>1. ASSUME HookInv, NEW d \in Deliveries
      PROVE  past[d].posts <= 1 + Ceiling + past[d].crashes
  <2>1. TypeOK /\ Counts(d)
    BY <1>1 DEF HookInv
  <2>2. /\ past[d].posts \in Nat /\ past[d].crashes \in Nat /\ Ceiling \in Nat
        /\ task[d].retries \in Nat /\ task[d].retries <= Ceiling
    BY <2>1, Fields, BudgetAssumption
  <2>3. task[d].pc \in {"none", "queued", "post", "audit", "config", "dead", "ack", "over"}
    BY <2>1, Fields DEF Task
  <2> QED
    BY <2>1, <2>2, <2>3 DEF Counts
<1>2. HookInv => CeilingHolds
  BY <1>1 DEF CeilingHolds
<1> QED
  BY <1>2, HookInvariance, PTL

\* A visible audit row of a task that is over tells its last attempt.
THEOREM AuditAlwaysFaithful == Spec => []AuditIsFaithful
<1>1. HookInv => AuditIsFaithful
  BY DEF HookInv, Faithful, AuditIsFaithful, Attempt
<1> QED
  BY <1>1, HookInvariance, PTL

\* emit_event reaches every subscribed endpoint, and each is tried, if only crashes over
\* one delivery went wrong.
THEOREM EveryEndpointAlwaysTried == Spec => []EveryEndpointIsTried
<1>1. ASSUME HookInv, NEW d \in Deliveries, emit[d[1]] = "closed", task[d].pc \in {"none", "over"},
             faults = 0 \/ \E c \in Deliveries : past[c].crashes = faults
      PROVE  past[d].posts > 0
  <2>1. ~Ahead(d)
    BY <1>1 DEF Ahead
  <2>2. ~Marred
    <3>1. /\ faults \in Nat
          /\ \A c \in Deliveries : past[c].crashes \in Nat
      BY <1>1, Fields DEF HookInv, TypeOK
    <3> QED
      BY <1>1, <3>1 DEF Marred
  <2>3. task[d].pc = "over"
    BY <1>1, <2>1, <2>2 DEF HookInv, Reached
  <2> QED
    BY <1>1, <2>3 DEF HookInv, Counts
<1>2. HookInv => EveryEndpointIsTried
  BY <1>1 DEF EveryEndpointIsTried
<1> QED
  BY <1>2, HookInvariance, PTL

\* A delivery marked dead is not posted again, unless a worker died over it.
THEOREM DeadAlwaysFinal == Spec => DeadIsFinal
<1>1. ASSUME HookInv, Next, NEW d \in Deliveries, row[d].dead, past[d].crashes = 0
      PROVE  past'[d].posts = past[d].posts
  <2>1. task[d].pc \in {"ack", "over"}
    BY <1>1 DEF HookInv, Faithful
  <2>2. Moves(d)
    BY <1>1, StepMoves DEF HookInv
  <2> QED
    BY <2>1, <2>2 DEF Moves, Same, Offered, RowMoves, Runs, Steps, Posted, Audited, Retried,
                      Buried, Crashed, Loses
<1>2. HookInv /\ [Next]_vars
        => [\A d \in Deliveries : row[d].dead /\ past[d].crashes = 0
                                      => past'[d].posts = past[d].posts]_vars
  BY <1>1 DEF vars
<1> QED
  BY <1>2, HookInvariance, PTL DEF Spec, DeadIsFinal
-----------------------------------------------------------------------------
(* The contract with the owner of an endpoint. *)

LEMMA OwnerSees ==
    ASSUME TypeOK, TypeOK', NEW d \in Deliveries,
           Untouched(d), Counts(d), Faithful(d), Fits(d), Moves(d)
    PROVE  Contract(d)!Next \/ UNCHANGED Contract(d)!vars
<1>0. /\ task[d].pc \in {"none", "queued", "post", "audit", "config", "dead", "ack", "over"}
      /\ task'[d].retries <= Ceiling /\ task[d].retries \in Nat
      /\ past[d].crashes \in Nat /\ Ceiling \in Nat
      /\ row[d].at \in {"none", "flushed", "saved", "swept"}
      /\ row[d].dead \in BOOLEAN /\ row'[d].dead \in BOOLEAN
  BY Fields, BudgetAssumption DEF Task, Row, TypeOK
<1>1. CASE Same(d)
  BY <1>1 DEF Same, Contract!vars, Stage, Shown, Told
<1>2. CASE Offered(d)
  <2>1. UNCHANGED <<Shown(d), Told(d), past[d].crashes>>
    <3>1. row[d].at = "none" /\ row'[d].at = "flushed"
      BY <1>2 DEF Offered, Untouched, FreshRow, NoRow
    <3>2. /\ row'[d].attempts = row[d].attempts /\ row'[d].code = row[d].code
          /\ row'[d].dead = row[d].dead
      BY <1>2, <3>1 DEF Offered, Fits, FreshRow, NoRow
    <3> QED
      BY <1>2, <3>1, <3>2 DEF Offered, Shown, Told
  <2>2. CASE task'[d] = task[d]
    BY <2>1, <2>2 DEF Contract!vars, Stage
  <2>3. CASE task'[d].pc = "queued" /\ task'[d].retries = 0 /\ task'[d].answer = "none"
    BY <1>2, <2>1, <2>3 DEF Offered, Untouched, Fits, Contract!Next, Contract!Send, Stage
  <2> QED
    BY <1>2, <2>2, <2>3 DEF Offered
<1>3. CASE RowMoves(d)
  <2>1. UNCHANGED <<Stage(d), task[d].retries, task[d].answer, past[d].crashes>>
    BY <1>3 DEF RowMoves, Stage
  <2>2. UNCHANGED Told(d)
    <3>1. /\ row'[d].attempts = row[d].attempts /\ row'[d].code = row[d].code
          /\ row'[d].dead = row[d].dead
      <4>1. CASE row[d].at = "flushed" /\ row'[d] = NoRow
        <5>1. row[d].attempts = 0 /\ row[d].code = "none" /\ row[d].dead = FALSE
          BY <4>1 DEF Fits
        <5>2. row'[d].attempts = 0 /\ row'[d].code = "none" /\ row'[d].dead = FALSE
          BY <4>1 DEF NoRow
        <5> QED
          BY <5>1, <5>2
      <4> QED
        BY <1>3, <4>1 DEF RowMoves
    <3> QED
      BY <3>1 DEF Told
  <2>3. CASE row[d].at = "flushed" /\ row'[d] = NoRow
    BY <2>1, <2>2, <2>3 DEF Contract!vars, Shown, NoRow
  <2>4. CASE row[d].at = "flushed" /\ row'[d].at = "saved"
    BY <2>1, <2>2, <2>4 DEF Contract!Next, Contract!Turn, Shown
  <2>5. CASE row[d].at = "saved" /\ row'[d].at = "swept"
    BY <2>1, <2>2, <2>5 DEF Contract!Next, Contract!Turn, Shown
  <2> QED
    BY <1>3, <2>3, <2>4, <2>5 DEF RowMoves
<1>4. CASE Steps(d, "queued", "post") \/ Steps(d, "config", "dead")
  BY <1>4 DEF Steps, Contract!vars, Stage, Shown, Told
<1>5. CASE Steps(d, "ack", "over")
  BY <1>5 DEF Steps, Contract!Next, Contract!Settle, Stage, Shown, Told
<1>6. CASE Posted(d)
  <2>1. row[d].dead => past[d].crashes > 0
    BY <1>0, <1>6 DEF Posted, Faithful
  <2> QED
    BY <1>6, <2>1 DEF Posted, Contract!Next, Contract!Post, Stage, Shown, Told
<1>7. CASE Audited(d)
  <2>1. /\ task[d].pc = "audit" /\ task'[d].pc \in {"ack", "config", "dead"}
        /\ UNCHANGED <<task[d].retries, task[d].answer, past[d].crashes, Shown(d)>>
    BY <1>7 DEF Audited, AfterAudit, Counts, Answers, Shown
  <2>2. UNCHANGED Stage(d) /\ Stage(d) = "answered"
    BY <2>1 DEF Stage
  <2>3. CASE row[d].at = "saved"
    <3>1. /\ Shown(d) = "shown"
          /\ Told(d)' = [attempts |-> task[d].retries + 1, code |-> task[d].answer,
                        dead |-> Told(d).dead]
      <4>1. /\ row'[d].attempts = task[d].retries + 1 /\ row'[d].code = task[d].answer
            /\ row'[d].dead = row[d].dead
        BY <1>7, <2>3 DEF Audited
      <4> QED
        BY <2>3, <4>1 DEF Shown, Told
    <3> QED
      BY <2>1, <2>2, <3>1 DEF Contract!Next, Contract!Record
  <2>4. CASE row[d].at # "saved"
    BY <1>7, <2>1, <2>2, <2>4 DEF Audited, Contract!vars, Told
  <2> QED
    BY <2>3, <2>4
<1>8. CASE Retried(d)
  <2>1. /\ Stage(d) = "answered" /\ Stage(d)' = "due"
        /\ UNCHANGED <<past[d].crashes, Shown(d), Told(d)>>
    BY <1>8 DEF Retried, Stage, Shown, Told
  <2>2. /\ task[d].answer = "unavailable" /\ task'[d].answer = "none"
        /\ task'[d].retries = task[d].retries + 1 /\ task[d].retries < Ceiling
    BY <1>0, <1>8 DEF Retried, Fits
  <2> QED
    BY <2>1, <2>2 DEF Contract!Next, Contract!TryAgain
<1>9. CASE Buried(d)
  <2>1. /\ Stage(d) = "answered" /\ Stage(d)' = "answered"
        /\ UNCHANGED <<task[d].retries, task[d].answer, past[d].crashes, Shown(d)>>
    BY <1>9 DEF Buried, Stage, Shown
  <2>2. CASE row[d].at = "saved"
    <3>1. Shown(d) = "shown" /\ Told(d)' = [attempts |-> Told(d).attempts,
                                             code |-> Told(d).code, dead |-> TRUE]
      <4>1. /\ row'[d].attempts = row[d].attempts /\ row'[d].code = row[d].code
            /\ row'[d].dead = TRUE
        BY <1>0, <1>9, <2>2 DEF Buried
      <4> QED
        BY <2>2, <4>1 DEF Shown, Told
    <3> QED
      BY <1>9, <2>1, <3>1 DEF Buried, Fits, Contract!Next, Contract!Bury
  <2>3. CASE row[d].at # "saved"
    <3>1. UNCHANGED Told(d)
      <4>1. /\ row'[d].attempts = row[d].attempts /\ row'[d].code = row[d].code
            /\ row'[d].dead = row[d].dead
        BY <1>0, <1>9, <2>3 DEF Buried
      <4> QED
        BY <4>1 DEF Told
    <3> QED
      BY <2>1, <3>1 DEF Contract!vars
  <2> QED
    BY <2>2, <2>3
<1>10. CASE Crashed(d)
  BY <1>10 DEF Crashed, Contract!Next, Contract!Resend, Stage, Shown, Told
<1>11. CASE Loses(d, "audit", AfterAudit(task[d].answer)) \/ Loses(d, "dead", "ack")
  BY <1>11 DEF Loses, AfterAudit, Counts, Answers, Contract!vars, Stage, Shown, Told
<1>12. CASE Loses(d, "config", "over")
  BY <1>12 DEF Loses, Contract!Next, Contract!Settle, Stage, Shown, Told
<1> QED
  BY <1>1, <1>2, <1>3, <1>4, <1>5, <1>6, <1>7, <1>8, <1>9, <1>10, <1>11, <1>12 DEF Moves, Runs

\* emit_event, dispatch_webhook and the sweep keep the contract with the owner of each
\* endpoint: at least one post, retries only after an endpoint was unavailable, no post
\* of a dead delivery unless its message came back, and a row that tells what happened.
THEOREM DeliveryImplementation == Spec => ImplementsDelivery
<1>1. Init => \A d \in Deliveries : Contract(d)!Init
  <2> SUFFICES ASSUME Init, NEW d \in Deliveries PROVE Contract(d)!Init
    OBVIOUS
  <2>1. /\ task[d].pc = "none" /\ task[d].retries = 0 /\ task[d].answer = "none"
        /\ row[d].at = "none" /\ row[d].attempts = 0 /\ row[d].code = "none"
        /\ row[d].dead = FALSE /\ past[d].crashes = 0
    BY DEF Init, NoTask, NoRow
  <2> QED
    BY <2>1 DEF Contract!Init, Stage, Shown, Told
<1>2. HookInv /\ HookInv' /\ [Next]_vars
        => [\A d \in Deliveries : Contract(d)!Next \/ UNCHANGED Contract(d)!vars]_vars
  BY StepMoves, OwnerSees DEF HookInv
<1> QED
  BY <1>1, <1>2, HookInvariance, PTL DEF Spec, ImplementsDelivery
=============================================================================
