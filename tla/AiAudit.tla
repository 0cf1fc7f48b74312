------------------------------- MODULE AiAudit -------------------------------
(***************************************************************************)
(* The AI passes that follow a preflight: audit_findings_async asks Claude *)
(* for a verdict on every batch of findings, ocr_job_async for the text of *)
(* every page.  Both run as Celery tasks that retry for up to 24 hours,    *)
(* both stop at the tenant's monthly quota and at its cost cap, and both   *)
(* share one spend.  A customer may audit a job again (rerun_audit), and a *)
(* beat task drains the rerun queue a migration has seeded.                *)
(*                                                                         *)
(* A unit stands for a batch of findings of the audit and for a page of    *)
(* the OCR.  A call costs one cent: compute_cost_cents never bills less.   *)
(* The publish of a retry and the ack of the attempt are one step here;    *)
(* PreflightJob has them apart.                                            *)
(***************************************************************************)
EXTENDS Integers, FiniteSets

CONSTANTS
    Audited,     \* complete jobs of one tenant
    Seeded,      \* those the migration has put into the rerun queue
    Auditors,    \* slots that execute a pass
    Callers,     \* those that may be an API thread serving rerun_audit
    AuditTags,   \* delivery tags of the broker
    NoAuditTag,  \* the tag of an idle slot and of an API thread
    NoAudit,     \* the job of a free tag and of an idle slot
    Locked,      \* jobs whose tenant lacks the feature
    Units,       \* batches or pages of a job
    Quota,       \* monthly_ai_credits, 0 without a quota
    Cap,         \* monthly_cap_cents of the cost cap
    AuditFaults, \* which faults may occur
    MaxAuditFaults

ASSUME AuditSetsAssumption ==
    /\ IsFiniteSet(Auditors) /\ Callers \subseteq Auditors
    /\ NoAudit \notin Audited /\ NoAuditTag \notin AuditTags
    /\ Locked \subseteq Audited /\ Seeded \subseteq Audited
ASSUME AuditBoundAssumption ==
    /\ Units \in Nat \ {0}
    /\ Quota \in Nat
    /\ Cap \in Nat \ {0}
    /\ MaxAuditFaults \in Nat

VARIABLES
    verdict,   \* verdict[j][u]: audit_status of the findings of a batch
    text,      \* text[j]: the pages of ocr_text_layer
    notes,     \* notes[j, s]: LPDF_AI_QUOTA_EXCEEDED and LPDF_FEATURE_LOCKED findings
    asked,     \* the passes that were requested
    inbox,     \* inbox[t]: the message under a tag
    auditor,   \* auditor[w]: what a slot is executing
    spent,     \* the tenant's usage this month
    rerun,     \* rows of ai_audit_rerun_queue
    drain,     \* the beat task that empties it
    excused,   \* passes that lost a unit to a failed call or a gate
    mishaps    \* faults so far

auditVars == <<verdict, text, notes, asked, inbox, auditor, spent, rerun, drain,
               excused, mishaps>>
-----------------------------------------------------------------------------
Kinds == {"audit", "ocr"}
Pass == Audited \X Kinds
Subjects == Kinds \union {"quota"}     \* what a note is about: a locked feature, the quota

\* first_attempt_at_iso of a message: absent, within the last 24 hours, older.
Attempt == {"unset", "set", "old"}
Request == [job : Audited \union {NoAudit}, kind : Kinds, first : Attempt]
FreeRequest == [job |-> NoAudit, kind |-> "audit", first |-> "unset"]

AuditSteps == {"gate", "look", "insert", "unit", "call", "commit", "mark", "marking", "ack"}
AuditSlot == [tag : AuditTags \union {NoAuditTag}, job : Audited \union {NoAudit},
              kind : Kinds, pc : AuditSteps \union {"idle"},
              unit : 1 .. Units, got : SUBSET (1 .. Units)]
IdleAuditor == [tag |-> NoAuditTag, job |-> NoAudit, kind |-> "audit", pc |-> "idle",
                unit |-> 1, got |-> {}]

Doing(w, p) == auditor[w].pc = p
Forced(w) == auditor[w].tag = NoAuditTag
PassOf(w) == <<auditor[w].job, auditor[w].kind>>
NoteOf(w) == <<auditor[w].job, IF auditor[w].job \in Locked THEN auditor[w].kind ELSE "quota">>
Taken(t) == \E w \in Auditors : auditor[w].tag = t

Step(w, p) == auditor' = [auditor EXCEPT ![w].pc = p]
Finish(w) == auditor' = [auditor EXCEPT ![w] = [@ EXCEPT !.pc = "ack", !.got = {}]]
Rest(w) == auditor' = [auditor EXCEPT ![w] = IdleAuditor]

\* The loop over the batches or pages goes on with the units in got answered.
NextUnit(w, got) ==
    \/ /\ auditor[w].unit = Units
       /\ auditor' = [auditor EXCEPT ![w] = [@ EXCEPT !.pc = "commit", !.got = got]]
    \/ /\ auditor[w].unit < Units
       /\ auditor' = [auditor EXCEPT ![w] = [@ EXCEPT !.pc = "unit", !.unit = auditor[w].unit + 1,
                                                   !.got = got]]

Mishap(kind) == /\ kind \in AuditFaults
                /\ mishaps < MaxAuditFaults
                /\ mishaps' = mishaps + 1

\* The task has a reason to leave something undone; a forced audit needs none.
Excuse(w) == excused' = IF Forced(w) THEN excused ELSE excused \union {PassOf(w)}

\* is_over_quota: no quota without a positive cap.
OverQuota == Quota > 0 /\ spent >= Quota

AuditInit ==
    /\ verdict = [j \in Audited |-> [u \in 1 .. Units |-> "none"]]
    /\ text = [j \in Audited |-> {}]
    /\ notes = [n \in Audited \X Subjects |-> 0]
    /\ asked = Seeded \X {"audit"}
    /\ inbox = [t \in AuditTags |-> FreeRequest]
    /\ auditor = [w \in Auditors |-> IdleAuditor]
    /\ spent = 0
    /\ rerun = Seeded
    /\ drain = [pc |-> "off", job |-> NoAudit, todo |-> {}]
    /\ excused = {}
    /\ mishaps = 0
-----------------------------------------------------------------------------
(* Requests: run_preflight, the rerun queue, the customer. *)

Delay(j, k) == \E t \in AuditTags :
    /\ inbox[t] = FreeRequest
    /\ inbox' = [inbox EXCEPT ![t] = [job |-> j, kind |-> k, first |-> "unset"]]

\* After the commit of COMPLETE: audit_findings_async.delay, then ocr_job_async.delay.
Ask(j, k) == /\ <<j, k>> \notin asked
             /\ k = "ocr" => <<j, "audit">> \in asked
             /\ Delay(j, k)
             /\ asked' = asked \union {<<j, k>>}
             /\ UNCHANGED <<verdict, text, notes, auditor, spent, rerun, drain, excused, mishaps>>

\* _drain_rerun_queue: read every row; per row delay, then delete and commit.
DrainScan == /\ drain.pc = "off"
             /\ rerun # {}
             /\ drain' = [pc |-> "send", job |-> NoAudit, todo |-> rerun]
             /\ UNCHANGED <<verdict, text, notes, asked, inbox, auditor, spent, rerun, excused, mishaps>>

DrainSend(j) == /\ drain.pc = "send"
                /\ j \in drain.todo
                /\ Delay(j, "audit")
                /\ drain' = [drain EXCEPT !.pc = "delete", !.job = j]
                /\ UNCHANGED <<verdict, text, notes, asked, auditor, spent, rerun, excused, mishaps>>

\* The drain is done with row j.
DrainNext(j) == LET todo == drain.todo \ {j} IN
    drain' = [pc |-> IF todo = {} THEN "off" ELSE "send", job |-> NoAudit, todo |-> todo]

DrainDelete == /\ drain.pc = "delete"
               /\ DrainNext(drain.job)
               /\ rerun' = rerun \ {drain.job}
               /\ UNCHANGED <<verdict, text, notes, asked, inbox, auditor, spent, excused, mishaps>>

\* The delay or the delete fails: the row stays for a later drain.
DrainSkips(j) == /\ \/ drain.pc = "send" /\ j \in drain.todo
                    \/ drain.pc = "delete" /\ j = drain.job
                 /\ Mishap("broker")
                 /\ DrainNext(j)
                 /\ UNCHANGED <<verdict, text, notes, asked, inbox, auditor, spent, rerun, excused>>

DrainDies == /\ drain.pc # "off"
             /\ Mishap("crash")
             /\ drain' = [pc |-> "off", job |-> NoAudit, todo |-> {}]
             /\ UNCHANGED <<verdict, text, notes, asked, inbox, auditor, spent, rerun, excused>>

\* A worker takes a message; an API thread serves audit:rerun.
Take(w, t) == /\ Doing(w, "idle")
              /\ inbox[t] # FreeRequest
              /\ ~Taken(t)
              /\ auditor' = [auditor EXCEPT ![w] = [IdleAuditor EXCEPT
                     !.tag = t, !.job = inbox[t].job, !.kind = inbox[t].kind, !.pc = "gate"]]
              /\ UNCHANGED <<verdict, text, notes, asked, inbox, spent, rerun, drain, excused, mishaps>>

Rerun(w, j) == /\ w \in Callers
               /\ Doing(w, "idle")
               /\ auditor' = [auditor EXCEPT ![w] = [IdleAuditor EXCEPT !.job = j, !.pc = "gate"]]
               /\ UNCHANGED <<verdict, text, notes, asked, inbox, spent, rerun, drain, excused, mishaps>>
-----------------------------------------------------------------------------
(* run_customer_audit and ocr_job_async. *)

\* The feature and quota gates; a forced audit passes both.
Gate(w) ==
    LET shut == ~Forced(w) /\ (auditor[w].job \in Locked \/ OverQuota) IN
    /\ Doing(w, "gate")
    /\ \/ /\ shut
          /\ Step(w, "look")
          /\ Excuse(w)
       \/ /\ ~shut
          /\ Step(w, "unit")
          /\ UNCHANGED excused
    /\ UNCHANGED <<verdict, text, notes, asked, inbox, spent, rerun, drain, mishaps>>

\* Mutant: the note is added without a look.
LookBlindly(w) == /\ Doing(w, "look")
                  /\ Step(w, "insert")
                  /\ UNCHANGED <<verdict, text, notes, asked, inbox, spent, rerun, drain, excused, mishaps>>

\* _emit_quota_exceeded and _emit_feature_locked: look for the finding, then add it.
Look(w) == /\ Doing(w, "look")
           /\ Step(w, IF notes[NoteOf(w)] > 0 THEN "ack" ELSE "insert")
           /\ UNCHANGED <<verdict, text, notes, asked, inbox, spent, rerun, drain, excused, mishaps>>

Insert(w) == /\ Doing(w, "insert")
             /\ notes' = [notes EXCEPT ![NoteOf(w)] = @ + 1]
             /\ Finish(w)
             /\ UNCHANGED <<verdict, text, asked, inbox, spent, rerun, drain, excused, mishaps>>

\* Mutant: the comparison is off by one.
CheckCapLoosely(w) ==
    /\ Doing(w, "unit")
    /\ \/ /\ spent <= Cap
          /\ Step(w, "call")
          /\ UNCHANGED excused
       \/ /\ spent > Cap
          /\ NextUnit(w, auditor[w].got)
          /\ Excuse(w)
    /\ UNCHANGED <<verdict, text, notes, asked, inbox, spent, rerun, drain, mishaps>>

\* check_cap_or_raise, with nothing projected; the exception only skips the unit.
CheckCap(w) ==
    /\ Doing(w, "unit")
    /\ \/ /\ spent < Cap
          /\ Step(w, "call")
          /\ UNCHANGED excused
       \/ /\ spent >= Cap
          /\ NextUnit(w, auditor[w].got)
          /\ Excuse(w)
    /\ UNCHANGED <<verdict, text, notes, asked, inbox, spent, rerun, drain, mishaps>>

\* A quota or a cap that cannot be looked up lets the work through.
FailsOpen(w) == /\ \/ Doing(w, "gate") /\ auditor[w].job \notin Locked
                   \/ Doing(w, "unit")
                /\ Mishap("db")
                /\ Step(w, IF Doing(w, "gate") THEN "unit" ELSE "call")
                /\ UNCHANGED <<verdict, text, notes, asked, inbox, spent, rerun, drain, excused>>

\* messages.create raises: the loop logs that and leaves the unit out.
CallFails(w) == /\ Doing(w, "call")
                /\ NextUnit(w, auditor[w].got)
                /\ Excuse(w)
                /\ UNCHANGED <<verdict, text, notes, asked, inbox, spent, rerun, drain, mishaps>>

\* It answers, and record_usage charges the call in a session of its own.
CallAnswers(w) == /\ Doing(w, "call")
                  /\ spent' = spent + 1
                  /\ NextUnit(w, auditor[w].got \union {auditor[w].unit})
                  /\ UNCHANGED <<verdict, text, notes, asked, inbox, rerun, drain, excused, mishaps>>

\* A usage row that cannot be written makes the call free.
ChargeFails(w) == /\ Doing(w, "call")
                  /\ Mishap("db")
                  /\ NextUnit(w, auditor[w].got \union {auditor[w].unit})
                  /\ UNCHANGED <<verdict, text, notes, asked, inbox, spent, rerun, drain, excused>>

\* The verdicts that came, or the whole text layer, replace what was there.
Commit(w) ==
    LET j == auditor[w].job
        got == auditor[w].got IN
    /\ Doing(w, "commit")
    /\ \/ /\ auditor[w].kind = "audit"
          /\ verdict' = [verdict EXCEPT ![j] = [u \in 1 .. Units |->
                            IF u \in got THEN "answered" ELSE verdict[j][u]]]
          /\ UNCHANGED text
       \/ /\ auditor[w].kind = "ocr"
          /\ text' = [text EXCEPT ![j] = got]
          /\ UNCHANGED verdict
    /\ Finish(w)
    /\ UNCHANGED <<notes, asked, inbox, spent, rerun, drain, excused, mishaps>>

\* _emit_quota_exceeded and _emit_feature_locked swallow their own failures.
InsertFails(w) == /\ Doing(w, "look") \/ Doing(w, "insert")
                  /\ Mishap("db")
                  /\ Finish(w)
                  /\ UNCHANGED <<verdict, text, notes, asked, inbox, spent, rerun, drain, excused>>
-----------------------------------------------------------------------------
(* The storage or the database fails: except Exception, retry for 24 hours. *)

PassRaises(w) == auditor[w].pc \in {"gate", "commit"} /\ "error" \in AuditFaults

\* Mutant: the exception is logged and the task ends.
EndQuietly(w) == /\ PassRaises(w)
                 /\ Finish(w)
                 /\ UNCHANGED <<verdict, text, notes, asked, inbox, spent, rerun, drain, excused, mishaps>>

\* Mutant: the retry forgets first_attempt_at_iso.
RetryAfresh(w) ==
    LET t == auditor[w].tag IN
    /\ PassRaises(w)
    /\ ~Forced(w)
    /\ inbox[t].first # "old"
    /\ inbox' = [inbox EXCEPT ![t].first = "unset"]
    /\ Rest(w)
    /\ UNCHANGED <<verdict, text, notes, asked, spent, rerun, drain, excused, mishaps>>

\* self.retry with first_attempt_at_iso in its kwargs.
RetryLater(w) ==
    LET t == auditor[w].tag IN
    /\ PassRaises(w)
    /\ ~Forced(w)
    /\ inbox[t].first # "old"
    /\ inbox' = [inbox EXCEPT ![t].first = "set"]
    /\ Rest(w)
    /\ UNCHANGED <<verdict, text, notes, asked, spent, rerun, drain, excused, mishaps>>

\* After 24 hours the audit marks what has no verdict, and the OCR just ends.
StopTrying(w) ==
    /\ PassRaises(w)
    /\ ~Forced(w)
    /\ inbox[auditor[w].tag].first = "old"
    /\ \/ /\ auditor[w].kind = "audit"
          /\ Step(w, "mark")
          /\ UNCHANGED excused
       \/ /\ auditor[w].kind = "ocr"
          /\ Finish(w)
          /\ Excuse(w)
    /\ UNCHANGED <<verdict, text, notes, asked, inbox, spent, rerun, drain, mishaps>>

\* The endpoint answers 502.
RerunFails(w) == /\ PassRaises(w)
                 /\ Forced(w)
                 /\ Rest(w)
                 /\ UNCHANGED <<verdict, text, notes, asked, inbox, spent, rerun, drain, excused, mishaps>>

\* _mark_pending_retry loads the rows without a verdict ...
MarkLoad(w) ==
    LET silent == {u \in 1 .. Units : verdict[auditor[w].job][u] = "none"} IN
    /\ Doing(w, "mark")
    /\ auditor' = [auditor EXCEPT ![w] = [@ EXCEPT
           !.pc = IF silent = {} THEN "ack" ELSE "marking", !.got = silent]]
    /\ UNCHANGED <<verdict, text, notes, asked, inbox, spent, rerun, drain, excused, mishaps>>

\* ... and writes them, whatever they hold by now.
MarkCommit(w) ==
    LET j == auditor[w].job IN
    /\ Doing(w, "marking")
    /\ verdict' = [verdict EXCEPT ![j] = [u \in 1 .. Units |->
                      IF u \in auditor[w].got THEN "pending_retry" ELSE verdict[j][u]]]
    /\ Finish(w)
    /\ UNCHANGED <<text, notes, asked, inbox, spent, rerun, drain, excused, mishaps>>

\* The job cannot be looked up before the try block, the retry cannot be published,
\* or the marking fails: the task ends with an exception, and Celery acks it.
HandlerFails(w) == /\ \/ PassRaises(w) /\ ~Forced(w)
                      \/ auditor[w].pc \in {"mark", "marking"}
                   /\ Mishap("broker")
                   /\ Finish(w)
                   /\ Excuse(w)
                   /\ UNCHANGED <<verdict, text, notes, asked, inbox, spent, rerun, drain>>

FinishPass(w) ==
    /\ Doing(w, "ack")
    /\ inbox' = [t \in AuditTags |-> IF t = auditor[w].tag THEN FreeRequest ELSE inbox[t]]
    /\ Rest(w)
    /\ UNCHANGED <<verdict, text, notes, asked, spent, rerun, drain, excused, mishaps>>

\* The process dies: a task's message is delivered again, an API call is gone.
Dies(w) == /\ ~Doing(w, "idle")
           /\ Mishap("crash")
           /\ Rest(w)
           /\ UNCHANGED <<verdict, text, notes, asked, inbox, spent, rerun, drain, excused>>

\* The hard time limit kills the process, and the task is acked all the same.
IsCut(w) == /\ ~Doing(w, "idle")
            /\ ~Forced(w)
            /\ Mishap("hard")
            /\ Finish(w)
            /\ Excuse(w)
            /\ UNCHANGED <<verdict, text, notes, asked, inbox, spent, rerun, drain>>

\* 24 hours have passed since the first attempt.
DayPasses(t) == /\ inbox[t].first = "set"
                /\ inbox' = [inbox EXCEPT ![t].first = "old"]
                /\ UNCHANGED <<verdict, text, notes, asked, auditor, spent, rerun, drain, excused, mishaps>>
-----------------------------------------------------------------------------
PassStep(w) == \/ Gate(w) \/ Look(w) \/ Insert(w) \/ CheckCap(w)
               \/ CallAnswers(w) \/ CallFails(w) \/ Commit(w)
               \/ MarkLoad(w) \/ MarkCommit(w) \/ FinishPass(w)

\* Ways out of the try block: to the except clause, or out of the process.
PassException(w) == RetryLater(w) \/ StopTrying(w) \/ RerunFails(w) \/ HandlerFails(w)

PassFault(w) == FailsOpen(w) \/ ChargeFails(w) \/ InsertFails(w) \/ Dies(w) \/ IsCut(w)

DrainStep == DrainScan \/ DrainDelete \/ \E j \in Audited : DrainSend(j)

AuditNext == \/ \E j \in Audited, k \in Kinds : Ask(j, k)
             \/ DrainStep
             \/ \E j \in Audited : DrainSkips(j)
             \/ DrainDies
             \/ \E w \in Auditors, t \in AuditTags : Take(w, t)
             \/ \E w \in Auditors, j \in Audited : Rerun(w, j)
             \/ \E w \in Auditors : PassStep(w) \/ PassException(w) \/ PassFault(w)
             \/ \E t \in AuditTags : DayPasses(t)

AuditSpec == AuditInit /\ [][AuditNext]_auditVars

\* Whoever has taken a pass goes on with it, a queued pass is taken, and days pass.
PassFairness == /\ \A w \in Auditors : WF_auditVars(PassStep(w))
                /\ \A t \in AuditTags : /\ WF_auditVars(\E w \in Auditors : Take(w, t))
                                        /\ WF_auditVars(DayPasses(t))

\* Beat starts the drain again and again.
AuditFairSpec == AuditSpec /\ PassFairness /\ WF_auditVars(DrainStep)
-----------------------------------------------------------------------------
AuditTypeOK ==
    /\ verdict \in [Audited -> [1 .. Units -> {"none", "answered", "pending_retry"}]]
    /\ text \in [Audited -> SUBSET (1 .. Units)]
    /\ notes \in [Audited \X Subjects -> Nat]
    /\ asked \subseteq Pass
    /\ inbox \in [AuditTags -> Request]
    /\ auditor \in [Auditors -> AuditSlot]
    /\ spent \in Nat
    /\ rerun \subseteq Audited
    /\ drain \in [pc : {"off", "send", "delete"}, job : Audited \union {NoAudit},
                  todo : SUBSET Audited]
    /\ excused \subseteq Pass
    /\ mishaps \in 0 .. MaxAuditFaults

\* The cost cap is read before a call and charged after it, in two sessions.  All
\* slots may pass the check together, and a check that fails lets a call through: that
\* is the most the tenant can overspend (check_cap_or_raise, record_usage).
OverspendIsBounded == spent <= Cap - 1 + Cardinality(Auditors) + mishaps

\* The gate's finding is looked for and added in two steps, so the audit and the OCR
\* of a job can both add it, and a crash repeats them; never more often than there
\* are slots (_emit_quota_exceeded, _emit_feature_locked).
NotesAreBounded == \A n \in Audited \X Subjects : notes[n] <= Cardinality(Auditors)

\* The pass is over: neither queued nor to be drained.
Over(j, k) == /\ \A t \in AuditTags : <<inbox[t].job, inbox[t].kind>> # <<j, k>>
              /\ k = "audit" => j \notin rerun

\* A pass that was requested and is over has settled every unit, unless a call
\* failed or a gate or the handler gave a reason: no exception, crash, 24-hour
\* ceiling or drain loses one silently.
NoPassIsDropped ==
    \A j \in Audited, k \in Kinds :
        <<j, k>> \in asked /\ Over(j, k) /\ <<j, k>> \notin excused
            => IF k = "audit" THEN \A u \in 1 .. Units : verdict[j][u] # "none"
                              ELSE text[j] = 1 .. Units

\* Every pass that is queued comes to an end, however often its attempts fail: the
\* retries stop a day after the first attempt, whichever worker makes them, and the
\* drain deletes what it has sent (audit_findings_async, ocr_job_async,
\* _drain_rerun_queue).
PassEnds == \A j \in Audited, k \in Kinds :
    (\E t \in AuditTags : inbox[t].job = j /\ inbox[t].kind = k) ~> Over(j, k)

\* "After 24 h every finding still without a verdict gets audit_status='pending_retry'"
\* (audit_tasks.py:12), "on API failure the caller schedules a Celery retry"
\* (tasks.py:20): no audit task ends with findings that have no status.
EndedAuditHasStatus ==
    [][\A t \in AuditTags : inbox[t].kind = "audit" /\ inbox[t] # FreeRequest /\ inbox'[t] = FreeRequest
           => \A u \in 1 .. Units : verdict[inbox[t].job][u] # "none"]_auditVars
=============================================================================
