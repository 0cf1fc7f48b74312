------------------------------ MODULE CorpusRun ------------------------------
(***************************************************************************)
(* Corpus runs: golden-master tests of a profile.  create_run inserts a    *)
(* run with a row per assay and enqueues execute_corpus_run, which runs    *)
(* the engine over every assay, compares what it finds with the assay's    *)
(* baseline, or makes it the baseline if there is none, and ends the run   *)
(* with a verdict, a certificate and a webhook event.  Clients patch       *)
(* baselines and delete assays at any time, and runs share assays.         *)
(*                                                                         *)
(* What a session has loaded matters: the baseline is read before the      *)
(* engine runs and written after it, and a flush that meets a deleted row  *)
(* raises and leaves a session that refuses every query.                   *)
(*                                                                         *)
(* The publish of a retry and the ack of the attempt are one step here;    *)
(* PreflightJob has them apart.                                            *)
(***************************************************************************)
EXTENDS Integers, FiniteSets

CONSTANTS
    Runs,        \* corpus runs
    Assays,      \* assays of the tenant
    Members,     \* Members[r]: the assays a run is created with
    Executors,   \* task slots
    NoRun,       \* the run of an idle slot
    NoAssay,     \* the assay of a slot between two assays
    Outputs,     \* what the engine may find in a PDF
    Unset,       \* a baseline that is NULL
    Gone,        \* the baseline of a deleted assay
    RunRetries,  \* max_retries of the task
    RunFaults,   \* which faults may occur
    MaxRunFaults,
    MaxEdits     \* bound on the edits and deletions of assays

ASSUME CorpusSetsAssumption ==
    /\ IsFiniteSet(Executors) /\ IsFiniteSet(Assays)
    /\ Members \in [Runs -> SUBSET Assays]
    /\ NoRun \notin Runs /\ NoAssay \notin Assays
    /\ Unset \notin Outputs /\ Gone \notin Outputs \union {Unset}
ASSUME CorpusBoundAssumption ==
    RunRetries \in Nat /\ MaxRunFaults \in Nat /\ MaxEdits \in Nat

VARIABLES
    baseline,  \* baseline[a]: expected_findings_json of an assay
    run,       \* run[r]: the row of a run, and the last event about it
    member,    \* member[r][a]: the row of an assay in a run
    mail,      \* mail[r]: the task's message and its retry count
    exec,      \* exec[x]: what a slot is executing, and what its session has loaded
    boots,     \* boots[a]: baselines written by runs since a client last chose one
    edits,     \* edits and deletions so far
    stray      \* faults so far

corpusVars == <<baseline, run, member, mail, exec, boots, edits, stray>>
-----------------------------------------------------------------------------
Ended == {"passed", "failed", "error"}
RunRow == [status : {"new", "pending", "processing"} \union Ended,
           passes : Nat, fails : Nat, cert : 0 .. 1,
           event : {"none", "completed", "failed"}]
Verdict == {"passed", "failed", "error"}
MemberRow == Verdict \union {"none", "pending", "gone"}
Mail == [at : {"none", "queued", "held", "cut", "over"}, retries : 0 .. RunRetries]

ExecSteps == {"start", "load", "next", "judge", "event", "handler", "retry"}
ExecSlot == [run : Runs \union {NoRun}, pc : ExecSteps \union {"idle"},
             left : SUBSET Assays, now : Assays \union {NoAssay},
             base : Outputs \union {Unset}, was : MemberRow, passes : Nat, fails : Nat]

IdleExec == [run |-> NoRun, pc |-> "idle", left |-> {}, now |-> NoAssay,
             base |-> Unset, was |-> "none", passes |-> 0, fails |-> 0]
NewRun == [status |-> "new", passes |-> 0, fails |-> 0, cert |-> 0, event |-> "none"]

In(x, p) == exec[x].pc = p
RunOf(x) == exec[x].run
Here(r) == {a \in Assays : member[r][a] \notin {"none", "gone"}}

\* The task goes on at p.
To(x, p) == exec' = [exec EXCEPT ![x].pc = p]

Stray(kind) == /\ kind \in RunFaults
               /\ stray < MaxRunFaults
               /\ stray' = stray + 1

CorpusInit ==
    /\ baseline = [a \in Assays |-> Unset]
    /\ run = [r \in Runs |-> NewRun]
    /\ member = [r \in Runs |-> [a \in Assays |-> "none"]]
    /\ mail = [r \in Runs |-> [at |-> "none", retries |-> 0]]
    /\ exec = [x \in Executors |-> IdleExec]
    /\ boots = [a \in Assays |-> 0]
    /\ edits = 0
    /\ stray = 0
-----------------------------------------------------------------------------
(* The API. *)

\* create_run: an unknown assay is a 404; the rows are committed, and then the task is
\* enqueued, unless the broker is down or the process dies: the run stays pending.
CreateRun(r) == /\ run[r].status = "new"
                /\ \A a \in Members[r] : baseline[a] # Gone
                /\ run' = [run EXCEPT ![r].status = "pending"]
                /\ member' = [member EXCEPT ![r] =
                       [a \in Assays |-> IF a \in Members[r] THEN "pending" ELSE "none"]]
                /\ mail' = [mail EXCEPT ![r].at = "queued"] \/ UNCHANGED mail
                /\ UNCHANGED <<baseline, exec, boots, edits, stray>>

\* update_assay_expectations: a baseline, or NULL to derive it again.
PatchExpectations(a, b) == /\ baseline[a] # Gone
                           /\ edits < MaxEdits
                           /\ edits' = edits + 1
                           /\ baseline' = [baseline EXCEPT ![a] = b]
                           /\ boots' = [boots EXCEPT ![a] = 0]
                           /\ UNCHANGED <<run, member, mail, exec, stray>>

\* delete_assay: the cascade takes the assay's rows in every run with it.
DeleteAssay(a) == /\ baseline[a] # Gone
                  /\ edits < MaxEdits
                  /\ edits' = edits + 1
                  /\ baseline' = [baseline EXCEPT ![a] = Gone]
                  /\ member' = [r \in Runs |-> [member[r] EXCEPT ![a] =
                         IF @ = "none" THEN @ ELSE "gone"]]
                  /\ UNCHANGED <<run, mail, exec, boots, stray>>
-----------------------------------------------------------------------------
(* execute_run. *)

Receive(x, r) == /\ In(x, "idle")
                 /\ mail[r].at = "queued"
                 /\ mail' = [mail EXCEPT ![r].at = "held"]
                 /\ exec' = [exec EXCEPT ![x] = [IdleExec EXCEPT !.run = r, !.pc = "start"]]
                 /\ UNCHANGED <<baseline, run, member, boots, edits, stray>>

\* PROCESSING, whatever the status was: a finished run is executed again.
StartRun(x) == /\ In(x, "start")
               /\ run' = [run EXCEPT ![RunOf(x)].status = "processing"]
               /\ To(x, "load")
               /\ UNCHANGED <<baseline, member, mail, boots, edits, stray>>

\* The assays of the run; a profile that is not found ends it in ERROR.
LoadRun(x) ==
    LET r == RunOf(x) IN
    /\ In(x, "load")
    /\ \/ /\ exec' = [exec EXCEPT ![x].pc = "next", ![x].left = Here(r)]
          /\ UNCHANGED run
       \/ /\ run' = [run EXCEPT ![r].status = "error"]
          /\ To(x, "event")
    /\ UNCHANGED <<baseline, member, mail, boots, edits, stray>>

\* The next assay is loaded, with its baseline; a deleted one raises.
NextAssay(x) ==
    /\ In(x, "next")
    /\ \E a \in exec[x].left :
          \/ /\ baseline[a] = Gone
             /\ To(x, "handler")
          \/ /\ baseline[a] # Gone
             /\ exec' = [exec EXCEPT ![x].pc = "judge", ![x].left = @ \ {a}, ![x].now = a,
                                     ![x].base = baseline[a], ![x].was = member[RunOf(x)][a]]
    /\ UNCHANGED <<baseline, run, member, mail, boots, edits, stray>>

\* Mutant: an assay that could not be judged is not counted as failed.
JudgedLenient(x, v) == exec' = [exec EXCEPT ![x].pc = "next", ![x].now = NoAssay,
                                            ![x].base = Unset, ![x].was = "none",
                                            ![x].passes = IF v = "passed" THEN @ + 1 ELSE @,
                                            ![x].fails = IF v = "failed" THEN @ + 1 ELSE @]

\* The assay has the verdict v, and the loop goes on.
Judged(x, v) == exec' = [exec EXCEPT ![x].pc = "next", ![x].now = NoAssay, ![x].base = Unset,
                                     ![x].was = "none",
                                     ![x].passes = IF v = "passed" THEN @ + 1 ELSE @,
                                     ![x].fails = IF v = "passed" THEN @ ELSE @ + 1]

\* The commit of a verdict.  One that finds no row to update raises, and leaves the
\* handler a session of no use; an UPDATE that changes nothing is not sent.
CommitVerdict(x, v) ==
    LET r == RunOf(x)
        a == exec[x].now IN
    \/ /\ member[r][a] # "gone"
       /\ member' = [member EXCEPT ![r][a] = v]
       /\ Judged(x, v)
    \/ /\ member[r][a] = "gone"
       /\ exec[x].was = v
       /\ Judged(x, v)
       /\ UNCHANGED member
    \/ /\ member[r][a] = "gone"
       /\ To(x, "retry")
       /\ UNCHANGED member

\* The download or the engine fails, a soft time limit included.
JudgeError(x) == /\ In(x, "judge")
                 /\ CommitVerdict(x, "error")
                 /\ UNCHANGED <<baseline, run, mail, boots, edits, stray>>

\* _diff_findings: the engine's output o against the baseline that was loaded.
JudgeDiff(x, o) == /\ In(x, "judge")
                   /\ exec[x].base # Unset
                   /\ CommitVerdict(x, IF exec[x].base = o THEN "passed" ELSE "failed")
                   /\ UNCHANGED <<baseline, run, mail, boots, edits, stray>>

\* Mutant: every run writes its output back.
BootstrapAlways(x, o) ==
    LET a == exec[x].now IN
    /\ In(x, "judge")
    /\ baseline[a] # Gone
    /\ baseline' = [baseline EXCEPT ![a] = o]
    /\ boots' = [boots EXCEPT ![a] = @ + 1]
    /\ member' = [member EXCEPT ![RunOf(x)][a] = "passed"]
    /\ Judged(x, "passed")
    /\ UNCHANGED <<run, mail, edits, stray>>

\* Without one the output becomes the baseline, whatever is there by now.
Bootstrap(x, o) ==
    LET a == exec[x].now IN
    /\ In(x, "judge")
    /\ exec[x].base = Unset
    /\ IF baseline[a] # Gone
       THEN /\ baseline' = [baseline EXCEPT ![a] = o]
            /\ boots' = [boots EXCEPT ![a] = @ + 1]
            /\ member' = [member EXCEPT ![RunOf(x)][a] = "passed"]
            /\ Judged(x, "passed")
       ELSE /\ To(x, "retry")
            /\ UNCHANGED <<baseline, boots, member>>
    /\ UNCHANGED <<run, mail, edits, stray>>

\* No assay is left: counts, verdict and certificate are one commit.  A certificate
\* needs an assay.
FinalizeRun(x) ==
    LET r == RunOf(x)
        clean == exec[x].fails = 0 IN
    /\ In(x, "next")
    /\ exec[x].left = {}
    /\ run' = [run EXCEPT ![r] =
           [run[r] EXCEPT !.passes = exec[x].passes, !.fails = exec[x].fails,
                          !.status = IF clean THEN "passed" ELSE "failed",
                          !.cert = IF clean /\ exec[x].passes > 0 THEN 1 ELSE run[r].cert]]
    /\ To(x, "event")
    /\ UNCHANGED <<baseline, member, mail, boots, edits, stray>>

EventFor(s) == IF s = "error" THEN "failed" ELSE "completed"

EmitRunEvent(x) ==
    LET r == RunOf(x) IN
    /\ In(x, "event")
    /\ run' = [run EXCEPT ![r].event = EventFor(run[r].status)]
    /\ mail' = [mail EXCEPT ![r].at = "over"]
    /\ exec' = [exec EXCEPT ![x] = IdleExec]
    /\ UNCHANGED <<baseline, member, boots, edits, stray>>
-----------------------------------------------------------------------------
(* except Exception: ERROR unless the run has ended, and another attempt. *)

\* Mutant: a run that has ended is marked all the same.
HandleErrorAlways(x) ==
    /\ In(x, "handler")
    /\ run' = [run EXCEPT ![RunOf(x)].status = "error", ![RunOf(x)].event = "failed"]
    /\ To(x, "retry")
    /\ UNCHANGED <<baseline, member, mail, boots, edits, stray>>

HandleError(x) ==
    LET r == RunOf(x) IN
    /\ In(x, "handler")
    /\ run' = IF run[r].status \in Ended THEN run
              ELSE [run EXCEPT ![r].status = "error", ![r].event = "failed"]
    /\ To(x, "retry")
    /\ UNCHANGED <<baseline, member, mail, boots, edits, stray>>

\* The attempt is over, and mail says what becomes of its message.
EndAttempt(x, m) == /\ mail' = [mail EXCEPT ![RunOf(x)] = m]
                    /\ exec' = [exec EXCEPT ![x] = IdleExec]
                    /\ UNCHANGED <<baseline, run, member, boots, edits>>

\* Mutant: the handler does not raise.
RetryNever(x) == /\ In(x, "retry")
                 /\ EndAttempt(x, [mail[RunOf(x)] EXCEPT !.at = "over"])
                 /\ UNCHANGED stray

RetryRun(x) == LET n == mail[RunOf(x)].retries IN
               /\ In(x, "retry")
               /\ n < RunRetries
               /\ EndAttempt(x, [at |-> "queued", retries |-> n + 1])
               /\ UNCHANGED stray

GiveUpRun(x) == LET n == mail[RunOf(x)].retries IN
                /\ In(x, "retry")
                /\ n >= RunRetries
                /\ EndAttempt(x, [at |-> "over", retries |-> n])
                /\ UNCHANGED stray
-----------------------------------------------------------------------------
(* Faults of an attempt. *)

\* An exception between the steps.  At the end of the loop the session may hold a
\* verdict that is not committed, and the handler then takes the run for ended.
RunRaises(x) == /\ exec[x].pc \in {"start", "load", "next", "judge", "event"}
                /\ Stray("error")
                /\ \/ To(x, "handler")
                   \/ In(x, "next") /\ exec[x].left = {} /\ To(x, "retry")
                /\ UNCHANGED <<baseline, run, member, mail, boots, edits>>

\* A commit fails; a flush that failed leaves a session of no use to the handler.
\* The dispatch of an event does not wait for its commit.
CorpusCommitFails(x) ==
    /\ \/ exec[x].pc \in {"start", "load", "judge", "event"}
       \/ In(x, "next") /\ exec[x].left = {}
    /\ Stray("db")
    /\ To(x, "handler") \/ To(x, "retry")
    /\ \/ UNCHANGED run
       \/ /\ In(x, "event")
          /\ run' = [run EXCEPT ![RunOf(x)].event = EventFor(run[RunOf(x)].status)]
    /\ UNCHANGED <<baseline, member, mail, boots, edits>>

\* The handler cannot mark the run, or marks it and cannot commit its event.
HandlerFailsToo(x) ==
    LET r == RunOf(x) IN
    /\ In(x, "handler")
    /\ Stray("db")
    /\ \/ UNCHANGED run
       \/ /\ run[r].status \notin Ended
          /\ run' = [run EXCEPT ![r].status = "error"]
    /\ To(x, "retry")
    /\ UNCHANGED <<baseline, member, mail, boots, edits>>

\* Mutant: the message was acked when it was received.
ExecutorIsLost(x) == /\ ~In(x, "idle")
                     /\ Stray("crash")
                     /\ EndAttempt(x, [mail[RunOf(x)] EXCEPT !.at = "over"])

\* The process dies; acks_late delivers the message again.
ExecutorDies(x) == /\ ~In(x, "idle")
                   /\ Stray("crash")
                   /\ EndAttempt(x, [mail[RunOf(x)] EXCEPT !.at = "queued"])

\* The hard time limit, or a retry that cannot be published: acked, for good.
ExecutorIsCut(x) == /\ \/ ~In(x, "idle") /\ Stray("hard")
                       \/ /\ In(x, "retry")
                          /\ mail[RunOf(x)].retries < RunRetries
                          /\ Stray("broker")
                    /\ EndAttempt(x, [mail[RunOf(x)] EXCEPT !.at = "cut"])
-----------------------------------------------------------------------------
ClientStep == \/ \E r \in Runs : CreateRun(r)
              \/ \E a \in Assays : \/ DeleteAssay(a)
                                   \/ \E b \in Outputs \union {Unset} : PatchExpectations(a, b)

ExecStep(x) == \/ \E r \in Runs : Receive(x, r)
               \/ StartRun(x) \/ LoadRun(x) \/ NextAssay(x)
               \/ JudgeError(x)
               \/ \E o \in Outputs : JudgeDiff(x, o) \/ Bootstrap(x, o)
               \/ FinalizeRun(x) \/ EmitRunEvent(x)
               \/ HandleError(x) \/ RetryRun(x) \/ GiveUpRun(x)

ExecFault(x) == \/ RunRaises(x) \/ CorpusCommitFails(x) \/ HandlerFailsToo(x)
                \/ ExecutorDies(x) \/ ExecutorIsCut(x)

CorpusNext == ClientStep \/ \E x \in Executors : ExecStep(x) \/ ExecFault(x)

CorpusSpec == CorpusInit /\ [][CorpusNext]_corpusVars

\* A slot goes on with the run it has received, and a queued run is received.
RunFairness == /\ \A x \in Executors : WF_corpusVars(~In(x, "idle") /\ ExecStep(x))
               /\ \A r \in Runs : WF_corpusVars(\E x \in Executors : Receive(x, r))

CorpusFairSpec == CorpusSpec /\ RunFairness
-----------------------------------------------------------------------------
CorpusTypeOK ==
    /\ baseline \in [Assays -> Outputs \union {Unset, Gone}]
    /\ run \in [Runs -> RunRow]
    /\ member \in [Runs -> [Assays -> MemberRow]]
    /\ mail \in [Runs -> Mail]
    /\ exec \in [Executors -> ExecSlot]
    /\ boots \in [Assays -> Nat]
    /\ edits \in 0 .. MaxEdits
    /\ stray \in 0 .. MaxRunFaults

\* "A run passes only when every assay passes" (models.py:639): the verdict, its
\* counts and the rows of the assays agree, although each is committed on its own,
\* attempts start over what an earlier one has left, and assays vanish in between.
VerdictMatchesMembers ==
    \A r \in Runs :
        /\ run[r].status = "passed" =>
               /\ run[r].fails = 0
               /\ \A a \in Here(r) : member[r][a] = "passed"
        /\ run[r].status = "failed" =>
               /\ run[r].fails > 0
               /\ \E a \in Assays : member[r][a] \in {"failed", "error", "gone"}
        /\ run[r].status \in {"passed", "failed"} =>
               run[r].passes + run[r].fails >= Cardinality(Here(r))

\* Unless it was acked by force, a run that has left the broker has ended, and the
\* last event about it agrees with its status, as long as there were no more faults
\* and deletions than retries (execute_corpus_run).
EndedRunIsAnnounced ==
    \A r \in Runs :
        /\ mail[r].at = "over"
        /\ stray + Cardinality({a \in Assays : baseline[a] = Gone}) <= RunRetries
        => run[r].status \in Ended /\ run[r].event = EventFor(run[r].status)

Promise(r) == INSTANCE RunContract WITH
    Retries <- RunRetries, task <- mail[r].at, tries <- mail[r].retries,
    status <- run[r].status, passes <- run[r].passes, fails <- run[r].fails,
    cert <- run[r].cert, event <- run[r].event

\* execute_run, its handler and its retries keep what a client may rely on about each
\* run: what a step does to a run is a step of RunContract or does not show.
ImplementsRunContract ==
    /\ \A r \in Runs : Promise(r)!Init
    /\ [][\A r \in Runs : Promise(r)!Next \/ UNCHANGED Promise(r)!vars]_corpusVars

\* A queued run comes to an end, whatever its attempts meet: it is passed, failed or in
\* ERROR when its message is over, unless that was acked by force or more went wrong
\* than there are retries (execute_corpus_run, execute_run).
RunEnds ==
    \A r \in Runs : mail[r].at = "queued" ~>
        \/ mail[r].at = "cut"
        \/ /\ mail[r].at = "over"
           /\ \/ run[r].status \in Ended
              \/ stray + Cardinality({a \in Assays : baseline[a] = Gone}) > RunRetries

\* "The *first* corpus run that includes this assay bootstraps" (models.py:598): runs
\* that bootstrap together overwrite each other's baseline, but once all of them have
\* written it stays, until a client resets it.
BaselineSettles == \A a \in Assays : boots[a] <= Cardinality(Executors)
=============================================================================
