------------------------------- MODULE MCTasks -------------------------------
(***************************************************************************)
(* Instances of PreflightJob, AiAudit and CorpusRun for TLC: what becomes  *)
(* of a task once it is in the broker, under fairness.  The three share    *)
(* nothing, so a behaviour shows one of them and leaves the others in      *)
(* their initial states: part says which.                                  *)
(***************************************************************************)
EXTENDS MCPreflightJob, AiAudit, CorpusRun

CONSTANTS a1, b1, b2, r1, f1, x1, x2, o1

VARIABLE part

\* r1 runs every assay.
MCMembers == [r \in Runs |-> Assays]

TasksInit == Init /\ AuditInit /\ CorpusInit /\ part \in {"job", "audit", "corpus"}

TasksNext == \/ part = "job" /\ Next /\ UNCHANGED <<auditVars, corpusVars, part>>
             \/ part = "audit" /\ AuditNext /\ UNCHANGED <<vars, corpusVars, part>>
             \/ part = "corpus" /\ CorpusNext /\ UNCHANGED <<vars, auditVars, part>>

\* In the initial states of a part that is not shown only the drain could start.
TasksSpec == /\ TasksInit /\ [][TasksNext]_<<vars, auditVars, corpusVars, part>>
             /\ Fairness /\ PassFairness /\ RunFairness
             /\ WF_auditVars(part = "audit" /\ DrainStep)
=============================================================================
