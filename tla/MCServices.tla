----------------------------- MODULE MCServices -----------------------------
(***************************************************************************)
(* Instances of AiAudit and CorpusRun for TLC.  The two share nothing, so  *)
(* a behaviour shows one of them and leaves the other in its initial       *)
(* state: part says which.                                                 *)
(***************************************************************************)
EXTENDS AiAudit, CorpusRun, TLC

CONSTANTS a1, b1, b2, r1, r2, f1, f2, x1, x2, o1, o2

VARIABLE part

\* r1 runs every assay, r2 only f1.
MCMembers == [r \in Runs |-> IF r = r1 THEN Assays ELSE {f1}]

\* Executors, and what only tells one from another: tags, and what the engine finds.
ServicesSymmetry == Permutations(Executors) \union Permutations(Outputs)

ServicesInit == AuditInit /\ CorpusInit /\ part \in {"audit", "corpus"}

ServicesNext == \/ part = "audit" /\ AuditNext /\ UNCHANGED <<corpusVars, part>>
                \/ part = "corpus" /\ CorpusNext /\ UNCHANGED <<auditVars, part>>

ServicesSpec == ServicesInit /\ [][ServicesNext]_<<auditVars, corpusVars, part>>
=============================================================================
