--------------------------- MODULE MCPreflightJob ---------------------------
(* Instances of PreflightJob for TLC. *)
EXTENDS PreflightJob, TLC

CONSTANTS j1, j2, w1, w2

\* One job of each path: the engine's, and an import that skips the AI tasks.
MCSource == [j \in Jobs |-> IF j = j1 THEN "engine" ELSE "external"]

Slots == Permutations(Workers)
=============================================================================
