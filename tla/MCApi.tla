-------------------------------- MODULE MCApi --------------------------------
(***************************************************************************)
(* Instances of Intake, PreflightJob and ReportLinks for TLC: what a       *)
(* client of the API meets on the way from a file to its report.  The      *)
(* three share nothing, so a behaviour shows one of them and leaves the    *)
(* others in their initial states: part says which.  w1 and w2 are workers *)
(* here, requests there.                                                   *)
(***************************************************************************)
EXTENDS MCPreflightJob, Intake, ReportLinks

CONSTANTS s1, s2, k1, l1

VARIABLE part

\* The jobs whose reports are linked are interchangeable, and so are the slots.
Swaps == Permutations(Workers) \union Permutations(Shared)

ApiInit == Init /\ IntakeInit /\ LinkInit /\ part \in {"job", "intake", "links"}

ApiNext == \/ part = "job" /\ Next /\ UNCHANGED <<postVars, linkVars, part>>
           \/ part = "intake" /\ IntakeNext /\ UNCHANGED <<vars, linkVars, part>>
           \/ part = "links" /\ LinkNext /\ UNCHANGED <<vars, postVars, part>>

ApiSpec == ApiInit /\ [][ApiNext]_<<vars, postVars, linkVars, part>>
=============================================================================
