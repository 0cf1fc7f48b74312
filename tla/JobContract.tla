----------------------------- MODULE JobContract -----------------------------
(***************************************************************************)
(* What a client of the API may rely on about a preflight job, whatever    *)
(* happens to the workers: the row's status, how often its findings were   *)
(* committed and how often job.completed was emitted.                      *)
(*                                                                         *)
(* The contract is weaker than a job that ends once.  A terminal row may   *)
(* still change to the other terminal status (a late exception, the reaper *)
(* or a run the reaper did not wait for), but it never goes back to work,  *)
(* findings are stored once, and the announcement follows them.            *)
(***************************************************************************)
EXTENDS Naturals

CONSTANT Jobs

VARIABLES status, stored, announced

vars == <<status, stored, announced>>

Live == {"pending", "processing"}
Ended == {"complete", "failed"}

Init == /\ status = [j \in Jobs |-> "new"]
        /\ stored = [j \in Jobs |-> 0]
        /\ announced = [j \in Jobs |-> 0]

Move(j, from, to) == /\ status[j] \in from
                     /\ status' = [status EXCEPT ![j] = to]

Accept(j) == /\ Move(j, {"new"}, "pending")
             /\ UNCHANGED <<stored, announced>>

Start(j) == /\ Move(j, Live, "processing")
            /\ UNCHANGED <<stored, announced>>

\* The one commit of the findings.  A failing run may take what it had produced
\* along with its FAILED.
StoreOnce(j) == /\ stored[j] = 0
                /\ stored' = [stored EXCEPT ![j] = 1]
                /\ \E s \in Ended : Move(j, Live \union Ended, s)
                /\ UNCHANGED announced

Reject(j) == /\ Move(j, Live \union Ended, "failed")
             /\ UNCHANGED <<stored, announced>>

\* Some jobs at once: the sweep commits all its rows together.
RejectAll(S) == /\ \A j \in S : status[j] \in Live \union Ended
                /\ status' = [j \in Jobs |-> IF j \in S THEN "failed" ELSE status[j]]
                /\ UNCHANGED <<stored, announced>>

Tell(j) == /\ stored[j] = 1
           /\ announced[j] = 0
           /\ announced' = [announced EXCEPT ![j] = 1]
           /\ UNCHANGED <<status, stored>>

Remove(j) == /\ Move(j, Live \union Ended, "deleted")
             /\ UNCHANGED <<stored, announced>>

Next == \/ \E j \in Jobs : \/ Accept(j) \/ Start(j) \/ StoreOnce(j) \/ Reject(j)
                           \/ Tell(j) \/ Remove(j)
        \/ \E S \in SUBSET Jobs : RejectAll(S)

Spec == Init /\ [][Next]_vars
=============================================================================
