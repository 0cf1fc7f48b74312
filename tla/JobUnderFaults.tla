---------------------------- MODULE JobUnderFaults ----------------------------
(***************************************************************************)
(* What a client may rely on about one preflight job when the broker may   *)
(* hold two messages of it: a worker that dies after it has published a    *)
(* retry and before it acks the failed attempt leaves both.                *)
(*                                                                         *)
(* As long as nothing has gone wrong this is JobContract.  Every incident, *)
(* of whatever job, allows one more commit of the findings, and a row that *)
(* had ended may then be worked on again.  Three things hold throughout:   *)
(* a deleted row stays deleted, nothing is stored or announced for it any  *)
(* more, and every announcement has a commit of its own before it.         *)
(***************************************************************************)
EXTENDS Naturals

VARIABLES status, stored, announced, incidents

vars == <<status, stored, announced, incidents>>

Live == {"pending", "processing"}
Ended == {"complete", "failed"}
Calm == incidents = 0

Init == /\ status = "new"
        /\ stored = 0
        /\ announced = 0
        /\ incidents = 0

Move(from, to) == /\ status \in from
                  /\ status' = to

Accept == /\ Move({"new"}, "pending")
          /\ UNCHANGED <<stored, announced, incidents>>

Start == /\ Move(IF Calm THEN Live ELSE Live \union Ended, "processing")
         /\ UNCHANGED <<stored, announced, incidents>>

\* A session that loaded the status it now writes sends no UPDATE for it.
StoreAgain == /\ stored <= incidents
              /\ stored' = stored + 1
              /\ \E s \in IF Calm THEN Ended ELSE Ended \union {status} :
                     Move(Live \union Ended, s)
              /\ UNCHANGED <<announced, incidents>>

\* By the sweep, by a handler, or by the one of the soft time limit, an incident itself.
Reject == /\ Move(Live \union Ended, "failed")
          /\ incidents' \in {incidents, incidents + 1}
          /\ UNCHANGED <<stored, announced>>

Tell == /\ status \in Live \union Ended
        /\ announced < stored
        /\ announced' = announced + 1
        /\ UNCHANGED <<status, stored, incidents>>

Remove == /\ Move(Live \union Ended, "deleted")
          /\ UNCHANGED <<stored, announced, incidents>>

Incident == /\ incidents' = incidents + 1
            /\ UNCHANGED <<status, stored, announced>>

Next == Accept \/ Start \/ StoreAgain \/ Reject \/ Tell \/ Remove \/ Incident

Spec == Init /\ [][Next]_vars
=============================================================================
