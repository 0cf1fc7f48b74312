----------------------------- MODULE LinkContract -----------------------------
(***************************************************************************)
(* What the holder of a share link may rely on, for one token: the row, as *)
(* it is in the table, the reports that were sent since it was inserted,   *)
(* and which rows are being revoked or read by a request under way.        *)
(*                                                                         *)
(* A row keeps its job and its look.  It expires for good, and only a      *)
(* revocation that was asked for this very row removes it: one for an      *)
(* earlier row under the same key does not.  A report is sent to requests  *)
(* that have found this row before it expired.  The hits may be fewer than *)
(* the reports sent, when requests overlap, but never none and never more. *)
(***************************************************************************)
EXTENDS Naturals

VARIABLES
    id, job, look, expired, hits,  \* the row; its id is 0 if there is none
    served,                        \* reports sent since it was inserted
    doomed,                        \* ids of the rows that requests are revoking
    opened                         \* ids of the rows whose report requests are fetching

rowVars == <<id, job, look, expired, hits, served>>
vars == <<rowVars, doomed, opened>>

Init == /\ id = 0 /\ hits = 0 /\ served = 0 /\ expired = FALSE
        /\ doomed = {} /\ opened = {}

\* No request under way means a row that is only now inserted.
Grant == /\ id = 0
         /\ id' # 0 /\ id' \notin doomed \union opened
         /\ expired' = FALSE /\ hits' = 0 /\ served' = 0
         /\ UNCHANGED <<doomed, opened>>

Expire == /\ id # 0
          /\ expired' = TRUE
          /\ UNCHANGED <<id, job, look, hits, served, doomed, opened>>

Open == /\ id # 0 /\ ~expired
        /\ opened' = opened \union {id}
        /\ UNCHANGED <<rowVars, doomed>>

Send == /\ id # 0 /\ id \in opened
        /\ served' = served + 1
        /\ hits' \in 1 .. served + 1
        /\ opened' \in {opened, opened \ {id}}
        /\ UNCHANGED <<id, job, look, expired, doomed>>

Condemn == /\ id # 0
           /\ doomed' = doomed \union {id}
           /\ UNCHANGED <<rowVars, opened>>

Withdraw == /\ id # 0 /\ id \in doomed
            /\ id' = 0
            /\ doomed' \in {doomed, doomed \ {id}}
            /\ UNCHANGED <<served, opened>>

\* A request ends without having done anything to the row.
Close == /\ \/ opened' = opened /\ \E n \in doomed : doomed' = doomed \ {n}
            \/ doomed' = doomed /\ \E n \in opened : opened' = opened \ {n}
         /\ UNCHANGED rowVars

Next == Grant \/ Expire \/ Open \/ Send \/ Condemn \/ Withdraw \/ Close

Spec == Init /\ [][Next]_vars
=============================================================================
