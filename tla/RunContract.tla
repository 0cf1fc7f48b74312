----------------------------- MODULE RunContract -----------------------------
(***************************************************************************)
(* What a client may rely on about one corpus run: its row, the last event *)
(* about it, and whether the broker still has its task.                    *)
(*                                                                         *)
(* A finished run may be executed again, and its certificate then outlives *)
(* a later failure; but a verdict is only given by an attempt that was     *)
(* under way, a run that has ended is not turned into an ERROR by a late   *)
(* exception, an event repeats the status of its time, and nothing moves   *)
(* once the task has left the broker, which it does with an announcement,  *)
(* after the last retry, or by force.                                      *)
(***************************************************************************)
EXTENDS Naturals

CONSTANT Retries

VARIABLES
    task,    \* where the task is: none, queued, held, over, or cut by force
    tries,   \* retries so far
    status, passes, fails, cert,  \* the row
    event    \* the last event

vars == <<task, tries, status, passes, fails, cert, event>>

Ended == {"passed", "failed", "error"}
EventFor(s) == IF s = "error" THEN "failed" ELSE "completed"

Init == /\ task = "none" /\ tries = 0
        /\ status = "new" /\ passes = 0 /\ fails = 0 /\ cert = 0
        /\ event = "none"

\* The row is committed before its task is enqueued, if it ever is.
Create == /\ status = "new"
          /\ status' = "pending"
          /\ task' \in {"queued", task}
          /\ UNCHANGED <<tries, passes, fails, cert, event>>

\* What the broker does with the task while it is at from.
Pass(from, to) == /\ task = from
                  /\ task' = to
                  /\ UNCHANGED <<tries, status, passes, fails, cert, event>>

Retry == /\ task = "held"
         /\ tries < Retries
         /\ task' = "queued"
         /\ tries' = tries + 1
         /\ UNCHANGED <<status, passes, fails, cert, event>>

GiveUp == tries = Retries /\ Pass("held", "over")

Begin == /\ task = "held"
         /\ status # "new"
         /\ status' = "processing"
         /\ UNCHANGED <<task, tries, passes, fails, cert, event>>

\* Counts, status and certificate are one commit.
Decide == /\ task = "held"
          /\ status = "processing"
          /\ passes' \in Nat
          /\ fails' \in Nat
          /\ status' = IF fails' = 0 THEN "passed" ELSE "failed"
          /\ cert' = IF fails' = 0 /\ passes' > 0 THEN 1 ELSE cert
          /\ UNCHANGED <<task, tries, event>>

\* What has a verdict keeps it.
Abort == /\ task = "held"
         /\ status \in {"pending", "processing"}
         /\ status' = "error"
         /\ event' \in {event, "failed"}
         /\ UNCHANGED <<task, tries, passes, fails, cert>>

Announce == /\ task = "held"
            /\ status \in Ended
            /\ event' = EventFor(status)
            /\ task' \in {"held", "over"}
            /\ UNCHANGED <<tries, status, passes, fails, cert>>

Next == \/ Create \/ Begin \/ Decide \/ Abort \/ Announce \/ Retry \/ GiveUp
        \/ Pass("queued", "held") \/ Pass("held", "queued") \/ Pass("held", "cut")

Spec == Init /\ [][Next]_vars
=============================================================================
