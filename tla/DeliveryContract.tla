--------------------------- MODULE DeliveryContract ---------------------------
(***************************************************************************)
(* What the owner of an endpoint may rely on about the delivery of an      *)
(* event to it: when it is posted, and what the audit row says of it.      *)
(*                                                                         *)
(* Delivery is at least once.  An answer closes it, unless the endpoint    *)
(* was unavailable and retries are left; a message that the broker hands   *)
(* out again opens it once more, whatever the answer was and even if the   *)
(* row is dead.  The row may be shown late or never and may be gone before *)
(* the delivery is over, and an attempt may be missing from it, but it     *)
(* never tells what has not happened.                                      *)
(***************************************************************************)
EXTENDS Naturals

CONSTANTS Answers, Ceiling

VARIABLES
    stage,   \* nothing yet, a post is due, an answer has come, or over
    tries,   \* retries so far
    answer,  \* the answer to the last post, "none" while a post is due
    resent,  \* how often the message was handed out again
    shown,   \* whether the owner can see the row
    audit    \* what it says

vars == <<stage, tries, answer, resent, shown, audit>>

Init == /\ stage = "none"
        /\ tries = 0
        /\ answer = "none"
        /\ resent = 0
        /\ shown = "not yet"
        /\ audit = [attempts |-> 0, code |-> "none", dead |-> FALSE]

Send == /\ stage = "none"
        /\ stage' = "due"
        /\ UNCHANGED <<tries, answer, resent, shown, audit>>

\* A dead delivery is posted only if its message came back.
Post == /\ stage = "due"
        /\ audit.dead => resent > 0
        /\ stage' = "answered"
        /\ answer' \in Answers
        /\ UNCHANGED <<tries, resent, shown, audit>>

\* Neither a success nor a rejection is tried again.
TryAgain == /\ stage = "answered"
            /\ answer = "unavailable"
            /\ tries < Ceiling
            /\ stage' = "due"
            /\ tries' = tries + 1
            /\ answer' = "none"
            /\ UNCHANGED <<resent, shown, audit>>

Resend == /\ stage \in {"due", "answered"}
          /\ stage' = "due"
          /\ answer' = "none"
          /\ resent' = resent + 1
          /\ UNCHANGED <<tries, shown, audit>>

Settle == /\ stage = "answered"
          /\ stage' = "over"
          /\ UNCHANGED <<tries, answer, resent, shown, audit>>

Record == /\ stage = "answered"
          /\ shown = "shown"
          /\ audit' = [attempts |-> tries + 1, code |-> answer, dead |-> audit.dead]
          /\ UNCHANGED <<stage, tries, answer, resent, shown>>

\* Only a delivery that has failed dies.
Bury == /\ stage = "answered"
        /\ shown = "shown"
        /\ answer # "ok"
        /\ audit' = [attempts |-> audit.attempts, code |-> audit.code, dead |-> TRUE]
        /\ UNCHANGED <<stage, tries, answer, resent, shown>>

\* The row appears with a commit, and is pruned some day.
Turn(from, to) == /\ shown = from
                  /\ shown' = to
                  /\ UNCHANGED <<stage, tries, answer, resent, audit>>

Next == \/ Send \/ Post \/ TryAgain \/ Resend \/ Settle \/ Record \/ Bury
        \/ Turn("not yet", "shown") \/ Turn("shown", "gone")

Spec == Init /\ [][Next]_vars
=============================================================================
