------------------------- MODULE PreflightJobProofs -------------------------
(***************************************************************************)
(* Proofs about PreflightJob for any number of jobs, workers, retries and  *)
(* faults.                                                                 *)
(***************************************************************************)
EXTENDS PreflightJob, FiniteSetTheorems, TLAPS

USE DEF Status

\* A message has one holder, and a worker holds the message of some job.
Holding ==
    /\ \A v, w \in Workers : worker[v].tag = worker[w].tag /\ Busy(v) => v = w
    /\ \A w \in Workers : Busy(w) => JobOf(w) \in Jobs

Seen == Status \union {"new", "deleted", "expired"}
-----------------------------------------------------------------------------
(* Types.  JobOf is a job only because of Holding, so the two go together. *)

LEMMA BusyType ==
    ASSUME TypeOK, Holding, NEW w \in Workers, Busy(w)
    PROVE  /\ worker[w].tag \in Tags
           /\ worker[w].pc \in Steps \union {"idle"}
           /\ worker[w].seen \in Seen
           /\ worker[w].unsaved \in 0 .. 1
           /\ msg[worker[w].tag].retries \in 0 .. MaxRetries
           /\ msg[worker[w].tag].job = JobOf(w)
           /\ JobOf(w) \in Jobs
           /\ row[JobOf(w)] \in Seen
BY DEF TypeOK, Holding, Slot, Seen, Busy, JobOf, Message

LEMMA FollowUpType ==
    ASSUME NEW j, NEW p
    PROVE  /\ FirstFollowUp(j) \in Steps
           /\ NextFollowUp(j, p) \in Steps
BY DEF FirstFollowUp, NextFollowUp, Steps, FollowUps

\* A worker that only moves on keeps its message.
LEMMA ContinueKeeps ==
    ASSUME TypeOK, Holding, NEW w \in Workers, Busy(w),
           NEW p \in Steps, NEW s \in Seen, NEW d \in 0 .. 1,
           Continue(w, p, s, d), msg' = msg
    PROVE  worker' \in [Workers -> Slot] /\ Holding'
BY DEF TypeOK, Holding, Continue, Slot, Seen, Busy, JobOf

\* Dropping the hold harms nobody else's, and neither does freeing the tag.
LEMMA DropKeeps ==
    ASSUME TypeOK, Holding, NEW w \in Workers, Busy(w),
           worker' = [worker EXCEPT ![w] = Idle],
           \/ msg' = msg
           \/ msg' = [msg EXCEPT ![worker[w].tag] = FreeTag]
           \/ msg' = [msg EXCEPT ![worker[w].tag].retries = msg[worker[w].tag].retries + 1]
    PROVE  worker' \in [Workers -> Slot] /\ Holding'
<1>1. worker' \in [Workers -> Slot]
  BY TagAssumption DEF TypeOK, Slot, Idle
<1>2. \A v \in Workers : v # w => worker'[v] = worker[v]
  BY DEF TypeOK
<1>3. worker'[w].tag = NoTag
  BY DEF TypeOK, Idle
<1>4. \A v \in Workers : Busy(v)' => v # w /\ Busy(v) /\ worker[v].tag # worker[w].tag
  BY <1>2, <1>3 DEF Busy, Holding
<1>5. \A v \in Workers : Busy(v)' => msg'[worker[v].tag].job = msg[worker[v].tag].job
  <2> SUFFICES ASSUME NEW v \in Workers, Busy(v)'
               PROVE  msg'[worker[v].tag].job = msg[worker[v].tag].job
    OBVIOUS
  <2>1. worker[v].tag \in Tags /\ worker[v].tag # worker[w].tag
    BY <1>4, BusyType
  <2> QED
    BY <2>1 DEF TypeOK
<1>6. \A v \in Workers : Busy(v)' => JobOf(v)' \in Jobs
  BY <1>2, <1>4, <1>5 DEF JobOf, Holding
<1>7. ASSUME NEW u \in Workers, NEW v \in Workers, worker'[u].tag = worker'[v].tag, Busy(u)'
      PROVE  u = v
  BY <1>2, <1>3, <1>4, <1>7 DEF Busy, Holding
<1> QED
  BY <1>1, <1>6, <1>7 DEF Holding

\* A new message goes under a tag nobody holds.
LEMMA PublishKeeps ==
    ASSUME TypeOK, Holding, NEW t \in Tags, NEW j \in Jobs, NEW r \in 0 .. MaxRetries,
           Publish(t, j, r)
    PROVE  /\ msg' \in [Tags -> Message]
           /\ \A w \in Workers : Busy(w) => /\ worker[w].tag # t
                                            /\ msg'[worker[w].tag] = msg[worker[w].tag]
<1>1. msg' \in [Tags -> Message]
  BY DEF TypeOK, Publish, Message
<1>2. ASSUME NEW w \in Workers, Busy(w)
      PROVE  worker[w].tag # t /\ msg'[worker[w].tag] = msg[worker[w].tag]
  <2>1. worker[w].tag \in Tags /\ msg[worker[w].tag].job \in Jobs
    BY <1>2, BusyType
  <2>2. msg[t].job \notin Jobs
    BY JobAssumption DEF Publish, FreeTag
  <2> QED
    BY <2>1, <2>2 DEF Publish, TypeOK
<1> QED
  BY <1>1, <1>2

\* Counting one more commit or event keeps a table of counters.
LEMMA CountKeeps ==
    ASSUME NEW f \in [Jobs -> Nat], NEW j \in Jobs, NEW n \in Nat
    PROVE  [f EXCEPT ![j] = n] \in [Jobs -> Nat]
OBVIOUS

LEMMA InitType == Init => TypeOK /\ Holding
<1> SUFFICES ASSUME Init PROVE TypeOK /\ Holding
  OBVIOUS
<1>1. TypeOK
  BY BoundAssumption DEF Init, TypeOK, FreeTag, Message, Idle, Slot
<1>2. Holding
  BY DEF Init, Holding, Idle, Busy
<1> QED
  BY <1>1, <1>2

LEMMA ApiType ==
    ASSUME TypeOK, Holding, NEW j \in Jobs, ApiStep(j) \/ Age(j)
    PROVE  (TypeOK /\ Holding)'
<1>1. CASE Enqueue(j)
  <2> PICK t \in Tags : Publish(t, j, 0)
    BY <1>1 DEF Enqueue
  <2>1. /\ msg' \in [Tags -> Message]
        /\ \A w \in Workers : Busy(w) => msg'[worker[w].tag] = msg[worker[w].tag]
    BY PublishKeeps, BoundAssumption
  <2>2. Holding'
    BY <1>1, <2>1 DEF Enqueue, Holding, Busy, JobOf
  <2> QED
    BY <1>1, <2>1, <2>2 DEF Enqueue, TypeOK
<1>2. CASE Submit(j) \/ Abandon(j) \/ Delete(j) \/ Age(j)
  <2>1. TypeOK'
    BY <1>2 DEF Submit, Abandon, Delete, Age, TypeOK
  <2>2. Holding'
    BY <1>2 DEF Submit, Abandon, Delete, Age, Holding, Busy, JobOf
  <2> QED
    BY <2>1, <2>2
<1> QED
  BY <1>1, <1>2 DEF ApiStep

LEMMA DeliverType ==
    ASSUME TypeOK, Holding, NEW w \in Workers, NEW t \in Tags, Deliver(w, t)
    PROVE  (TypeOK /\ Holding)'
<1>1. worker' \in [Workers -> Slot]
  BY DEF Deliver, TypeOK, Slot, Steps
<1>2. /\ worker'[w].tag = t
      /\ \A v \in Workers : v # w => worker'[v] = worker[v]
  BY DEF Deliver, TypeOK
<1>3. \A v \in Workers : worker[v].tag # t
  BY DEF Deliver, Held
<1>4. msg[t].job \in Jobs /\ msg' = msg
  BY DEF Deliver, TypeOK, Message
<1>5. Holding'
  BY <1>2, <1>3, <1>4 DEF Holding, Busy, JobOf
<1> QED
  BY <1>1, <1>5 DEF Deliver, TypeOK

LEMMA TaskType ==
    ASSUME TypeOK, Holding, NEW w \in Workers, Busy(w), TaskStep(w)
    PROVE  (TypeOK /\ Holding)'
<1> DEFINE j == JobOf(w)
<1>0. /\ j \in Jobs /\ row[j] \in Seen
      /\ worker[w].seen \in Seen
      /\ worker[w].unsaved \in 0 .. 1
      /\ {"expired"} \subseteq Seen
      /\ {"mark", "load", "run", "store", "fail", "notify", "raise", "ack"} \subseteq Steps
  BY BusyType DEF Seen, Steps, Before
<1> HIDE DEF j
<1>1. CASE Fetch(w)
  <2>1. worker' \in [Workers -> Slot] /\ Holding'
    BY <1>0, <1>1, ContinueKeeps DEF Fetch, j
  <2> QED
    BY <1>1, <2>1 DEF Fetch, TypeOK
<1>2. CASE Mark(w)
  <2>1. worker' \in [Workers -> Slot] /\ Holding'
    BY <1>0, <1>2, ContinueKeeps DEF Mark, Goto
  <2>2. row' \in [Jobs -> Status \union {"new", "deleted"}]
    BY <1>0, <1>2 DEF Mark, Flushed, TypeOK, j
  <2> QED
    BY <1>2, <2>1, <2>2 DEF Mark, TypeOK
<1>3. CASE Load(w)
  <2>1. worker' \in [Workers -> Slot] /\ Holding'
    BY <1>0, <1>3, ContinueKeeps DEF Load, j
  <2> QED
    BY <1>3, <2>1 DEF Load, TypeOK
<1>4. CASE Run(w)
  <2>1. worker' \in [Workers -> Slot] /\ Holding'
    BY <1>0, <1>4, ContinueKeeps DEF Run
  <2> QED
    BY <1>4, <2>1 DEF Run, TypeOK
<1>5. CASE Store(w)
  <2>1. worker' \in [Workers -> Slot] /\ Holding'
    BY <1>0, <1>5, ContinueKeeps, FollowUpType DEF Store
  <2>2. row' \in [Jobs -> Status \union {"new", "deleted"}]
    BY <1>0, <1>5 DEF Store, Flushed, TypeOK, j
  <2>3. results' \in [Jobs -> Nat]
    <3>1. results \in [Jobs -> Nat] /\ results[j] + 1 \in Nat
      BY <1>0 DEF TypeOK
    <3>2. results' \in {results, [results EXCEPT ![j] = results[j] + 1]}
      BY <1>5 DEF Store, j
    <3> QED
      BY <1>0, <3>1, <3>2, CountKeeps
  <2> QED
    BY <1>5, <2>1, <2>2, <2>3 DEF Store, TypeOK
<1>6. CASE Announce(w)
  <2>1. worker' \in [Workers -> Slot] /\ Holding'
    BY <1>0, <1>6, ContinueKeeps, FollowUpType DEF Announce, Goto, j
  <2>2. announced' \in [Jobs -> Nat]
    <3>1. announced \in [Jobs -> Nat] /\ announced[j] + 1 \in Nat
      BY <1>0 DEF TypeOK
    <3>2. announced' \in {announced, [announced EXCEPT ![j] = announced[j] + 1]}
      BY <1>6 DEF Announce, j
    <3> QED
      BY <1>0, <3>1, <3>2, CountKeeps
  <2> QED
    BY <1>6, <2>1, <2>2 DEF Announce, TypeOK
<1>7. ASSUME NEW p \in FollowUps, FollowUp(w, p)
      PROVE  (TypeOK /\ Holding)'
  <2>1. worker' \in [Workers -> Slot] /\ Holding'
    BY <1>0, <1>7, ContinueKeeps, FollowUpType DEF FollowUp
  <2>2. effects' \in [Jobs -> SUBSET (FollowUps \union {"failed", "lost"})]
    BY <1>0, <1>7 DEF FollowUp, TypeOK, j
  <2> QED
    BY <1>7, <2>1, <2>2 DEF FollowUp, TypeOK
<1>8. CASE Fail(w)
  <2>1. worker' \in [Workers -> Slot] /\ Holding'
    BY <1>0, <1>8, ContinueKeeps DEF Fail
  <2>2. row' \in [Jobs -> Status \union {"new", "deleted"}]
    BY <1>0, <1>8 DEF Fail, Flushed, TypeOK, j
  <2>3. results' \in [Jobs -> Nat]
    <3>1. results \in [Jobs -> Nat] /\ results[j] + worker[w].unsaved \in Nat
      BY <1>0 DEF TypeOK
    <3>2. results' \in {results, [results EXCEPT ![j] = results[j] + worker[w].unsaved]}
      BY <1>8 DEF Fail, j
    <3> QED
      BY <1>0, <3>1, <3>2, CountKeeps
  <2> QED
    BY <1>8, <2>1, <2>2, <2>3 DEF Fail, TypeOK
<1>9. CASE Notify(w)
  <2>1. worker' \in [Workers -> Slot] /\ Holding'
    BY <1>0, <1>9, ContinueKeeps DEF Notify, Goto
  <2>2. effects' \in [Jobs -> SUBSET (FollowUps \union {"failed", "lost"})]
    BY <1>0, <1>9 DEF Notify, TypeOK, j
  <2> QED
    BY <1>9, <2>1, <2>2 DEF Notify, TypeOK
<1>10. CASE Retry(w)
  <2> DEFINE t == worker[w].tag
             r == msg[t].retries + 1
  <2>0. t \in Tags /\ msg[t].job = j /\ r \in 0 .. MaxRetries
    BY <1>10, BusyType, BoundAssumption DEF Retry, j
  <2>1. CASE AckAtomic
    <3>1. msg' \in [Tags -> Message]
      BY <1>10, <2>0, <2>1 DEF Retry, TypeOK, Message
    <3>2. worker' \in [Workers -> Slot] /\ Holding'
      BY <1>10, <2>1, DropKeeps DEF Retry
    <3> QED
      BY <1>10, <3>1, <3>2 DEF Retry, TypeOK
  <2>2. CASE ~AckAtomic
    <3> PICK u \in Tags : Publish(u, j, r)
      BY <1>10, <2>0, <2>2 DEF Retry
    <3>1. /\ msg' \in [Tags -> Message]
          /\ \A v \in Workers : Busy(v) => msg'[worker[v].tag] = msg[worker[v].tag]
      BY <1>0, <2>0, PublishKeeps
    <3>2. Goto(w, "ack")
      BY <1>10, <2>2 DEF Retry
    <3>3. worker' \in [Workers -> Slot]
      BY <1>0, <3>2 DEF Goto, Continue, TypeOK, Slot, Seen
    <3>4. /\ \A v \in Workers : worker'[v].tag = worker[v].tag
      BY <3>2 DEF Goto, Continue, TypeOK
    <3>5. Holding'
      BY <3>1, <3>4 DEF Holding, Busy, JobOf
    <3> QED
      BY <1>10, <3>1, <3>3, <3>5 DEF Retry, TypeOK
  <2> QED
    BY <2>1, <2>2
<1>11. CASE GiveUp(w)
  <2>1. worker' \in [Workers -> Slot] /\ Holding'
    BY <1>0, <1>11, ContinueKeeps DEF GiveUp, Goto
  <2> QED
    BY <1>11, <2>1 DEF GiveUp, TypeOK
<1>12. CASE Ack(w)
  <2>1. worker' \in [Workers -> Slot] /\ Holding'
    BY <1>12, DropKeeps DEF Ack
  <2>2. msg' \in [Tags -> Message]
    <3>1. FreeTag \in Message
      BY BoundAssumption DEF FreeTag, Message
    <3> QED
      BY <1>12, <3>1 DEF Ack, TypeOK
  <2> QED
    BY <1>12, <2>1, <2>2 DEF Ack, TypeOK
<1> QED
  BY <1>1, <1>2, <1>3, <1>4, <1>5, <1>6, <1>7, <1>8, <1>9, <1>10, <1>11, <1>12 DEF TaskStep

LEMMA FaultType ==
    ASSUME TypeOK, Holding, NEW w \in Workers, Busy(w), FaultStep(w)
    PROVE  (TypeOK /\ Holding)'
<1> DEFINE j == JobOf(w)
<1>0. /\ j \in Jobs /\ row[j] \in Seen
      /\ worker[w].seen \in Seen
      /\ worker[w].unsaved \in 0 .. 1
      /\ {"expired"} \subseteq Seen
      /\ {"fail", "raise", "ack"} \subseteq Steps
  BY BusyType DEF Seen, Steps
<1>1. faults' \in 0 .. MaxFaults
  <2>1. \E kind : Fault(kind)
    BY DEF FaultStep, Swallowed, Raises, SoftTimeout, CommitFails, Crash, HardTimeout,
           RetryFails
  <2> QED
    BY <2>1, BoundAssumption DEF Fault, TypeOK
<1> HIDE DEF j
<1>2. ASSUME NEW p, Swallowed(w, p)
      PROVE  (TypeOK /\ Holding)'
  <2>1. worker' \in [Workers -> Slot] /\ Holding'
    BY <1>0, <1>2, ContinueKeeps, FollowUpType DEF Swallowed, j
  <2> QED
    BY <1>1, <1>2, <2>1 DEF Swallowed, TypeOK
<1>3. CASE Raises(w)
  <2>1. worker' \in [Workers -> Slot] /\ Holding'
    BY <1>0, <1>3, ContinueKeeps DEF Raises, Goto
  <2> QED
    BY <1>1, <1>3, <2>1 DEF Raises, TypeOK
<1>4. CASE SoftTimeout(w)
  <2>1. worker' \in [Workers -> Slot] /\ Holding'
    BY <1>0, <1>4, ContinueKeeps DEF SoftTimeout
  <2>2. row' \in [Jobs -> Status \union {"new", "deleted"}]
    BY <1>0, <1>4 DEF SoftTimeout, Flushed, TypeOK, j
  <2> QED
    BY <1>1, <1>4, <2>1, <2>2 DEF SoftTimeout, TypeOK
<1>5. CASE CommitFails(w)
  <2>1. worker' \in [Workers -> Slot] /\ Holding'
    BY <1>0, <1>5, ContinueKeeps DEF CommitFails
  <2> QED
    BY <1>1, <1>5, <2>1 DEF CommitFails, TypeOK
<1>6. CASE Crash(w)
  <2>1. worker' \in [Workers -> Slot] /\ Holding'
    BY <1>6, DropKeeps DEF Crash
  <2> QED
    BY <1>1, <1>6, <2>1 DEF Crash, TypeOK
<1>7. CASE HardTimeout(w)
  <2>1. worker' \in [Workers -> Slot] /\ Holding'
    BY <1>7, DropKeeps DEF HardTimeout
  <2>2. msg' \in [Tags -> Message]
    <3>1. FreeTag \in Message
      BY BoundAssumption DEF FreeTag, Message
    <3> QED
      BY <1>7, <3>1 DEF HardTimeout, TypeOK
  <2>3. effects' \in [Jobs -> SUBSET (FollowUps \union {"failed", "lost"})]
    BY <1>7 DEF HardTimeout, TypeOK
  <2> QED
    BY <1>1, <1>7, <2>1, <2>2, <2>3 DEF HardTimeout, TypeOK
<1>8. CASE RetryFails(w)
  <2>1. worker' \in [Workers -> Slot] /\ Holding'
    BY <1>0, <1>8, ContinueKeeps DEF RetryFails, Goto
  <2>2. effects' \in [Jobs -> SUBSET (FollowUps \union {"failed", "lost"})]
    BY <1>8 DEF RetryFails, TypeOK
  <2> QED
    BY <1>1, <1>8, <2>1, <2>2 DEF RetryFails, TypeOK
<1> QED
  BY <1>2, <1>3, <1>4, <1>5, <1>6, <1>7, <1>8 DEF FaultStep

LEMMA ReapType ==
    ASSUME TypeOK, Holding, ReapStep \/ ReapFails
    PROVE  (TypeOK /\ Holding)'
<1>1. Holding'
  BY DEF ReapStep, ReapScan, ReapCommit, ReapFails, Holding, Busy, JobOf
<1>2. CASE ReapScan
  <2>1. effects' \in [Jobs -> SUBSET (FollowUps \union {"failed", "lost"})]
    BY <1>2 DEF ReapScan, TypeOK
  <2> QED
    BY <1>1, <1>2, <2>1 DEF ReapScan, Stale, TypeOK
<1>3. CASE ReapCommit
  BY <1>1, <1>3 DEF ReapCommit, TypeOK
<1>4. CASE ReapFails
  BY <1>1, <1>4, BoundAssumption DEF ReapFails, Fault, TypeOK
<1> QED
  BY <1>2, <1>3, <1>4 DEF ReapStep

\* Only a busy worker takes a step or meets a fault.
LEMMA StepIsBusy ==
    ASSUME NEW w \in Workers, TaskStep(w) \/ FaultStep(w)
    PROVE  Busy(w)
BY Zenon DEF TaskStep, Fetch, Mark, Load, Run, Store, Announce, FollowUp, Fail, Notify, Retry,
       GiveUp, Ack, FaultStep, Swallowed, Raises, SoftTimeout, CommitFails, Crash,
       HardTimeout, RetryFails, At

\* The variables of the task, the API, the broker and the reaper keep their types,
\* and a message is held by one worker only, under any AckAtomic.
THEOREM TypeCorrect == Spec => [](TypeOK /\ Holding)
<1>1. Init => TypeOK /\ Holding
  BY InitType
<1>2. TypeOK /\ Holding /\ [Next]_vars => (TypeOK /\ Holding)'
  <2> SUFFICES ASSUME TypeOK, Holding, [Next]_vars
               PROVE  (TypeOK /\ Holding)'
    OBVIOUS
  <2>1. ASSUME NEW j \in Jobs, ApiStep(j) \/ Age(j)
        PROVE  (TypeOK /\ Holding)'
    BY <2>1, ApiType
  <2>2. ASSUME NEW w \in Workers, NEW t \in Tags, Deliver(w, t)
        PROVE  (TypeOK /\ Holding)'
    BY <2>2, DeliverType
  <2>3. ASSUME NEW w \in Workers, TaskStep(w)
        PROVE  (TypeOK /\ Holding)'
    BY <2>3, TaskType, StepIsBusy
  <2>4. ASSUME NEW w \in Workers, FaultStep(w)
        PROVE  (TypeOK /\ Holding)'
    BY <2>4, FaultType, StepIsBusy
  <2>5. CASE ReapStep \/ ReapFails
    BY <2>5, ReapType
  <2>6. CASE UNCHANGED vars
    BY <2>6 DEF vars, TypeOK, Holding, Busy, JobOf
  <2> QED
    BY <2>1, <2>2, <2>3, <2>4, <2>5, <2>6 DEF Next
<1> QED
  BY <1>1, <1>2, PTL DEF Spec
-----------------------------------------------------------------------------
(***************************************************************************)
(* The inductive invariant.  A job has one message (OneMessage), so no two *)
(* workers run it; a run that has passed the guard at the top of the task  *)
(* relies on what it saw there (RunOK), and the rest of the system keeps   *)
(* that true: the sweep only ends rows that have left pending, and only    *)
(* the job's own run brings one to processing.                             *)
(***************************************************************************)
OneMessage ==
    /\ \A t, u \in Tags : msg[t].job = msg[u].job /\ msg[t].job # NoJob => t = u
    /\ \A t \in Tags : msg[t].job # NoJob => api[msg[t].job] = "enqueued"

JobOK(j) ==
    /\ results[j] <= 1
    /\ results[j] > 0 => row[j] \in Terminal \union {"deleted"}
    /\ announced[j] <= results[j]
    /\ effects[j] \intersect FollowUps # {} => results[j] > 0
    /\ api[j] = "new" <=> row[j] = "new"
    /\ j \in scan => row[j] \notin {"new", "pending"}

RunOK(s, j) ==
    /\ s.pc \in Before => results[j] = 0
    /\ results[j] + s.unsaved <= 1
    /\ s.pc \in FollowUps => results[j] = 1
    /\ s.pc \in {"audit", "completed"} => announced[j] = 0
    /\ s.pc = "mark" => s.seen \in {"pending", "processing"}
    /\ s.pc = "mark" /\ s.seen = "pending" => row[j] \in {"pending", "deleted"}
    /\ s.seen \in Terminal => row[j] \in Terminal \union {"deleted"}

IInv ==
    /\ TypeOK
    /\ Holding
    /\ OneMessage
    /\ \A j \in Jobs : JobOK(j)
    /\ \A w \in Workers : Busy(w) => RunOK(worker[w], JobOf(w))

\* Two runs are never of the same job.
LEMMA Distinct ==
    ASSUME IInv, NEW v \in Workers, NEW w \in Workers, v # w, Busy(v), Busy(w)
    PROVE  JobOf(v) # JobOf(w)
<1>1. /\ worker[v].tag \in Tags /\ worker[w].tag \in Tags
      /\ worker[v].tag # worker[w].tag
      /\ JobOf(v) \in Jobs /\ JobOf(w) \in Jobs
  BY BusyType DEF IInv, Holding
<1> QED
  BY <1>1, JobAssumption DEF IInv, OneMessage, JobOf

\* What a run does to its own job and its own slot disturbs nobody else.
LEMMA OwnStep ==
    ASSUME IInv, NEW w \in Workers, Busy(w), NEW j \in Jobs, j = JobOf(w),
           \A k \in Jobs : k # j => /\ row'[k] = row[k]
                                    /\ results'[k] = results[k]
                                    /\ announced'[k] = announced[k]
                                    /\ effects'[k] = effects[k],
           api' = api, scan' = scan,
           \A v \in Workers : v # w => worker'[v] = worker[v],
           worker'[w].tag \in {worker[w].tag, NoTag},
           msg' = msg,
           (TypeOK /\ Holding)',
           JobOK(j)', Busy(w)' => RunOK(worker[w], j)'
    PROVE  IInv'
<1>1. OneMessage'
  BY DEF IInv, OneMessage
<1>2. \A k \in Jobs : JobOK(k)'
  BY DEF IInv, JobOK
<1>3. ASSUME NEW v \in Workers, Busy(v)'
      PROVE  RunOK(worker[v], JobOf(v))'
  <2>1. CASE v = w
    <3>1. worker'[w].tag = worker[w].tag => JobOf(w)' = j
      BY DEF JobOf
    <3>2. Busy(w)'
      BY <1>3, <2>1
    <3>3. worker'[w].tag = worker[w].tag
      BY <3>2 DEF Busy
    <3> QED
      BY <1>3, <2>1, <3>1, <3>3
  <2>2. CASE v # w
    <3>1. worker'[v] = worker[v] /\ Busy(v) /\ JobOf(v)' = JobOf(v)
      BY <1>3, <2>2 DEF Busy, JobOf
    <3>2. JobOf(v) # j /\ JobOf(v) \in Jobs
      BY <2>2, <3>1, Distinct, BusyType DEF IInv
    <3>3. RunOK(worker[v], JobOf(v))
      BY <3>1 DEF IInv
    <3> QED
      BY <3>1, <3>2, <3>3 DEF RunOK
  <2> QED
    BY <2>1, <2>2
<1> QED
  BY <1>1, <1>2, <1>3 DEF IInv

LEMMA InitInv == Init => IInv
<1> SUFFICES ASSUME Init PROVE IInv
  OBVIOUS
<1>1. TypeOK /\ Holding
  BY InitType
<1>2. OneMessage
  BY DEF Init, OneMessage, FreeTag
<1>3. ASSUME NEW j \in Jobs
      PROVE  JobOK(j)
  <2>1. /\ row[j] = "new" /\ api[j] = "new" /\ scan = {}
        /\ results[j] = 0 /\ announced[j] = 0 /\ effects[j] = {}
    BY DEF Init
  <2> QED
    BY <2>1 DEF JobOK
<1>4. \A w \in Workers : ~Busy(w)
  BY DEF Init, Busy, Idle
<1> QED
  BY <1>1, <1>2, <1>3, <1>4 DEF IInv

LEMMA ApiInv ==
    ASSUME IInv, NEW j \in Jobs, ApiStep(j) \/ Age(j)
    PROVE  IInv'
<1>1. (TypeOK /\ Holding)'
  BY ApiType DEF IInv
<1>2. TypeOK /\ JobOK(j)
  BY DEF IInv
<1>3. ASSUME NEW w \in Workers, Busy(w)'
      PROVE  /\ Busy(w) /\ JobOf(w)' = JobOf(w) /\ worker' = worker
             /\ worker[w].tag \in Tags /\ JobOf(w) \in Jobs
             /\ RunOK(worker[w], JobOf(w)) /\ api[JobOf(w)] = "enqueued"
  <2>1. worker' = worker /\ Busy(w)
    BY <1>3 DEF ApiStep, Submit, Enqueue, Abandon, Delete, Age, Busy
  <2>2. worker[w].tag \in Tags /\ msg'[worker[w].tag] = msg[worker[w].tag]
    <3>1. CASE Enqueue(j)
      BY <2>1, <3>1, BusyType, PublishKeeps, BoundAssumption DEF IInv, Enqueue
    <3>2. CASE ~Enqueue(j)
      BY <2>1, <3>2, BusyType DEF IInv, ApiStep, Submit, Abandon, Delete, Age
    <3> QED
      BY <3>1, <3>2
  <2>3. JobOf(w) \in Jobs /\ RunOK(worker[w], JobOf(w))
    BY <2>1, BusyType DEF IInv
  <2>4. api[JobOf(w)] = "enqueued"
    BY <2>2, <2>3, JobAssumption DEF IInv, OneMessage, JobOf
  <2> QED
    BY <2>1, <2>2, <2>3, <2>4 DEF JobOf
<1>4. CASE Enqueue(j)
  <2> PICK t \in Tags : Publish(t, j, 0)
    BY <1>4 DEF Enqueue
  <2>1. OneMessage'
    <3>1. \A u \in Tags : msg[u].job # j
      BY <1>4, JobAssumption DEF IInv, OneMessage, Enqueue
    <3>2. /\ msg'[t].job = j
          /\ \A u \in Tags : u # t => msg'[u] = msg[u]
      BY <1>2 DEF Publish, TypeOK
    <3>3. api'[j] = "enqueued" /\ \A k \in Jobs : k # j => api'[k] = api[k]
      BY <1>2, <1>4 DEF Enqueue, TypeOK
    <3>4. \A u \in Tags : msg[u].job # NoJob => msg[u].job \in Jobs
      BY <1>2 DEF TypeOK, Message
    <3> QED
      BY <3>1, <3>2, <3>3, <3>4 DEF IInv, OneMessage
  <2>2. \A k \in Jobs : JobOK(k)'
    BY <1>2, <1>4 DEF IInv, Enqueue, JobOK, TypeOK
  <2>3. \A w \in Workers : Busy(w)' => RunOK(worker[w], JobOf(w))'
    BY <1>3, <1>4 DEF Enqueue, RunOK
  <2> QED
    BY <1>1, <2>1, <2>2, <2>3 DEF IInv
<1>5. CASE Submit(j) \/ Abandon(j) \/ Delete(j) \/ Age(j)
  <2>1. OneMessage'
    <3>1. msg' = msg /\ \A k \in Jobs : api[k] = "enqueued" => api'[k] = "enqueued"
      BY <1>2, <1>5 DEF Submit, Abandon, Delete, Age, TypeOK
    <3>2. \A t \in Tags : msg[t].job \in Jobs \union {NoJob}
      BY <1>2 DEF TypeOK, Message
    <3> QED
      BY <3>1, <3>2 DEF IInv, OneMessage
  <2>2. \A k \in Jobs : JobOK(k)'
    <3>1. UNCHANGED <<results, announced, effects, scan>>
      BY <1>5 DEF Submit, Abandon, Delete, Age
    <3>2. ASSUME NEW k \in Jobs
          PROVE  \/ row'[k] = row[k] /\ row[k] # "new" /\ api[k] # "new" /\ api'[k] # "new"
                 \/ row'[k] = row[k] /\ api'[k] = api[k]
                 \/ row[k] = "new" /\ row'[k] = "pending" /\ api'[k] = "saved"
                 \/ row[k] # "new" /\ row'[k] = "deleted" /\ api'[k] = api[k]
      BY <1>2, <1>5 DEF IInv, JobOK, Submit, Abandon, Delete, Age, Exists, TypeOK
    <3>3. ASSUME NEW k \in Jobs
          PROVE  JobOK(k)'
      BY <3>1, <3>2 DEF IInv, JobOK, Terminal
    <3> QED
      BY <3>3
  <2>3. ASSUME NEW w \in Workers, Busy(w)'
        PROVE  RunOK(worker[w], JobOf(w))'
    <3> DEFINE k == JobOf(w)
    <3>1. /\ RunOK(worker[w], k) /\ k \in Jobs /\ api[k] = "enqueued"
          /\ JobOf(w)' = k /\ worker' = worker
      BY <1>3, <2>3
    <3>2. row'[k] = row[k] \/ row'[k] = "deleted"
      BY <1>2, <1>5, <3>1 DEF Submit, Abandon, Delete, Age, TypeOK
    <3>3. results' = results /\ announced' = announced
      BY <1>5 DEF Submit, Abandon, Delete, Age
    <3> QED
      BY <3>1, <3>2, <3>3 DEF RunOK, Terminal
  <2> QED
    BY <1>1, <2>1, <2>2, <2>3 DEF IInv
<1> QED
  BY <1>4, <1>5 DEF ApiStep

LEMMA DeliverInv ==
    ASSUME IInv, NEW w \in Workers, NEW t \in Tags, Deliver(w, t)
    PROVE  IInv'
<1>1. (TypeOK /\ Holding)'
  BY DeliverType DEF IInv
<1>2. OneMessage' /\ \A j \in Jobs : JobOK(j)'
  BY DEF IInv, OneMessage, JobOK, Deliver
<1>3. ASSUME NEW v \in Workers, Busy(v)'
      PROVE  RunOK(worker[v], JobOf(v))'
  <2>1. CASE v = w
    <3>1. /\ worker'[w].pc = "fetch" /\ worker'[w].seen = "expired"
          /\ worker'[w].unsaved = 0
      BY DEF IInv, TypeOK, Deliver
    <3>2. JobOf(w)' \in Jobs /\ results' = results
      BY <1>1, <1>3, <2>1 DEF Holding, Deliver
    <3>3. results[JobOf(w)'] \in Nat /\ results[JobOf(w)'] <= 1
      BY <3>2 DEF IInv, TypeOK, JobOK
    <3> QED
      BY <2>1, <3>1, <3>2, <3>3 DEF RunOK, Before, FollowUps, Terminal
  <2>2. CASE v # w
    BY <1>3, <2>2 DEF IInv, TypeOK, Deliver, RunOK, Busy, JobOf
  <2> QED
    BY <2>1, <2>2
<1> QED
  BY <1>1, <1>2, <1>3 DEF IInv

LEMMA ReapInv ==
    ASSUME IInv, ReapStep \/ ReapFails
    PROVE  IInv'
<1>1. (TypeOK /\ Holding)'
  BY ReapType DEF IInv
<1>2. OneMessage'
  BY DEF IInv, OneMessage, ReapStep, ReapScan, ReapCommit, ReapFails
<1>3. \A j \in Jobs : JobOK(j)'
  <2>1. CASE ReapScan
    <3>1. ASSUME NEW j \in Jobs
          PROVE  JobOK(j)'
      <4>1. effects'[j] \intersect FollowUps = effects[j] \intersect FollowUps
        BY <2>1 DEF ReapScan, FollowUps
      <4> QED
        BY <2>1, <4>1 DEF IInv, JobOK, ReapScan, Stale
    <3> QED
      BY <3>1
  <2>2. CASE ReapCommit
    BY <2>2 DEF IInv, JobOK, ReapCommit, Exists, TypeOK, Terminal
  <2>3. CASE ReapFails
    BY <2>3 DEF IInv, JobOK, ReapFails
  <2> QED
    BY <2>1, <2>2, <2>3 DEF ReapStep
<1>4. ASSUME NEW w \in Workers, Busy(w)'
      PROVE  RunOK(worker[w], JobOf(w))'
  <2> DEFINE k == JobOf(w)
  <2>1. worker' = worker /\ JobOf(w)' = k /\ results' = results /\ announced' = announced
    BY DEF ReapStep, ReapScan, ReapCommit, ReapFails, JobOf
  <2>2. k \in Jobs /\ RunOK(worker[w], k) /\ JobOK(k)
    BY <1>4, <2>1, BusyType DEF IInv, Busy
  <2>3. row'[k] = row[k] \/ (row'[k] = "failed" /\ k \in scan /\ Exists(k))
    <3>1. row' = row \/ ReapCommit
      BY DEF ReapStep, ReapScan, ReapFails
    <3> QED
      BY <2>2, <3>1 DEF ReapCommit
  <2> QED
    BY <2>1, <2>2, <2>3 DEF RunOK, JobOK, Terminal, Exists
<1> QED
  BY <1>1, <1>2, <1>3, <1>4 DEF IInv

\* A run that ends, for whatever reason, leaves its job as it is, but for the mark of
\* a lost attempt.
LEMMA DropInv ==
    ASSUME IInv, NEW w \in Workers, Busy(w),
           worker' = [worker EXCEPT ![w] = Idle],
           \/ msg' = msg
           \/ msg' = [msg EXCEPT ![worker[w].tag] = FreeTag]
           \/ msg' = [msg EXCEPT ![worker[w].tag].retries = msg[worker[w].tag].retries + 1],
           UNCHANGED <<row, api, scan, results, announced>>,
           \A j \in Jobs : effects'[j] \intersect FollowUps = effects[j] \intersect FollowUps,
           TypeOK'
    PROVE  IInv'
<1>1. Holding'
  BY DropKeeps DEF IInv
<1>2. \A t \in Tags : msg'[t].job \in {msg[t].job, NoJob}
  BY DEF IInv, TypeOK, FreeTag, Message
<1>3. OneMessage'
  BY <1>2 DEF IInv, OneMessage
<1>4. \A j \in Jobs : JobOK(j)'
  BY DEF IInv, JobOK
<1>5. ASSUME NEW v \in Workers, Busy(v)'
      PROVE  RunOK(worker[v], JobOf(v))'
  <2>1. v # w /\ worker'[v] = worker[v]
    BY <1>5 DEF IInv, TypeOK, Busy, Idle
  <2>2. Busy(v) /\ worker[v].tag \in Tags
    BY <1>5, <2>1, BusyType DEF IInv, Busy
  <2>3. JobOf(v)' \in Jobs
    BY <1>1, <1>5 DEF Holding
  <2>4. JobOf(v)' = JobOf(v)
    BY <1>2, <2>1, <2>2, <2>3, JobAssumption DEF JobOf
  <2> QED
    BY <2>1, <2>2, <2>4 DEF IInv, RunOK
<1> QED
  BY <1>1, <1>3, <1>4, <1>5 DEF IInv

\* The pieces of the invariant a run starts its step from.
LEMMA OwnFacts ==
    ASSUME IInv, NEW w \in Workers, Busy(w)
    PROVE  /\ JobOf(w) \in Jobs
           /\ JobOK(JobOf(w))
           /\ RunOK(worker[w], JobOf(w))
           /\ row[JobOf(w)] \in Status \union {"new", "deleted"}
           /\ results[JobOf(w)] \in Nat /\ announced[JobOf(w)] \in Nat
           /\ worker[w].unsaved \in 0 .. 1
           /\ api[JobOf(w)] = "enqueued" /\ row[JobOf(w)] # "new"
<1>1. JobOf(w) \in Jobs /\ worker[w].tag \in Tags /\ worker[w].unsaved \in 0 .. 1
  BY BusyType DEF IInv
<1>2. api[JobOf(w)] = "enqueued"
  BY <1>1, JobAssumption DEF IInv, OneMessage, JobOf
<1>3. JobOK(JobOf(w)) /\ RunOK(worker[w], JobOf(w))
  BY <1>1 DEF IInv
<1> QED
  BY <1>1, <1>2, <1>3 DEF IInv, TypeOK, JobOK

\* Continue moves the slot and nothing else of it.
LEMMA Moves ==
    ASSUME TypeOK, NEW w \in Workers, NEW p, NEW s, NEW d, Continue(w, p, s, d)
    PROVE  /\ \A v \in Workers : v # w => worker'[v] = worker[v]
           /\ worker'[w].pc = p /\ worker'[w].seen = s /\ worker'[w].unsaved = d
           /\ worker'[w].tag = worker[w].tag
BY DEF TypeOK, Continue

LEMMA TaskInv ==
    ASSUME AckAtomic, IInv, NEW w \in Workers, TaskStep(w)
    PROVE  IInv'
<1> PICK j : j = JobOf(w)
  OBVIOUS
<1>1. Busy(w) /\ TypeOK /\ (TypeOK /\ Holding)'
  BY StepIsBusy, TaskType DEF IInv
<1>2. /\ j \in Jobs /\ JobOK(j) /\ RunOK(worker[w], j)
      /\ row[j] \in Status \union {"new", "deleted"}
      /\ results[j] \in Nat /\ announced[j] \in Nat /\ worker[w].unsaved \in 0 .. 1
      /\ api[j] = "enqueued" /\ row[j] # "new"
  BY <1>1, OwnFacts
<1>3. CASE Fetch(w)
  <2>1. PICK p : /\ Continue(w, p, row[j], 0)
                 /\ \/ p = "ack"
                    \/ p = "mark" /\ Exists(j) /\ row[j] \notin Terminal
    BY <1>3 DEF Fetch
  <2>2. RunOK(worker[w], j)'
    BY <1>1, <1>2, <1>3, <2>1, Moves
       DEF Fetch, RunOK, JobOK, Exists, Terminal, Before, FollowUps
  <2>3. JobOK(j)'
    BY <1>2, <1>3 DEF Fetch, JobOK
  <2> QED
    BY <1>1, <1>2, <1>3, <2>1, <2>2, <2>3, Moves, OwnStep DEF Fetch
<1>4. CASE Mark(w)
  <2>1. PICK p, s, d : /\ Continue(w, p, s, d)
                       /\ \/ p = "load" /\ s = "expired" /\ d = 0
                          \/ p = "fail" /\ s = worker[w].seen /\ d = worker[w].unsaved /\ row' = row
    BY <1>4 DEF Mark, Goto
  <2>2. /\ results[j] = 0
        /\ \A k \in Jobs : k # j => row'[k] = row[k]
        /\ row'[j] = row[j] \/ (row'[j] = "processing" /\ row[j] = "pending")
    BY <1>1, <1>2, <1>4 DEF Mark, At, RunOK, Flushed, Before, Exists, TypeOK
  <2>3. RunOK(worker[w], j)'
    BY <1>1, <1>2, <1>4, <2>1, <2>2, Moves DEF Mark, At, RunOK, Terminal, Before, FollowUps
  <2>4. JobOK(j)'
    BY <1>2, <1>4, <2>2 DEF Mark, JobOK
  <2> QED
    BY <1>1, <1>2, <1>4, <2>1, <2>2, <2>3, <2>4, Moves, OwnStep DEF Mark
<1>5. CASE Load(w)
  <2>1. PICK p : Continue(w, p, row[j], 0) /\ p \in {"run", "fail"}
    BY <1>5 DEF Load
  <2>2. RunOK(worker[w], j)'
    BY <1>1, <1>2, <1>5, <2>1, Moves DEF Load, At, RunOK, Terminal, Before, FollowUps
  <2>3. JobOK(j)'
    BY <1>2, <1>5 DEF Load, JobOK
  <2> QED
    BY <1>1, <1>2, <1>5, <2>1, <2>2, <2>3, Moves, OwnStep DEF Load
<1>6. CASE Run(w)
  <2>1. RunOK(worker[w], j)'
    BY <1>1, <1>2, <1>6, Moves DEF Run, At, RunOK, Terminal, Before, FollowUps
  <2>2. JobOK(j)'
    BY <1>2, <1>6 DEF Run, JobOK
  <2> QED
    BY <1>1, <1>2, <1>6, <2>1, <2>2, Moves, OwnStep DEF Run
<1>7. CASE Store(w)
  <2>1. results[j] = 0 /\ announced[j] = 0
    BY <1>2, <1>7 DEF Store, At, RunOK, JobOK, Before
  <2>2. CASE Exists(j)
    <3>1. /\ results'[j] = 1 /\ row'[j] \in Terminal
          /\ \A k \in Jobs : k # j => row'[k] = row[k] /\ results'[k] = results[k]
      BY <1>1, <1>2, <1>7, <2>1, <2>2 DEF Store, RunOK, Flushed, Exists, Terminal, TypeOK
    <3>2. PICK p \in {"audit", "completed"} : Continue(w, p, "expired", 0)
      BY <1>7, <2>2 DEF Store, FirstFollowUp
    <3>3. RunOK(worker[w], j)'
      BY <1>1, <1>7, <2>1, <3>1, <3>2, Moves DEF Store, RunOK, Terminal, Before, FollowUps
    <3>4. JobOK(j)'
      BY <1>2, <1>7, <2>1, <3>1 DEF Store, JobOK, Terminal
    <3> QED
      BY <1>1, <1>2, <1>7, <3>1, <3>2, <3>3, <3>4, Moves, OwnStep DEF Store
  <2>3. CASE ~Exists(j)
    <3>1. Continue(w, "fail", "expired", 0) /\ UNCHANGED <<row, results>>
      BY <1>7, <2>3 DEF Store
    <3>2. RunOK(worker[w], j)'
      BY <1>1, <1>2, <3>1, Moves DEF RunOK, Terminal, Before, FollowUps
    <3>3. JobOK(j)'
      BY <1>2, <1>7, <3>1 DEF Store, JobOK
    <3> QED
      BY <1>1, <1>2, <1>7, <3>1, <3>2, <3>3, Moves, OwnStep DEF Store
  <2> QED
    BY <2>2, <2>3
<1>8. CASE Announce(w)
  <2>1. results[j] = 1 /\ announced[j] = 0
    BY <1>2, <1>8 DEF Announce, At, RunOK, FollowUps
  <2>2. CASE Exists(j)
    <3>1. /\ announced'[j] = 1
          /\ \A k \in Jobs : k # j => announced'[k] = announced[k]
      BY <1>1, <1>2, <1>8, <2>1, <2>2 DEF Announce, TypeOK
    <3>2. PICK p \in {"state", "reports"} : Continue(w, p, row[j], 0)
      BY <1>8, <2>2 DEF Announce, NextFollowUp
    <3>3. RunOK(worker[w], j)'
      BY <1>1, <1>2, <1>8, <2>1, <3>2, Moves
         DEF Announce, RunOK, JobOK, Terminal, Before, FollowUps
    <3>4. JobOK(j)'
      BY <1>2, <1>8, <2>1, <3>1 DEF Announce, JobOK
    <3> QED
      BY <1>1, <1>2, <1>8, <3>1, <3>2, <3>3, <3>4, Moves, OwnStep DEF Announce
  <2>3. CASE ~Exists(j)
    <3>1. Continue(w, "fail", worker[w].seen, worker[w].unsaved) /\ UNCHANGED announced
      BY <1>8, <2>3 DEF Announce, Goto
    <3>2. RunOK(worker[w], j)'
      BY <1>1, <1>2, <1>8, <3>1, Moves DEF Announce, RunOK, Terminal, Before, FollowUps
    <3>3. JobOK(j)'
      BY <1>2, <1>8, <3>1 DEF Announce, JobOK
    <3> QED
      BY <1>1, <1>2, <1>8, <3>1, <3>2, <3>3, Moves, OwnStep DEF Announce
  <2> QED
    BY <2>2, <2>3
<1>9. ASSUME NEW p \in FollowUps, FollowUp(w, p)
      PROVE  IInv'
  <2>1. results[j] = 1 /\ (p = "audit" => announced[j] = 0)
    BY <1>2, <1>9 DEF FollowUp, At, RunOK, FollowUps
  <2>2. PICK q, s : /\ Continue(w, q, s, 0)
                    /\ q = "completed" => p = "audit"
                    /\ q # "audit" /\ q \notin Before /\ q # "mark"
                    /\ s \in {worker[w].seen, "expired"}
    BY <1>9 DEF FollowUp, NextFollowUp, FollowUps, Before
  <2>3. RunOK(worker[w], j)'
    BY <1>1, <1>2, <1>9, <2>1, <2>2, Moves DEF FollowUp, RunOK, Terminal
  <2>4. \A k \in Jobs : k # j => effects'[k] = effects[k]
    BY <1>1, <1>9 DEF FollowUp, TypeOK
  <2>5. JobOK(j)'
    BY <1>2, <1>9, <2>1 DEF FollowUp, JobOK
  <2> QED
    BY <1>1, <1>2, <1>9, <2>2, <2>3, <2>4, <2>5, Moves, OwnStep DEF FollowUp
<1>10. CASE Fail(w)
  <2>1. CASE Exists(j)
    <3>1. /\ row'[j] \in Terminal
          /\ results'[j] = results[j] + worker[w].unsaved
          /\ \A k \in Jobs : k # j => row'[k] = row[k] /\ results'[k] = results[k]
      BY <1>1, <1>2, <1>10, <2>1 DEF Fail, RunOK, Flushed, Exists, Terminal, TypeOK
    <3>2. Continue(w, "notify", "expired", 0)
      BY <1>10, <2>1 DEF Fail
    <3>3. RunOK(worker[w], j)'
      BY <1>1, <1>2, <3>1, <3>2, Moves DEF RunOK, Terminal, Before, FollowUps
    <3>4. JobOK(j)'
      BY <1>2, <1>10, <3>1 DEF Fail, JobOK, RunOK, Terminal
    <3> QED
      BY <1>1, <1>2, <1>10, <3>1, <3>2, <3>3, <3>4, Moves, OwnStep DEF Fail
  <2>2. CASE ~Exists(j)
    <3>1. Continue(w, "raise", "expired", 0) /\ UNCHANGED <<row, results>>
      BY <1>10, <2>2 DEF Fail
    <3>2. RunOK(worker[w], j)'
      BY <1>1, <1>2, <3>1, Moves DEF RunOK, Terminal, Before, FollowUps
    <3>3. JobOK(j)'
      BY <1>2, <1>10, <3>1 DEF Fail, JobOK
    <3> QED
      BY <1>1, <1>2, <1>10, <3>1, <3>2, <3>3, Moves, OwnStep DEF Fail
  <2> QED
    BY <2>1, <2>2
<1>11. CASE Notify(w)
  <2>1. Continue(w, "raise", worker[w].seen, worker[w].unsaved)
    BY <1>11 DEF Notify, Goto
  <2>2. RunOK(worker[w], j)'
    BY <1>1, <1>2, <1>11, <2>1, Moves DEF Notify, RunOK, Before, FollowUps
  <2>3. /\ \A k \in Jobs : k # j => effects'[k] = effects[k]
        /\ effects'[j] \intersect FollowUps = effects[j] \intersect FollowUps
    BY <1>1, <1>2, <1>11 DEF Notify, TypeOK, FollowUps
  <2>4. JobOK(j)'
    BY <1>2, <1>11, <2>3 DEF Notify, JobOK
  <2> QED
    BY <1>1, <1>2, <1>11, <2>1, <2>2, <2>3, <2>4, Moves, OwnStep DEF Notify
<1>12. CASE Retry(w)
  BY <1>1, <1>12, DropInv DEF Retry
<1>13. CASE GiveUp(w)
  <2>1. Continue(w, "ack", worker[w].seen, worker[w].unsaved)
    BY <1>13 DEF GiveUp, Goto
  <2>2. RunOK(worker[w], j)'
    BY <1>1, <1>2, <1>13, <2>1, Moves DEF GiveUp, RunOK, Before, FollowUps
  <2>3. JobOK(j)'
    BY <1>2, <1>13 DEF GiveUp, JobOK
  <2> QED
    BY <1>1, <1>2, <1>13, <2>1, <2>2, <2>3, Moves, OwnStep DEF GiveUp
<1>14. CASE Ack(w)
  BY <1>1, <1>14, DropInv DEF Ack
<1> QED
  BY <1>3, <1>4, <1>5, <1>6, <1>7, <1>8, <1>9, <1>10, <1>11, <1>12, <1>13, <1>14 DEF TaskStep

LEMMA FaultInv ==
    ASSUME IInv, NEW w \in Workers, FaultStep(w)
    PROVE  IInv'
<1> PICK j : j = JobOf(w)
  OBVIOUS
<1>1. Busy(w) /\ TypeOK /\ (TypeOK /\ Holding)'
  BY StepIsBusy, FaultType DEF IInv
<1>2. /\ j \in Jobs /\ JobOK(j) /\ RunOK(worker[w], j)
      /\ row[j] \in Status \union {"new", "deleted"}
      /\ results[j] \in Nat /\ announced[j] \in Nat /\ worker[w].unsaved \in 0 .. 1
      /\ api[j] = "enqueued" /\ row[j] # "new"
  BY <1>1, OwnFacts
<1>3. ASSUME NEW p, Swallowed(w, p)
      PROVE  IInv'
  <2>1. PICK q, s : /\ Continue(w, q, s, 0)
                    /\ q = "completed" => p = "audit"
                    /\ q \in FollowUps => p \in FollowUps
                    /\ q # "audit" /\ q \notin Before
                    /\ s \in {worker[w].seen, row[j]}
    <3>1. CASE p = "notify"
      BY <1>3, <3>1 DEF Swallowed, FollowUps, Before
    <3>2. CASE p # "notify"
      BY <1>3, <3>2 DEF Swallowed, NextFollowUp, FollowUps, Before
    <3> QED
      BY <3>1, <3>2
  <2>2. RunOK(worker[w], j)'
    BY <1>1, <1>2, <1>3, <2>1, Moves DEF Swallowed, At, RunOK, JobOK, Terminal, Before
  <2>3. JobOK(j)'
    BY <1>2, <1>3 DEF Swallowed, JobOK
  <2> QED
    BY <1>1, <1>2, <1>3, <2>1, <2>2, <2>3, Moves, OwnStep DEF Swallowed
<1>4. CASE Raises(w)
  <2>1. PICK p \in {"raise", "fail"} : Continue(w, p, worker[w].seen, worker[w].unsaved)
    BY <1>4 DEF Raises, Goto
  <2>2. RunOK(worker[w], j)'
    BY <1>1, <1>2, <1>4, <2>1, Moves DEF Raises, RunOK, Before, FollowUps
  <2>3. JobOK(j)'
    BY <1>2, <1>4 DEF Raises, JobOK
  <2> QED
    BY <1>1, <1>2, <1>4, <2>1, <2>2, <2>3, Moves, OwnStep DEF Raises
<1>5. CASE SoftTimeout(w)
  <2>1. /\ row'[j] \in Terminal
        /\ \A k \in Jobs : k # j => row'[k] = row[k]
    BY <1>1, <1>2, <1>5 DEF SoftTimeout, RunOK, Flushed, Exists, Terminal, TypeOK
  <2>2. Continue(w, "fail", "expired", 0)
    BY <1>5 DEF SoftTimeout
  <2>3. RunOK(worker[w], j)'
    BY <1>1, <1>2, <1>5, <2>1, <2>2, Moves DEF SoftTimeout, RunOK, Terminal, Before, FollowUps
  <2>4. JobOK(j)'
    BY <1>2, <1>5, <2>1 DEF SoftTimeout, JobOK, Terminal
  <2> QED
    BY <1>1, <1>2, <1>5, <2>1, <2>2, <2>3, <2>4, Moves, OwnStep DEF SoftTimeout
<1>6. CASE CommitFails(w)
  <2>1. PICK p \in {"raise", "fail"} : Continue(w, p, "expired", 0)
    BY <1>6 DEF CommitFails
  <2>2. RunOK(worker[w], j)'
    BY <1>1, <1>2, <1>6, <2>1, Moves DEF CommitFails, RunOK, Terminal, Before, FollowUps
  <2>3. JobOK(j)'
    BY <1>2, <1>6 DEF CommitFails, JobOK
  <2> QED
    BY <1>1, <1>2, <1>6, <2>1, <2>2, <2>3, Moves, OwnStep DEF CommitFails
<1>7. CASE Crash(w)
  BY <1>1, <1>7, DropInv DEF Crash
<1>8. CASE HardTimeout(w)
  <2>1. \A k \in Jobs : effects'[k] \intersect FollowUps = effects[k] \intersect FollowUps
    BY <1>1, <1>2, <1>8 DEF HardTimeout, IInv, TypeOK, FollowUps
  <2> QED
    BY <1>1, <1>8, <2>1, DropInv DEF HardTimeout
<1>9. CASE RetryFails(w)
  <2>1. Continue(w, "ack", worker[w].seen, worker[w].unsaved)
    BY <1>9 DEF RetryFails, Goto
  <2>2. RunOK(worker[w], j)'
    BY <1>1, <1>2, <1>9, <2>1, Moves DEF RetryFails, RunOK, Before, FollowUps
  <2>3. /\ \A k \in Jobs : k # j => effects'[k] = effects[k]
        /\ effects'[j] \intersect FollowUps = effects[j] \intersect FollowUps
    BY <1>1, <1>2, <1>9 DEF RetryFails, IInv, TypeOK, FollowUps
  <2>4. JobOK(j)'
    BY <1>2, <1>9, <2>3 DEF RetryFails, JobOK
  <2> QED
    BY <1>1, <1>2, <1>9, <2>1, <2>2, <2>3, <2>4, Moves, OwnStep DEF RetryFails
<1> QED
  BY <1>3, <1>4, <1>5, <1>6, <1>7, <1>8, <1>9 DEF FaultStep

LEMMA NextInv ==
    ASSUME AckAtomic, IInv, [Next]_vars
    PROVE  IInv'
<1>1. ASSUME NEW j \in Jobs, ApiStep(j) \/ Age(j)
      PROVE  IInv'
  BY <1>1, ApiInv
<1>2. ASSUME NEW w \in Workers, NEW t \in Tags, Deliver(w, t)
      PROVE  IInv'
  BY <1>2, DeliverInv
<1>3. ASSUME NEW w \in Workers, TaskStep(w)
      PROVE  IInv'
  BY <1>3, TaskInv
<1>4. ASSUME NEW w \in Workers, FaultStep(w)
      PROVE  IInv'
  BY <1>4, FaultInv
<1>5. CASE ReapStep \/ ReapFails
  BY <1>5, ReapInv
<1>6. CASE UNCHANGED vars
  BY <1>6 DEF vars, IInv, TypeOK, Holding, OneMessage, JobOK, RunOK, Busy, JobOf
<1> QED
  BY <1>1, <1>2, <1>3, <1>4, <1>5, <1>6 DEF Next

THEOREM Invariance == ASSUME AckAtomic PROVE Spec => []IInv
<1>1. Init => IInv
  BY InitInv
<1>2. IInv /\ [Next]_vars => IInv'
  BY NextInv
<1> QED
  BY <1>1, <1>2, PTL DEF Spec
-----------------------------------------------------------------------------
(* What follows from it. *)

\* Findings are committed at most once, for any number of crashes, retries,
\* redeliveries and sweeps (run_preflight, reap_stale_jobs).
THEOREM StoredOnceHolds == ASSUME AckAtomic PROVE Spec => []StoredOnce
<1>1. IInv => StoredOnce
  BY DEF IInv, JobOK, StoredOnce
<1> QED
  BY <1>1, Invariance, PTL

\* No two workers ever execute the same job.
THEOREM ExclusiveCustodyHolds == ASSUME AckAtomic PROVE Spec => []ExclusiveCustody
<1>1. IInv => ExclusiveCustody
  BY DEF IInv, OneMessage, Holding, ExclusiveCustody
<1> QED
  BY <1>1, Invariance, PTL

\* A row whose findings are committed is terminal or deleted.
THEOREM StoredIsSettledHolds == ASSUME AckAtomic PROVE Spec => []StoredIsSettled
<1>1. IInv => StoredIsSettled
  BY DEF IInv, JobOK, StoredIsSettled
<1> QED
  BY <1>1, Invariance, PTL

\* No step of a worker, the reaper or the API takes a terminal row back to work.
THEOREM NeverReopenedHolds == ASSUME AckAtomic PROVE Spec => NeverReopened
<1> DEFINE Keeps == \A j \in Jobs :
                       row[j] \in Terminal => row'[j] \notin {"pending", "processing"}
<1>1. ASSUME IInv, [Next]_vars
      PROVE  Keeps
  <2> SUFFICES ASSUME NEW j \in Jobs, row[j] \in Terminal
               PROVE  row'[j] \notin {"pending", "processing"}
    OBVIOUS
  <2>1. CASE \E k \in Jobs : ApiStep(k) \/ Age(k)
    <3> PICK k \in Jobs : ApiStep(k) \/ Age(k)
      BY <2>1
    <3>1. CASE Submit(k)
      <4>1. row[k] = "new"
        BY <1>1, <3>1 DEF IInv, JobOK, Submit
      <4> QED
        BY <1>1, <3>1, <4>1 DEF Submit, IInv, TypeOK, Terminal
    <3>2. CASE ~Submit(k)
      BY <1>1, <3>2 DEF IInv, TypeOK, ApiStep, Enqueue, Abandon, Delete, Age, Terminal
    <3> QED
      BY <3>1, <3>2
  <2>2. CASE \E w \in Workers : Mark(w)
    <3> PICK w \in Workers : Mark(w)
      BY <2>2
    <3>1. JobOf(w) \in Jobs /\ RunOK(worker[w], JobOf(w))
      BY <1>1, OwnFacts DEF Mark, At
    <3> QED
      BY <1>1, <3>1 DEF Mark, At, RunOK, Flushed, IInv, TypeOK, Terminal
  <2>3. CASE \E w \in Workers : Store(w) \/ Fail(w) \/ SoftTimeout(w)
    BY <1>1, <2>3 DEF Store, Fail, SoftTimeout, Flushed, IInv, TypeOK, Terminal
  <2>4. CASE ReapCommit
    BY <2>4 DEF ReapCommit, Terminal
  <2>5. CASE row' = row
    BY <2>5 DEF Terminal
  <2>6. \/ row' = row
        \/ ReapCommit
        \/ \E k \in Jobs : ApiStep(k) \/ Age(k)
        \/ \E w \in Workers : Mark(w) \/ Store(w) \/ Fail(w) \/ SoftTimeout(w)
    BY <1>1 DEF Next, vars, Deliver, TaskStep, Fetch, Load, Run, Announce, FollowUp, Notify,
                Retry, GiveUp, Ack, FaultStep, Swallowed, Raises, CommitFails, Crash,
                HardTimeout, RetryFails, ReapStep, ReapScan, ReapFails
  <2> QED
    BY <2>1, <2>2, <2>3, <2>4, <2>5, <2>6
<1>2. IInv /\ [Next]_vars => [Keeps]_vars
  BY <1>1
<1> QED
  BY <1>2, Invariance, PTL DEF Spec, NeverReopened
-----------------------------------------------------------------------------
(* The job implements its contract. *)

\* What a run's own step does to the row, the results and the announcements is one
\* step of the contract or none.
LEMMA RunRefines ==
    ASSUME IInv, NEW w \in Workers,
           Mark(w) \/ Store(w) \/ Announce(w) \/ Fail(w) \/ SoftTimeout(w)
    PROVE  Contract!Next \/ UNCHANGED <<row, results, announced>>
<1> PICK j : j = JobOf(w)
  OBVIOUS
<1>1. /\ j \in Jobs /\ JobOK(j) /\ RunOK(worker[w], j)
      /\ row[j] \in Status \union {"new", "deleted"}
      /\ results[j] \in Nat /\ announced[j] \in Nat /\ worker[w].unsaved \in 0 .. 1
      /\ row[j] # "new" /\ TypeOK
  BY OwnFacts DEF Mark, Store, Announce, Fail, SoftTimeout, At, IInv
<1>2. CASE Mark(w)
  <2>1. /\ UNCHANGED <<results, announced>>
        /\ row' = row \/ (row[j] = "pending" /\ row' = [row EXCEPT ![j] = "processing"])
    BY <1>1, <1>2 DEF Mark, At, RunOK, Flushed, Exists, TypeOK
  <2> QED
    BY <1>1, <2>1 DEF Contract!Next, Contract!Start, Contract!Move, Contract!Live
<1>3. CASE Store(w)
  <2>1. CASE Exists(j)
    <3>1. results[j] = 0 /\ results' = [results EXCEPT ![j] = 1] /\ UNCHANGED announced
      BY <1>1, <1>3, <2>1 DEF Store, At, RunOK, Before, TypeOK
    <3>2. PICK s \in {"complete", "failed"} : row' = [row EXCEPT ![j] = s]
      <4>1. worker[w].seen = "complete" => row[j] \in {"complete", "failed"}
        BY <1>1, <2>1 DEF RunOK, Terminal, Exists
      <4> QED
        BY <1>1, <1>3, <2>1, <4>1 DEF Store, Flushed
    <3>3. Contract!StoreOnce(j)
      BY <1>1, <2>1, <3>1, <3>2
         DEF Exists, Contract!StoreOnce, Contract!Move, Contract!Live, Contract!Ended
    <3> QED
      BY <1>1, <3>3 DEF Contract!Next
  <2>2. CASE ~Exists(j)
    BY <1>3, <2>2 DEF Store
  <2> QED
    BY <2>1, <2>2
<1>4. CASE Announce(w)
  <2>1. results[j] = 1 /\ announced[j] = 0
    BY <1>1, <1>4 DEF Announce, At, RunOK, FollowUps
  <2>2. /\ UNCHANGED <<row, results>>
        /\ announced' = announced \/ announced' = [announced EXCEPT ![j] = 1]
    BY <1>1, <1>4, <2>1 DEF Announce, TypeOK
  <2> QED
    BY <1>1, <2>1, <2>2 DEF Contract!Next, Contract!Tell
<1>5. CASE Fail(w)
  <2>1. CASE Exists(j)
    <3>1. /\ UNCHANGED announced
          /\ results' = [results EXCEPT ![j] = results[j] + worker[w].unsaved]
          /\ row' = [row EXCEPT ![j] = Flushed(w, "failed")]
      BY <1>1, <1>5, <2>1 DEF Fail
    <3>2. CASE worker[w].unsaved = 1
      <4>1. results[j] = 0 /\ results' = [results EXCEPT ![j] = 1]
        <5>1. results[j] + 1 <= 1
          BY <1>1, <3>2 DEF RunOK
        <5>2. results[j] = 0
          BY <1>1, <5>1
        <5> QED
          BY <3>1, <3>2, <5>2
      <4>2. PICK s \in {"complete", "failed"} : row' = [row EXCEPT ![j] = s]
        <5>1. worker[w].seen = "failed" => row[j] \in {"complete", "failed"}
          BY <1>1, <2>1 DEF RunOK, Terminal, Exists
        <5> QED
          BY <1>1, <3>1, <5>1 DEF Flushed
      <4>3. Contract!StoreOnce(j)
        BY <1>1, <2>1, <3>1, <4>1, <4>2
           DEF Exists, Contract!StoreOnce, Contract!Move, Contract!Live, Contract!Ended
      <4> QED
        BY <1>1, <4>3 DEF Contract!Next
    <3>3. CASE worker[w].unsaved = 0
      <4>1. results' = results
        BY <1>1, <3>1, <3>3 DEF TypeOK
      <4>2. row' = row \/ row' = [row EXCEPT ![j] = "failed"]
        BY <1>1, <3>1 DEF Flushed, TypeOK
      <4>3. row' = row \/ Contract!Reject(j)
        BY <1>1, <2>1, <3>1, <4>1, <4>2
           DEF Exists, Contract!Reject, Contract!Move, Contract!Live, Contract!Ended
      <4> QED
        BY <1>1, <3>1, <4>1, <4>3 DEF Contract!Next
    <3> QED
      BY <1>1, <3>2, <3>3
  <2>2. CASE ~Exists(j)
    BY <1>5, <2>2 DEF Fail
  <2> QED
    BY <2>1, <2>2
<1>6. CASE SoftTimeout(w)
  <2>1. /\ UNCHANGED <<results, announced>> /\ Exists(j)
        /\ row' = row \/ row' = [row EXCEPT ![j] = "failed"]
    BY <1>1, <1>6 DEF SoftTimeout, Flushed, TypeOK
  <2>2. row' = row \/ Contract!Reject(j)
    BY <1>1, <2>1 DEF Exists, Contract!Reject, Contract!Move, Contract!Live, Contract!Ended
  <2> QED
    BY <1>1, <2>1, <2>2 DEF Contract!Next
<1> QED
  BY <1>2, <1>3, <1>4, <1>5, <1>6

LEMMA StepRefines ==
    ASSUME IInv, [Next]_vars
    PROVE  Contract!Next \/ UNCHANGED <<row, results, announced>>
<1>1. ASSUME NEW j \in Jobs, Submit(j)
      PROVE  Contract!Next
  <2>1. row[j] = "new"
    BY <1>1 DEF IInv, JobOK, Submit
  <2> QED
    BY <1>1, <2>1 DEF Submit, Contract!Next, Contract!Accept, Contract!Move
<1>2. ASSUME NEW j \in Jobs, Delete(j)
      PROVE  Contract!Next
  BY <1>2 DEF Delete, Exists, Contract!Next, Contract!Remove, Contract!Move, Contract!Live,
              Contract!Ended
<1>3. CASE ReapCommit
  <2>1. CASE \A j \in scan : Exists(j)
    <3>1. Contract!RejectAll(scan) /\ scan \in SUBSET Jobs
      BY <1>3, <2>1 DEF ReapCommit, Exists, Contract!RejectAll, Contract!Live, Contract!Ended,
                        IInv, TypeOK
    <3> QED
      BY <3>1 DEF Contract!Next
  <2>2. CASE ~(\A j \in scan : Exists(j))
    BY <1>3, <2>2 DEF ReapCommit
  <2> QED
    BY <2>1, <2>2
<1>4. \/ UNCHANGED <<row, results, announced>>
      \/ ReapCommit
      \/ \E j \in Jobs : Submit(j) \/ Delete(j)
      \/ \E w \in Workers : Mark(w) \/ Store(w) \/ Announce(w) \/ Fail(w) \/ SoftTimeout(w)
  BY DEF Next, vars, ApiStep, Enqueue, Abandon, Age, Deliver, TaskStep, Fetch, Load, Run,
         FollowUp, Notify, Retry, GiveUp, Ack, FaultStep, Swallowed, Raises, CommitFails,
         Crash, HardTimeout, RetryFails, ReapStep, ReapScan, ReapFails
<1> QED
  BY <1>1, <1>2, <1>3, <1>4, RunRefines

\* The workers, the reaper and the API keep the client's contract: findings are
\* stored once, nothing ended goes back to work, job.completed follows the findings
\* and is emitted at most once.
THEOREM Implementation == ASSUME AckAtomic PROVE Spec => ImplementsContract
<1>1. Init => Contract!Init
  BY DEF Init, Contract!Init
<1>2. IInv /\ [Next]_vars => [Contract!Next]_(Contract!vars)
  BY StepRefines DEF Contract!vars
<1> QED
  BY <1>1, <1>2, Invariance, PTL DEF Spec, ImplementsContract, Contract!Spec
-----------------------------------------------------------------------------
(***************************************************************************)
(* A broker that delivers twice.  Nothing below assumes AckAtomic: a crash *)
(* between a retry's publish and the ack of its attempt leaves two         *)
(* messages of one job, and two workers may run it side by side.  Then     *)
(* rows do reopen and findings are committed again; what still holds is    *)
(* that a job's task is not lost, that events follow commits, and that the *)
(* extra commits are paid for by faults.                                   *)
(***************************************************************************)
\* Where a run has committed its findings, where it is about to ask for a retry, and
\* where a row still waits for its run.
Past == FollowUps \union {"ack"}
Failing == {"fail", "notify", "raise"}
Unsettled == {"pending", "processing"}

\* Only a job the API has enqueued has a message or findings.
Known ==
    /\ \A j \in Jobs : /\ api[j] = "new" <=> row[j] = "new"
                       /\ api[j] # "enqueued" => results[j] = 0
    /\ \A t \in Tags : msg[t].job # NoJob => api[msg[t].job] = "enqueued"

\* A run s of the job j follows up committed findings only, holds unsaved ones only
\* where it stores them or fails, and marks a row it has seen unsettled.
RunSane(s, j) ==
    /\ s.pc \in FollowUps => results[j] > 0
    /\ s.unsaved = 1 => s.pc \in {"store", "fail"}
    /\ s.pc = "mark" => s.seen \in Unsettled

Sane == \A w \in Workers : Busy(w) => RunSane(worker[w], JobOf(w))

Base == TypeOK /\ Holding /\ Known /\ Sane

\* The commits a run in state s may still make: the one of its store, and the one its
\* failure handler makes by accident when it commits a session that holds findings.
Copy(s) == IF s.pc \in Past THEN 0 ELSE 1
Burden(s) == IF s.pc = "fail" /\ s.unsaved = 1 THEN 1 ELSE 0
\* The job.completed it will still send.
Pledge(s) == IF s.pc \in {"audit", "completed"} THEN 1 ELSE 0
\* It will take its row out of the unsettled ones, or ask for a retry.
Settling(s) == /\ s.pc \notin Past
               /\ s.pc \in {"run", "store"} => s.seen # "complete"

\* A step of w's run of j touches nothing of the others.
Moving(w, j) ==
    /\ \A v \in Workers : v # w => worker'[v] = worker[v]
    /\ worker'[w].tag = worker[w].tag
    /\ UNCHANGED <<api, msg>>
    /\ \A k \in Jobs : k # j => /\ row'[k] = row[k]
                                /\ results'[k] = results[k]
                                /\ announced'[k] = announced[k]
                                /\ effects'[k] = effects[k]
    /\ faults' \in {faults, faults + 1}
    /\ row'[j] = "deleted" <=> row[j] = "deleted"
    /\ row'[j] # "new"
    /\ results'[j] >= results[j]

\* A commit uses up a copy or a burden of the run; a new one is paid for by a fault.
Charging(w, j) ==
    /\ row[j] = "deleted" => results'[j] = results[j]
    /\ row[j] # "deleted" =>
           results'[j] + Copy(worker'[w]) + Burden(worker'[w])
               <= results[j] + Copy(worker[w]) + Burden(worker[w]) + (faults' - faults)

\* An event uses up a pledge, which a commit has made; the follow-ups come after it.
Telling(w, j) ==
    /\ announced'[j] + Pledge(worker'[w]) + results[j]
           <= announced[j] + Pledge(worker[w]) + results'[j]
    /\ effects'[j] \intersect FollowUps # {} =>
           effects[j] \intersect FollowUps # {} \/ results'[j] > 0

\* A run comes to ask for a retry only by a fault, or because its row is gone.
Paying(w, j) ==
    /\ worker'[w].pc \in Failing /\ row[j] # "deleted"
    => worker[w].pc \in Failing \/ faults' = faults + 1

\* A row that is unsettled after the step was so before it, and a run that was to settle
\* it still is.
Caring(w, j) ==
    /\ row'[j] \in Unsettled
    /\ "lost" \notin effects'[j]
    => /\ "lost" \notin effects[j]
       /\ row[j] \in Unsettled => (Settling(worker[w]) => Settling(worker'[w]))
       /\ row[j] \notin Unsettled => Settling(worker'[w])

\* What every step of a run that keeps its slot does.
Step(w, j) == /\ Moving(w, j) /\ RunSane(worker[w], j)'
              /\ Charging(w, j) /\ Telling(w, j) /\ Paying(w, j)

USE DEF Past, Failing, Unsettled

\* What a run knows before it takes a step.
LEMMA BaseFacts ==
    ASSUME Base, NEW w \in Workers, Busy(w), NEW j, j = JobOf(w)
    PROVE  /\ j \in Jobs /\ RunSane(worker[w], j)
           /\ worker[w] \in Slot
           /\ worker[w].tag \in Tags /\ worker[w].pc \in Steps \union {"idle"}
           /\ worker[w].seen \in Seen /\ worker[w].unsaved \in 0 .. 1
           /\ row[j] \in Status \union {"deleted"}
           /\ results[j] \in Nat /\ announced[j] \in Nat /\ faults \in Nat
           /\ effects[j] \subseteq FollowUps \union {"failed", "lost"}
           /\ api[j] = "enqueued"
<1>1. j \in Jobs /\ worker[w].tag \in Tags /\ RunSane(worker[w], j)
  BY BusyType DEF Base, Sane
<1>2. api[j] = "enqueued"
  BY <1>1, JobAssumption DEF Base, Known, JobOf
<1> QED
  BY <1>1, <1>2, BoundAssumption DEF Base, TypeOK, Slot, Seen, Known

\* A step that leaves the database alone.
LEMMA PlainStep ==
    ASSUME Base, NEW w \in Workers, Busy(w), NEW j, j = JobOf(w),
           NEW p, NEW s, NEW d \in 0 .. 1, Continue(w, p, s, d),
           UNCHANGED <<row, api, msg, results, announced>>,
           faults' \in {faults, faults + 1},
           \A k \in Jobs : k # j => effects'[k] = effects[k],
           effects'[j] \intersect FollowUps # {}
              => effects[j] \intersect FollowUps # {} \/ results[j] > 0,
           "lost" \in effects[j] => "lost" \in effects'[j],
           p \in FollowUps => worker[w].pc \in FollowUps,
           p \in {"audit", "completed"} => worker[w].pc \in {"audit", "completed"},
           d = 1 => \/ p = "store"
                    \/ /\ p = "fail"
                       /\ \/ worker[w].pc = "fail" /\ worker[w].unsaved = 1
                          \/ faults' = faults + 1,
           p = "mark" => s \in Unsettled,
           p \notin Past /\ worker[w].pc \in Past /\ row[j] # "deleted"
              => faults' = faults + 1 /\ d = 0,
           p \in Failing /\ row[j] # "deleted" => worker[w].pc \in Failing \/ faults' = faults + 1,
           row[j] \in Unsettled /\ "lost" \notin effects'[j] /\ Settling(worker[w])
              => p \notin Past /\ (p \in {"run", "store"} => s # "complete")
    PROVE  Step(w, j) /\ Caring(w, j)
<1>1. TypeOK
  BY DEF Base
<1>2. /\ j \in Jobs /\ RunSane(worker[w], j)
      /\ row[j] \in Status \union {"deleted"}
      /\ results[j] \in Nat /\ announced[j] \in Nat /\ faults \in Nat
  BY BaseFacts
<1>3. /\ worker'[w].pc = p /\ worker'[w].seen = s /\ worker'[w].unsaved = d
      /\ worker'[w].tag = worker[w].tag
      /\ \A v \in Workers : v # w => worker'[v] = worker[v]
  BY <1>1, Moves
<1>4. Moving(w, j)
  BY <1>1, <1>2, <1>3 DEF Moving
<1>5. RunSane(worker[w], j)'
  BY <1>1, <1>2, <1>3 DEF RunSane
<1>6. Charging(w, j)
  BY <1>1, <1>2, <1>3 DEF Charging, Copy, Burden, FollowUps
<1>7. Telling(w, j)
  BY <1>1, <1>2, <1>3 DEF Telling, Pledge
<1>8. Paying(w, j)
  BY <1>1, <1>3 DEF Paying
<1>9. Caring(w, j)
  BY <1>1, <1>3 DEF Caring, Settling
<1> QED
  BY <1>4, <1>5, <1>6, <1>7, <1>8, <1>9 DEF Step

\* The steps of a run in which nothing goes wrong.
LEMMA TaskMoves ==
    ASSUME Base, NEW w \in Workers, NEW j, j = JobOf(w),
           \/ Fetch(w) \/ Mark(w) \/ Load(w) \/ Run(w) \/ Store(w) \/ Announce(w)
           \/ \E p \in FollowUps : FollowUp(w, p)
           \/ Fail(w) \/ Notify(w)
    PROVE  Step(w, j) /\ Caring(w, j)
<1>0. Busy(w)
  BY DEF Fetch, Mark, Load, Run, Store, Announce, FollowUp, Fail, Notify, At
<1>1. /\ j \in Jobs /\ RunSane(worker[w], j)
      /\ worker[w].seen \in Seen /\ worker[w].unsaved \in 0 .. 1
      /\ row[j] \in Status \union {"deleted"}
      /\ results[j] \in Nat /\ announced[j] \in Nat /\ faults \in Nat
  BY <1>0, BaseFacts
<1>2. TypeOK
  BY DEF Base
<1>3. CASE Fetch(w)
  <2>1. worker[w].pc = "fetch" /\ UNCHANGED <<row, api, msg, results, announced, effects, faults>>
    BY <1>3 DEF Fetch, At
  <2>2. CASE row[j] \in Unsettled
    <3>1. Continue(w, "mark", row[j], 0)
      BY <1>3, <2>2 DEF Fetch, Exists, Terminal
    <3> QED
      BY <1>0, <2>1, <2>2, <3>1, PlainStep DEF FollowUps, Settling
  <2>3. CASE row[j] \notin Unsettled
    <3>1. Continue(w, "ack", row[j], 0)
      BY <1>1, <1>3, <2>3 DEF Fetch, Exists, Terminal
    <3> QED
      BY <1>0, <2>1, <2>3, <3>1, PlainStep DEF FollowUps, Settling
  <2> QED
    BY <2>2, <2>3
<1>4. CASE Mark(w)
  <2>1. /\ worker[w].pc = "mark" /\ worker[w].seen \in Unsettled /\ worker[w].unsaved = 0
        /\ UNCHANGED <<api, msg, results, announced, effects, faults>>
    BY <1>1, <1>4 DEF Mark, At, RunSane
  <2>2. CASE worker[w].seen = "processing" \/ Exists(j)
    <3>1. /\ row' = [row EXCEPT ![j] = Flushed(w, "processing")]
          /\ Continue(w, "load", "expired", 0)
      BY <1>4, <2>2 DEF Mark
    <3>2. /\ \A k \in Jobs : k # j => row'[k] = row[k]
          /\ row'[j] = "deleted" <=> row[j] = "deleted"
          /\ row'[j] # "new"
      BY <1>1, <1>2, <2>1, <2>2, <3>1 DEF Flushed, Exists, TypeOK
    <3>3. /\ worker'[w].pc = "load" /\ worker'[w].seen = "expired" /\ worker'[w].unsaved = 0
          /\ worker'[w].tag = worker[w].tag
          /\ \A v \in Workers : v # w => worker'[v] = worker[v]
      BY <1>2, <3>1, Moves
    <3> QED
      BY <1>1, <2>1, <3>2, <3>3 DEF Step, Moving, RunSane, Charging, Copy, Burden, Telling, Pledge,
         Paying, Caring, Settling, FollowUps
  <2>3. CASE ~(worker[w].seen = "processing" \/ Exists(j))
    <3>1. Continue(w, "fail", worker[w].seen, 0) /\ UNCHANGED row
      BY <1>4, <2>1, <2>3 DEF Mark, Goto
    <3>2. row[j] = "deleted"
      BY <1>1, <2>3 DEF Exists
    <3> QED
      BY <1>0, <2>1, <3>1, <3>2, PlainStep DEF FollowUps
  <2> QED
    BY <2>2, <2>3
<1>5. CASE Load(w)
  <2>1. worker[w].pc = "load" /\ UNCHANGED <<row, api, msg, results, announced, effects, faults>>
    BY <1>5 DEF Load, At
  <2>2. PICK p : /\ Continue(w, p, row[j], 0) /\ p \in {"run", "fail"}
                 /\ p = "fail" => row[j] = "deleted"
    BY <1>1, <1>5 DEF Load, Exists
  <2> QED
    BY <1>0, <2>1, <2>2, PlainStep DEF FollowUps
<1>6. CASE Run(w)
  <2>1. /\ worker[w].pc = "run" /\ UNCHANGED <<row, api, msg, results, announced, effects, faults>>
        /\ Continue(w, "store", worker[w].seen, 1)
    BY <1>6 DEF Run, At
  <2> QED
    BY <1>0, <2>1, PlainStep DEF FollowUps, Settling
<1>7. CASE Store(w)
  <2>1. worker[w].pc = "store" /\ UNCHANGED <<api, msg, announced, effects, faults>>
    BY <1>7 DEF Store, At
  <2>2. CASE Exists(j)
    <3>1. /\ row' = [row EXCEPT ![j] = Flushed(w, "complete")]
          /\ results' = [results EXCEPT ![j] = results[j] + 1]
      BY <1>7, <2>2 DEF Store
    <3>2. PICK p \in {"audit", "completed"} : Continue(w, p, "expired", 0)
      BY <1>7, <2>2 DEF Store, FirstFollowUp
    <3>3. /\ \A k \in Jobs : k # j => row'[k] = row[k] /\ results'[k] = results[k]
          /\ row[j] # "deleted" /\ row'[j] # "deleted" /\ row'[j] # "new"
          /\ results'[j] = results[j] + 1
          /\ worker[w].seen # "complete" => row'[j] = "complete"
          /\ worker[w].seen = "complete" => row'[j] = row[j]
      BY <1>1, <1>2, <2>2, <3>1 DEF Flushed, Exists, TypeOK
    <3>4. /\ worker'[w].pc = p /\ worker'[w].seen = "expired" /\ worker'[w].unsaved = 0
          /\ worker'[w].tag = worker[w].tag
          /\ \A v \in Workers : v # w => worker'[v] = worker[v]
      BY <1>2, <3>2, Moves
    <3>5. Moving(w, j) /\ RunSane(worker[w], j)'
      BY <1>1, <2>1, <3>2, <3>3, <3>4 DEF Moving, RunSane
    <3>6. Charging(w, j) /\ Telling(w, j) /\ Paying(w, j) /\ Caring(w, j)
      BY <1>1, <2>1, <3>2, <3>3, <3>4 DEF Charging, Copy, Burden, Telling, Pledge, Paying, Caring,
         Settling, FollowUps
    <3> QED
      BY <3>5, <3>6 DEF Step
  <2>3. CASE ~Exists(j)
    <3>1. Continue(w, "fail", "expired", 0) /\ UNCHANGED <<row, results>> /\ row[j] = "deleted"
      BY <1>1, <1>7, <2>3 DEF Store, Exists
    <3> QED
      BY <1>0, <2>1, <3>1, PlainStep DEF FollowUps
  <2> QED
    BY <2>2, <2>3
<1>8. CASE Announce(w)
  <2>1. worker[w].pc = "completed" /\ UNCHANGED <<row, api, msg, results, effects, faults>>
    BY <1>8 DEF Announce, At
  <2>2. worker[w].unsaved = 0 /\ results[j] > 0
    BY <1>1, <2>1 DEF RunSane, FollowUps
  <2>3. CASE Exists(j)
    <3>1. /\ announced'[j] = announced[j] + 1
          /\ \A k \in Jobs : k # j => announced'[k] = announced[k]
      BY <1>1, <1>2, <1>8, <2>3 DEF Announce, TypeOK
    <3>2. PICK p \in {"state", "reports"} : Continue(w, p, row[j], 0)
      BY <1>8, <2>3 DEF Announce, NextFollowUp
    <3>4. /\ worker'[w].pc = p /\ worker'[w].seen = row[j] /\ worker'[w].unsaved = 0
          /\ worker'[w].tag = worker[w].tag
          /\ \A v \in Workers : v # w => worker'[v] = worker[v]
      BY <1>2, <3>2, Moves
    <3>5. Moving(w, j) /\ RunSane(worker[w], j)'
      BY <1>1, <2>1, <2>2, <3>1, <3>2, <3>4 DEF Moving, RunSane
    <3>6. Charging(w, j) /\ Telling(w, j) /\ Paying(w, j) /\ Caring(w, j)
      BY <1>1, <2>1, <2>2, <3>1, <3>2, <3>4 DEF Charging, Copy, Burden, Telling, Pledge, Paying,
         Caring, Settling, FollowUps
    <3> QED
      BY <3>5, <3>6 DEF Step
  <2>4. CASE ~Exists(j)
    <3>1. Continue(w, "fail", worker[w].seen, 0) /\ UNCHANGED announced /\ row[j] = "deleted"
      BY <1>1, <1>8, <2>2, <2>4 DEF Announce, Goto, Exists
    <3> QED
      BY <1>0, <2>1, <3>1, PlainStep DEF FollowUps
  <2> QED
    BY <2>3, <2>4
<1>9. ASSUME NEW p \in FollowUps, FollowUp(w, p)
      PROVE  Step(w, j) /\ Caring(w, j)
  <2>1. /\ worker[w].pc = p /\ p # "completed"
        /\ UNCHANGED <<row, api, msg, results, announced, faults>>
        /\ results[j] > 0
    BY <1>1, <1>9 DEF FollowUp, At, RunSane
  <2>2. PICK q, s : /\ Continue(w, q, s, 0)
                    /\ q \in Past \union {"fail"}
                    /\ q \in {"audit", "completed"} => p = "audit"
                    /\ q = "fail" => row[j] = "deleted"
    BY <1>1, <1>9 DEF FollowUp, NextFollowUp, FollowUps, Exists
  <2>3. /\ \A k \in Jobs : k # j => effects'[k] = effects[k]
        /\ "lost" \in effects[j] => "lost" \in effects'[j]
    BY <1>1, <1>2, <1>9 DEF FollowUp, TypeOK
  <2> QED
    BY <1>0, <1>1, <2>1, <2>2, <2>3, PlainStep DEF FollowUps, Settling
<1>10. CASE Fail(w)
  <2>1. worker[w].pc = "fail" /\ UNCHANGED <<api, msg, announced, effects, faults>>
    BY <1>10 DEF Fail, At
  <2>2. CASE Exists(j)
    <3>1. /\ row' = [row EXCEPT ![j] = Flushed(w, "failed")]
          /\ results' = [results EXCEPT ![j] = results[j] + worker[w].unsaved]
          /\ Continue(w, "notify", "expired", 0)
      BY <1>10, <2>2 DEF Fail
    <3>3. /\ \A k \in Jobs : k # j => row'[k] = row[k] /\ results'[k] = results[k]
          /\ row[j] # "deleted" /\ row'[j] # "deleted" /\ row'[j] # "new"
          /\ results'[j] = results[j] + worker[w].unsaved
          /\ row'[j] = "failed" \/ row'[j] = row[j]
      BY <1>1, <1>2, <2>2, <3>1 DEF Flushed, Exists, TypeOK
    <3>4. /\ worker'[w].pc = "notify" /\ worker'[w].seen = "expired" /\ worker'[w].unsaved = 0
          /\ worker'[w].tag = worker[w].tag
          /\ \A v \in Workers : v # w => worker'[v] = worker[v]
      BY <1>2, <3>1, Moves
    <3>5. Moving(w, j) /\ RunSane(worker[w], j)'
      BY <1>1, <2>1, <3>3, <3>4 DEF Moving, RunSane, FollowUps
    <3>6. Charging(w, j) /\ Telling(w, j) /\ Paying(w, j) /\ Caring(w, j)
      BY <1>1, <2>1, <3>3, <3>4 DEF Charging, Copy, Burden, Telling, Pledge, Paying, Caring,
         Settling, FollowUps
    <3> QED
      BY <3>5, <3>6 DEF Step
  <2>3. CASE ~Exists(j)
    <3>1. Continue(w, "raise", "expired", 0) /\ UNCHANGED <<row, results>> /\ row[j] = "deleted"
      BY <1>1, <1>10, <2>3 DEF Fail, Exists
    <3> QED
      BY <1>0, <2>1, <3>1, PlainStep DEF FollowUps
  <2> QED
    BY <2>2, <2>3
<1>11. CASE Notify(w)
  <2>1. /\ worker[w].pc = "notify" /\ UNCHANGED <<row, api, msg, results, announced, faults>>
        /\ Continue(w, "raise", worker[w].seen, worker[w].unsaved)
    BY <1>11 DEF Notify, At, Goto
  <2>2. worker[w].unsaved = 0
    BY <1>1, <2>1 DEF RunSane
  <2>3. /\ \A k \in Jobs : k # j => effects'[k] = effects[k]
        /\ effects'[j] \intersect FollowUps = effects[j] \intersect FollowUps
        /\ "lost" \in effects[j] => "lost" \in effects'[j]
    BY <1>1, <1>2, <1>11 DEF Notify, TypeOK, FollowUps
  <2> QED
    BY <1>0, <2>1, <2>2, <2>3, PlainStep DEF FollowUps, Settling
<1> QED
  BY <1>3, <1>4, <1>5, <1>6, <1>7, <1>8, <1>9, <1>10, <1>11

\* The steps in which something does and the run goes on in its slot.
LEMMA FaultMoves ==
    ASSUME Base, NEW w \in Workers, NEW j, j = JobOf(w),
           \/ \E p \in FollowUps \union {"notify"} : Swallowed(w, p)
           \/ Raises(w) \/ SoftTimeout(w) \/ CommitFails(w) \/ RetryFails(w)
    PROVE  Step(w, j) /\ Caring(w, j)
<1>0. Busy(w) /\ faults' = faults + 1
  BY DEF Swallowed, Raises, SoftTimeout, CommitFails, RetryFails, At, Fault
<1>1. /\ j \in Jobs /\ RunSane(worker[w], j)
      /\ worker[w].seen \in Seen /\ worker[w].unsaved \in 0 .. 1
      /\ row[j] \in Status \union {"deleted"}
      /\ results[j] \in Nat /\ announced[j] \in Nat /\ faults \in Nat
  BY <1>0, BaseFacts
<1>2. TypeOK
  BY DEF Base
<1>3. ASSUME NEW p \in FollowUps \union {"notify"}, Swallowed(w, p)
      PROVE  Step(w, j) /\ Caring(w, j)
  <2>1. worker[w].pc = p /\ UNCHANGED <<row, api, msg, results, announced, effects>>
    BY <1>3 DEF Swallowed, At
  <2>2. PICK q, s : /\ Continue(w, q, s, 0)
                    /\ p = "notify" => q = "raise"
                    /\ p # "notify" => q \in Past
                    /\ q \in {"audit", "completed"} => p = "audit"
    <3>1. CASE p = "notify"
      <4>1. Continue(w, "raise", worker[w].seen, 0)
        BY <1>3, <3>1 DEF Swallowed
      <4> QED
        BY <3>1, <4>1
    <3>2. CASE p # "notify"
      BY <1>3, <3>2 DEF Swallowed, NextFollowUp, FollowUps
    <3> QED
      BY <3>1, <3>2
  <2> QED
    BY <1>0, <1>1, <2>1, <2>2, PlainStep DEF FollowUps, Settling
<1>4. CASE Raises(w)
  <2>1. /\ worker[w].pc \in {"fetch"} \union Before \union FollowUps
        /\ UNCHANGED <<row, api, msg, results, announced, effects>>
    BY <1>4 DEF Raises
  <2>2. PICK q \in {"raise", "fail"} :
               /\ Continue(w, q, worker[w].seen, worker[w].unsaved)
               /\ q = "raise" => worker[w].pc = "fetch"
    BY <1>4 DEF Raises, Goto
  <2>3. worker[w].unsaved = 1 => worker[w].pc = "store"
    BY <1>1, <2>1 DEF RunSane, Before, FollowUps
  <2>4. worker[w].unsaved = 1 => q = "fail"
    BY <2>2, <2>3
  <2> QED
    BY <1>0, <1>1, <2>1, <2>2, <2>3, <2>4, PlainStep DEF Before, FollowUps, Settling
<1>5. CASE SoftTimeout(w)
  <2>1. /\ worker[w].pc = "run" /\ UNCHANGED <<api, msg, results, announced, effects>>
        /\ row' = [row EXCEPT ![j] = Flushed(w, "failed")] /\ Exists(j)
        /\ Continue(w, "fail", "expired", 0)
    BY <1>5 DEF SoftTimeout, At
  <2>2. /\ \A k \in Jobs : k # j => row'[k] = row[k]
        /\ row[j] # "deleted" /\ row'[j] # "deleted" /\ row'[j] # "new"
        /\ row'[j] = "failed" \/ row'[j] = row[j]
    BY <1>1, <1>2, <2>1 DEF Flushed, Exists, TypeOK
  <2>3. /\ worker'[w].pc = "fail" /\ worker'[w].seen = "expired" /\ worker'[w].unsaved = 0
        /\ worker'[w].tag = worker[w].tag
        /\ \A v \in Workers : v # w => worker'[v] = worker[v]
    BY <1>2, <2>1, Moves
  <2>4. Moving(w, j) /\ RunSane(worker[w], j)'
    BY <1>0, <1>1, <2>1, <2>2, <2>3 DEF Moving, RunSane, FollowUps
  <2>5. Charging(w, j) /\ Telling(w, j) /\ Paying(w, j) /\ Caring(w, j)
    BY <1>0, <1>1, <2>1, <2>2, <2>3 DEF Charging, Copy, Burden, Telling, Pledge, Paying, Caring,
       Settling, FollowUps
  <2> QED
    BY <2>4, <2>5 DEF Step
<1>6. CASE CommitFails(w)
  <2>1. /\ worker[w].pc \in {"mark", "store", "fail"}
        /\ UNCHANGED <<row, api, msg, results, announced, effects>>
    BY <1>6 DEF CommitFails
  <2>2. PICK q \in {"raise", "fail"} : Continue(w, q, "expired", 0)
    BY <1>6 DEF CommitFails
  <2> QED
    BY <1>0, <2>1, <2>2, PlainStep DEF FollowUps, Settling
<1>7. CASE RetryFails(w)
  <2>1. /\ worker[w].pc = "raise" /\ UNCHANGED <<row, api, msg, results, announced>>
        /\ Continue(w, "ack", worker[w].seen, worker[w].unsaved)
    BY <1>7 DEF RetryFails, At, Goto
  <2>2. worker[w].unsaved = 0
    BY <1>1, <2>1 DEF RunSane
  <2>3. /\ \A k \in Jobs : k # j => effects'[k] = effects[k]
        /\ effects'[j] \intersect FollowUps = effects[j] \intersect FollowUps
        /\ "lost" \in effects'[j]
    BY <1>1, <1>2, <1>7 DEF RetryFails, TypeOK, FollowUps
  <2> QED
    BY <1>0, <2>1, <2>2, <2>3, PlainStep DEF FollowUps
<1> QED
  BY <1>3, <1>4, <1>5, <1>6, <1>7

\* Out of retries, the run drops its task; its row may stay unsettled.
LEMMA GivesUp ==
    ASSUME Base, NEW w \in Workers, NEW j, j = JobOf(w), GiveUp(w)
    PROVE  Step(w, j)
<1>1. /\ j \in Jobs /\ RunSane(worker[w], j)
      /\ row[j] \in Status \union {"deleted"} /\ worker[w].unsaved \in 0 .. 1
      /\ results[j] \in Nat /\ announced[j] \in Nat /\ faults \in Nat
  BY BaseFacts DEF GiveUp, At
<1>2. /\ worker[w].pc = "raise"
      /\ UNCHANGED <<row, api, msg, results, announced, effects, faults>>
      /\ Continue(w, "ack", worker[w].seen, worker[w].unsaved)
  BY DEF GiveUp, At, Goto
<1>3. worker[w].unsaved = 0
  BY <1>1, <1>2 DEF RunSane
<1>4. /\ worker'[w].pc = "ack" /\ worker'[w].unsaved = 0
      /\ worker'[w].tag = worker[w].tag
      /\ \A v \in Workers : v # w => worker'[v] = worker[v]
  BY <1>2, <1>3, Moves DEF Base
<1> QED
  BY <1>1, <1>2, <1>3, <1>4 DEF Step, Moving, RunSane, Charging, Copy, Burden, Telling, Pledge,
     Paying, FollowUps

\* An attempt ends: the slot is idle, and the message is acked, redelivered, lost or
\* turned into the one of the next attempt.
Dropping(w, t, j) ==
    /\ worker'[w] = Idle /\ \A v \in Workers : v # w => worker'[v] = worker[v]
    /\ UNCHANGED <<row, api, results, announced>>
    /\ \A u \in Tags : u # t => msg'[u] = msg[u]
    /\ \A k \in Jobs : effects'[k] \intersect FollowUps = effects[k] \intersect FollowUps
    /\ \A k \in Jobs : "lost" \in effects[k] => "lost" \in effects'[k]
    /\ \/ worker[w].pc = "ack" /\ msg'[t] = FreeTag /\ faults' = faults
       \/ msg'[t] = msg[t] /\ faults' = faults + 1
       \/ msg'[t] = FreeTag /\ faults' = faults + 1 /\ "lost" \in effects'[j]
       \/ /\ worker[w].pc = "raise" /\ faults' = faults
          /\ msg'[t].job = j /\ msg'[t].retries = msg[t].retries + 1

\* Ack, crash, a killed child and an atomic retry end the attempt.
LEMMA Drops ==
    ASSUME Base, NEW w \in Workers, NEW j, j = JobOf(w), NEW t, t = worker[w].tag,
           Ack(w) \/ Crash(w) \/ HardTimeout(w) \/ (AckAtomic /\ Retry(w))
    PROVE  Dropping(w, t, j)
<1>0. Busy(w)
  BY DEF Ack, Crash, HardTimeout, Retry, At
<1>1. /\ j \in Jobs /\ t \in Tags /\ msg[t].job = j
  BY <1>0, BaseFacts DEF JobOf
<1>2. TypeOK
  BY DEF Base
<1>3. worker' = [worker EXCEPT ![w] = Idle] /\ UNCHANGED <<row, api, results, announced>>
  BY DEF Ack, Crash, HardTimeout, Retry
<1>4. worker'[w] = Idle /\ \A v \in Workers : v # w => worker'[v] = worker[v]
  BY <1>2, <1>3 DEF TypeOK
<1>5. CASE Ack(w) \/ Crash(w)
  BY <1>1, <1>2, <1>3, <1>4, <1>5 DEF Dropping, Ack, Crash, At, Fault, TypeOK
<1>6. CASE HardTimeout(w)
  BY <1>1, <1>2, <1>3, <1>4, <1>6 DEF Dropping, HardTimeout, Fault, TypeOK, FollowUps
<1>7. CASE AckAtomic /\ Retry(w)
  <2>1. msg' = [msg EXCEPT ![t].retries = msg[t].retries + 1]
    BY <1>7 DEF Retry
  <2>2. /\ msg'[t].job = j /\ msg'[t].retries = msg[t].retries + 1
        /\ \A u \in Tags : u # t => msg'[u] = msg[u]
    BY <1>1, <1>2, <2>1 DEF TypeOK, Message
  <2>3. worker[w].pc = "raise" /\ UNCHANGED <<effects, faults>>
    BY <1>7 DEF Retry, At
  <2> QED
    BY <1>1, <1>3, <1>4, <2>2, <2>3 DEF Dropping
<1> QED
  BY <1>5, <1>6, <1>7

\* The next attempt's message is out, and this one's is not acked yet.
Resending(w, t, j, u) ==
    /\ u # t /\ msg[u] = FreeTag
    /\ msg'[u].job = j /\ msg'[u].retries = msg[t].retries + 1
    /\ \A x \in Tags : x # u => msg'[x] = msg[x]
    /\ worker[w].pc = "raise" /\ worker'[w].pc = "ack" /\ worker'[w].unsaved = worker[w].unsaved
    /\ worker'[w].tag = t
    /\ \A v \in Workers : v # w => worker'[v] = worker[v]
    /\ \A v \in Workers : worker[v].tag # u
    /\ UNCHANGED <<row, api, results, announced, effects, faults>>

\* A retry that publishes first does that.
LEMMA Resends ==
    ASSUME Base, NEW w \in Workers, NEW j, j = JobOf(w), NEW t, t = worker[w].tag,
           ~AckAtomic, Retry(w)
    PROVE  \E u \in Tags : Resending(w, t, j, u)
<1>0. Busy(w) /\ TypeOK /\ Holding
  BY DEF Retry, At, Base
<1>1. /\ j \in Jobs /\ t \in Tags /\ msg[t].job = j
  BY <1>0, BaseFacts DEF JobOf
<1>2. PICK u \in Tags : Publish(u, j, msg[t].retries + 1)
  BY <1>1 DEF Retry
<1>3. /\ msg[u] = FreeTag
      /\ msg'[u].job = j /\ msg'[u].retries = msg[t].retries + 1
      /\ \A x \in Tags : x # u => msg'[x] = msg[x]
  BY <1>0, <1>2 DEF Publish, TypeOK
<1>4. Continue(w, "ack", worker[w].seen, worker[w].unsaved)
  BY DEF Retry, Goto
<1>5. \A v \in Workers : worker[v].tag # u
  <2> SUFFICES ASSUME NEW v \in Workers, worker[v].tag = u
               PROVE  FALSE
    OBVIOUS
  <2>1. Busy(v)
    BY TagAssumption DEF Busy
  <2>2. msg[u].job \in Jobs
    BY <1>0, <2>1, BusyType
  <2> QED
    BY <1>3, <2>2, JobAssumption DEF FreeTag
<1>6. worker[w].pc = "raise" /\ UNCHANGED <<row, api, results, announced, effects, faults>>
  BY DEF Retry, At
<1> QED
  BY <1>0, <1>1, <1>3, <1>4, <1>5, <1>6, Moves DEF Resending

\* Every step of a run is of one of these kinds ...
LEMMA RunKinds ==
    ASSUME Base, NEW w \in Workers, NEW j, j = JobOf(w), NEW t, t = worker[w].tag,
           TaskStep(w) \/ FaultStep(w)
    PROVE  /\ Busy(w) /\ j \in Jobs /\ t \in Tags
           /\ \/ Step(w, j) /\ Caring(w, j)
              \/ Step(w, j) /\ GiveUp(w)
              \/ Dropping(w, t, j)
              \/ \E u \in Tags : Resending(w, t, j, u)
<1>1. Busy(w) /\ j \in Jobs /\ t \in Tags
  BY StepIsBusy, BaseFacts
<1>2. CASE \/ Fetch(w) \/ Mark(w) \/ Load(w) \/ Run(w) \/ Store(w) \/ Announce(w)
           \/ \E p \in FollowUps : FollowUp(w, p)
           \/ Fail(w) \/ Notify(w)
  BY <1>1, <1>2, TaskMoves
<1>3. CASE \/ \E p \in FollowUps \union {"notify"} : Swallowed(w, p)
           \/ Raises(w) \/ SoftTimeout(w) \/ CommitFails(w) \/ RetryFails(w)
  BY <1>1, <1>3, FaultMoves
<1>4. CASE GiveUp(w)
  BY <1>1, <1>4, GivesUp
<1>5. CASE Ack(w) \/ Crash(w) \/ HardTimeout(w) \/ (AckAtomic /\ Retry(w))
  BY <1>1, <1>5, Drops
<1>6. CASE ~AckAtomic /\ Retry(w)
  BY <1>1, <1>6, Resends
<1> QED
  BY <1>2, <1>3, <1>4, <1>5, <1>6 DEF TaskStep, FaultStep

\* ... and every step of the system is of one of these.
LEMMA Kinds ==
    ASSUME Base, Next
    PROVE  \/ \E j \in Jobs : Submit(j) \/ Enqueue(j) \/ Abandon(j) \/ Delete(j) \/ Age(j)
           \/ \E w \in Workers, t \in Tags : Deliver(w, t)
           \/ \E w \in Workers, j \in Jobs, t \in Tags :
                 /\ Busy(w) /\ j = JobOf(w) /\ t = worker[w].tag
                 /\ \/ Step(w, j) /\ Caring(w, j)
                    \/ Step(w, j) /\ GiveUp(w)
                    \/ Dropping(w, t, j)
                    \/ \E u \in Tags : Resending(w, t, j, u)
           \/ ReapStep \/ ReapFails
<1>1. CASE \E w \in Workers : TaskStep(w) \/ FaultStep(w)
  BY <1>1, RunKinds
<1>2. CASE \E j \in Jobs : ApiStep(j) \/ Age(j)
  BY <1>2 DEF ApiStep
<1>3. CASE \E w \in Workers, t \in Tags : Deliver(w, t)
  BY <1>3
<1>4. CASE ReapStep \/ ReapFails
  BY <1>4
<1> QED
  BY <1>1, <1>2, <1>3, <1>4 DEF Next

\* A worker that keeps its message keeps its job.
LEMMA SameJobs ==
    ASSUME Base, (TypeOK /\ Holding)', Next,
           NEW v \in Workers, Busy(v)', worker'[v].tag = worker[v].tag
    PROVE  Busy(v) /\ JobOf(v)' = JobOf(v) /\ JobOf(v) \in Jobs
<1>1. Busy(v) /\ JobOf(v) \in Jobs /\ JobOf(v)' \in Jobs /\ worker[v].tag \in Tags
  BY BusyType DEF Base, Busy, Holding
<1> DEFINE x == worker[v].tag
<1>2. msg[x].job = JobOf(v) /\ msg'[x].job = JobOf(v)'
  BY DEF JobOf
<1>3. msg[x] # FreeTag /\ msg'[x] # FreeTag
  BY <1>1, <1>2, JobAssumption DEF FreeTag
<1>4. ASSUME NEW j \in Jobs, Submit(j) \/ Enqueue(j) \/ Abandon(j) \/ Delete(j) \/ Age(j)
      PROVE  msg'[x] = msg[x]
  BY <1>1, <1>3, <1>4 DEF Submit, Enqueue, Abandon, Delete, Age, Publish, Base, TypeOK
<1>5. ASSUME NEW w \in Workers, NEW j \in Jobs, NEW t \in Tags, Busy(w), j = JobOf(w),
             t = worker[w].tag, Dropping(w, t, j)
      PROVE  msg'[x].job = msg[x].job
  BY <1>1, <1>2, <1>3, <1>5 DEF Dropping, JobOf
<1>6. ASSUME NEW w \in Workers, NEW j \in Jobs, NEW t \in Tags, NEW u \in Tags,
             Resending(w, t, j, u)
      PROVE  msg'[x].job = msg[x].job
  BY <1>1, <1>3, <1>6 DEF Resending
<1>7. ASSUME NEW w \in Workers, NEW j \in Jobs, Step(w, j)
      PROVE  msg'[x].job = msg[x].job
  BY <1>7 DEF Step, Moving
<1>8. ASSUME \/ \E w \in Workers, t \in Tags : Deliver(w, t)
             \/ ReapStep \/ ReapFails
      PROVE  msg'[x].job = msg[x].job
  BY <1>8 DEF Deliver, ReapStep, ReapScan, ReapCommit, ReapFails
<1>9. msg'[x].job = msg[x].job
  BY <1>4, <1>5, <1>6, <1>7, <1>8, Kinds
<1> QED
  BY <1>1, <1>2, <1>9

\* Base is inductive, relative to the types and to who holds which message.
LEMMA BaseStep ==
    ASSUME Base, (TypeOK /\ Holding)', Next
    PROVE  Base'
<1>0. /\ \A k \in Jobs : api[k] = "new" <=> row[k] = "new"
      /\ \A k \in Jobs : results[k] \in Nat
      /\ TypeOK
  BY DEF Base, Known, TypeOK
<1>1. ASSUME NEW w \in Workers, NEW j \in Jobs, Busy(w), j = JobOf(w), Step(w, j)
      PROVE  Base'
  <2>1. Moving(w, j) /\ RunSane(worker[w], j)' /\ api[j] = "enqueued" /\ row[j] # "new"
    BY <1>0, <1>1, BaseFacts DEF Step
  <2>2. Known'
    BY <1>0, <2>1 DEF Base, Known, Moving
  <2>3. ASSUME NEW v \in Workers, Busy(v)'
        PROVE  RunSane(worker[v], JobOf(v))'
    <3>1. worker'[v].tag = worker[v].tag
      BY <2>1 DEF Moving
    <3>2. Busy(v) /\ JobOf(v)' = JobOf(v) /\ JobOf(v) \in Jobs
      BY <1>1, <2>3, <3>1, SameJobs
    <3>3. CASE v = w
      BY <1>1, <2>1, <3>2, <3>3
    <3>4. CASE v # w
      <4>1. RunSane(worker[v], JobOf(v)) /\ worker'[v] = worker[v]
        BY <2>1, <3>2, <3>4 DEF Base, Sane, Moving
      <4>2. results'[JobOf(v)] >= results[JobOf(v)] /\ results'[JobOf(v)] \in Nat
        BY <1>0, <2>1, <3>2 DEF Moving, TypeOK
      <4> QED
        BY <1>0, <3>2, <4>1, <4>2 DEF RunSane
    <3> QED
      BY <3>3, <3>4
  <2> QED
    BY <2>2, <2>3 DEF Base, Sane
<1>2. ASSUME NEW w \in Workers, NEW j \in Jobs, NEW t \in Tags, Busy(w), j = JobOf(w),
             t = worker[w].tag, Dropping(w, t, j)
      PROVE  Base'
  <2>1. \A x \in Tags : msg'[x].job \in {msg[x].job, NoJob}
    BY <1>2 DEF Dropping, FreeTag, JobOf
  <2>2. Known'
    BY <1>2, <2>1 DEF Base, Known, Dropping
  <2>3. ASSUME NEW v \in Workers, Busy(v)'
        PROVE  RunSane(worker[v], JobOf(v))'
    <3>1. v # w /\ worker'[v] = worker[v]
      BY <1>2, <2>3 DEF Dropping, Busy, Idle
    <3>2. Busy(v) /\ JobOf(v)' = JobOf(v)
      BY <2>3, <3>1, SameJobs
    <3> QED
      BY <1>2, <3>1, <3>2 DEF Base, Sane, RunSane, Dropping
  <2> QED
    BY <2>2, <2>3 DEF Base, Sane
<1>3. ASSUME NEW w \in Workers, NEW j \in Jobs, NEW t \in Tags, Busy(w), j = JobOf(w),
             t = worker[w].tag, NEW u \in Tags, Resending(w, t, j, u)
      PROVE  Base'
  <2>1. api[j] = "enqueued" /\ RunSane(worker[w], j)
    BY <1>3, BaseFacts
  <2>2. Known'
    BY <1>3, <2>1 DEF Base, Known, Resending
  <2>3. ASSUME NEW v \in Workers, Busy(v)'
        PROVE  RunSane(worker[v], JobOf(v))'
    <3>1. worker'[v].tag = worker[v].tag
      BY <1>3 DEF Resending
    <3>2. Busy(v) /\ JobOf(v)' = JobOf(v) /\ RunSane(worker[v], JobOf(v)) /\ results' = results
      BY <1>3, <2>3, <3>1, SameJobs DEF Base, Sane, Resending
    <3> QED
      BY <1>3, <3>2 DEF RunSane, Resending, FollowUps
  <2> QED
    BY <2>2, <2>3 DEF Base, Sane
<1>4. ASSUME NEW j \in Jobs, Submit(j) \/ Enqueue(j) \/ Abandon(j) \/ Delete(j) \/ Age(j)
      PROVE  Base'
  <2>1. Known'
    <3>1. CASE Enqueue(j)
      <4> PICK u \in Tags : Publish(u, j, 0)
        BY <3>1 DEF Enqueue
      <4>1. /\ api' = [api EXCEPT ![j] = "enqueued"] /\ row' = row /\ results' = results
            /\ api[j] = "saved" /\ msg'[u].job = j /\ \A x \in Tags : x # u => msg'[x] = msg[x]
        BY <1>0, <3>1 DEF Enqueue, Publish, TypeOK
      <4> QED
        BY <1>0, <4>1 DEF Base, Known, TypeOK, Message
    <3>2. CASE Submit(j) \/ Abandon(j) \/ Delete(j) \/ Age(j)
      <4>1. msg' = msg /\ results' = results
        BY <3>2 DEF Submit, Abandon, Delete, Age
      <4>2. /\ \A k \in Jobs : k # j => row'[k] = row[k] /\ api'[k] = api[k]
            /\ api'[j] = "new" <=> row'[j] = "new"
            /\ api'[j] = "enqueued" <=> api[j] = "enqueued"
        BY <1>0, <3>2 DEF Submit, Abandon, Delete, Age, TypeOK, Exists
      <4> QED
        BY <1>0, <4>1, <4>2 DEF Base, Known, TypeOK, Message
    <3> QED
      BY <1>4, <3>1, <3>2
  <2>2. worker' = worker /\ results' = results
    BY <1>4 DEF Submit, Enqueue, Abandon, Delete, Age
  <2> QED
    BY <2>1, <2>2, SameJobs DEF Base, Sane, RunSane
<1>5. ASSUME NEW w \in Workers, NEW t \in Tags, Deliver(w, t)
      PROVE  Base'
  <2>1. /\ worker'[w] = [tag |-> t, pc |-> "fetch", seen |-> "expired", unsaved |-> 0]
        /\ \A v \in Workers : v # w => worker'[v] = worker[v]
        /\ UNCHANGED <<row, api, msg, results>>
    BY <1>0, <1>5 DEF Deliver, TypeOK
  <2>2. ASSUME NEW v \in Workers, Busy(v)'
        PROVE  RunSane(worker[v], JobOf(v))'
    <3>1. CASE v = w
      BY <2>1, <3>1 DEF RunSane, FollowUps
    <3>2. CASE v # w
      BY <2>1, <2>2, <3>2, SameJobs DEF Base, Sane, RunSane
    <3> QED
      BY <3>1, <3>2
  <2> QED
    BY <2>1, <2>2 DEF Base, Known, Sane
<1>6. ASSUME ReapStep \/ ReapFails
      PROVE  Base'
  <2>1. /\ UNCHANGED <<api, msg, worker, results>>
        /\ \A k \in Jobs : row'[k] = "new" <=> row[k] = "new"
    BY <1>0, <1>6 DEF ReapStep, ReapScan, ReapCommit, ReapFails, Exists, TypeOK
  <2> QED
    BY <2>1, SameJobs DEF Base, Known, Sane, RunSane
<1> QED
  BY <1>1, <1>2, <1>3, <1>4, <1>5, <1>6, Kinds

LEMMA BaseHolds == Spec => []Base
<1>1. Init => Base
  <2> SUFFICES ASSUME Init PROVE Base
    OBVIOUS
  <2>1. TypeOK /\ Holding
    BY InitType
  <2>2. Known
    BY DEF Init, Known, FreeTag
  <2>3. \A w \in Workers : ~Busy(w)
    BY DEF Init, Busy, Idle
  <2> QED
    BY <2>1, <2>2, <2>3 DEF Base, Sane
<1>2. TypeOK /\ Holding /\ (TypeOK /\ Holding)' /\ Base /\ [Next]_vars => Base'
  <2>1. CASE Next
    BY <2>1, BaseStep
  <2>2. CASE UNCHANGED vars
    BY <2>2 DEF vars, Base, TypeOK, Holding, Known, Sane, RunSane, Busy, JobOf
  <2> QED
    BY <2>1, <2>2
<1> QED
  BY <1>1, <1>2, TypeCorrect, PTL DEF Spec

(* Messages. *)

\* Every retry has been paid for with a fault, unless the job's row is gone ...
Paid ==
    /\ \A t \in Tags : msg[t].job # NoJob /\ row[msg[t].job] # "deleted"
                           => msg[t].retries <= faults
    /\ \A w \in Workers : /\ Busy(w) /\ worker[w].pc \in Failing
                          /\ row[JobOf(w)] # "deleted"
                          => msg[worker[w].tag].retries < faults

\* ... and an unsettled job has a message that is queued or whose run will settle it.
Cared ==
    \A j \in Jobs : /\ faults <= MaxRetries
                    /\ api[j] = "enqueued"
                    /\ row[j] \in Unsettled
                    /\ "lost" \notin effects[j]
                    => \E t \in Tags :
                          /\ msg[t].job = j
                          /\ \A w \in Workers : worker[w].tag = t => Settling(worker[w])

\* A retry count grows at the attempt's end, when a fault has paid for it.
LEMMA PaidStep ==
    ASSUME Base, Base', Paid, Next
    PROVE  Paid'
<1>0. /\ TypeOK /\ faults \in Nat /\ faults' \in Nat
      /\ \A t \in Tags : msg[t].retries \in Nat /\ (msg[t].job # NoJob => msg[t].job \in Jobs)
  BY BoundAssumption DEF Base, TypeOK, Message
<1>1. ASSUME NEW w \in Workers, NEW j \in Jobs, Busy(w), j = JobOf(w), Step(w, j)
      PROVE  Paid'
  <2>1. Moving(w, j) /\ Paying(w, j) /\ msg' = msg /\ worker[w].tag \in Tags
    BY <1>1, BaseFacts DEF Step, Moving
  <2>2. \A k \in Jobs : row'[k] = "deleted" <=> row[k] = "deleted"
    BY <2>1 DEF Moving
  <2>3. faults <= faults'
    BY <1>0, <2>1 DEF Moving
  <2>4. ASSUME NEW v \in Workers, Busy(v)', worker'[v].pc \in Failing, row'[JobOf(v)'] # "deleted"
        PROVE  msg'[worker'[v].tag].retries < faults'
    <3>1. worker'[v].tag = worker[v].tag
      BY <2>1 DEF Moving
    <3>2. Busy(v) /\ JobOf(v)' = JobOf(v) /\ JobOf(v) \in Jobs /\ worker[v].tag \in Tags
      BY <2>4, <3>1, SameJobs, BaseFacts DEF Base
    <3>3. CASE v # w
      BY <1>0, <2>1, <2>2, <2>3, <2>4, <3>2, <3>3 DEF Paid, Moving
    <3>4. CASE v = w
      <4>1. CASE worker[w].pc \in Failing
        BY <1>0, <1>1, <2>1, <2>2, <2>3, <2>4, <3>1, <3>2, <3>4, <4>1 DEF Paid
      <4>2. CASE faults' = faults + 1
        <5>1. msg[worker[w].tag].job = j /\ j # NoJob
          BY <1>1, JobAssumption DEF JobOf
        <5>2. msg[worker[w].tag].retries <= faults
          BY <1>1, <2>1, <2>2, <2>4, <3>2, <3>4, <5>1 DEF Paid
        <5> QED
          BY <1>0, <2>1, <3>1, <3>4, <4>2, <5>2
      <4> QED
        BY <1>1, <2>1, <2>2, <2>4, <3>2, <3>4, <4>1, <4>2 DEF Paying
    <3> QED
      BY <3>3, <3>4
  <2>5. \A t \in Tags : msg'[t].job # NoJob /\ row'[msg'[t].job] # "deleted"
                           => msg'[t].retries <= faults'
    BY <1>0, <2>1, <2>2, <2>3 DEF Paid
  <2> QED
    BY <2>4, <2>5 DEF Paid
<1>2. ASSUME NEW w \in Workers, NEW j \in Jobs, NEW t \in Tags, Busy(w), j = JobOf(w),
             t = worker[w].tag, Dropping(w, t, j)
      PROVE  Paid'
  <2>1. row' = row /\ faults <= faults' /\ msg[t].job = j
    BY <1>0, <1>2 DEF Dropping, JobOf
  <2>2. ASSUME NEW x \in Tags, msg'[x].job # NoJob, row'[msg'[x].job] # "deleted"
        PROVE  msg'[x].retries <= faults'
    <3>1. CASE /\ x = t /\ worker[w].pc = "raise"
               /\ msg'[t].job = j /\ msg'[t].retries = msg[t].retries + 1
      BY <1>0, <1>2, <2>1, <2>2, <3>1 DEF Paid
    <3>2. CASE msg'[x] = msg[x]
      BY <1>0, <2>1, <2>2, <3>2 DEF Paid
    <3> QED
      BY <1>2, <2>2, <3>1, <3>2 DEF Dropping, FreeTag
  <2>3. ASSUME NEW v \in Workers, Busy(v)', worker'[v].pc \in Failing, row'[JobOf(v)'] # "deleted"
        PROVE  msg'[worker'[v].tag].retries < faults'
    <3>1. v # w /\ worker'[v] = worker[v]
      BY <1>2, <2>3 DEF Dropping, Busy, Idle
    <3>2. Busy(v) /\ JobOf(v)' = JobOf(v) /\ worker[v].tag \in Tags
      BY <2>3, <3>1, SameJobs, BaseFacts DEF Base
    <3>3. worker[v].tag # t
      BY <1>2, <3>1, <3>2 DEF Base, Holding
    <3> QED
      BY <1>0, <1>2, <2>1, <2>3, <3>1, <3>2, <3>3 DEF Paid, Dropping
  <2> QED
    BY <2>2, <2>3 DEF Paid
<1>3. ASSUME NEW w \in Workers, NEW j \in Jobs, NEW t \in Tags, Busy(w), j = JobOf(w),
             t = worker[w].tag, NEW u \in Tags, Resending(w, t, j, u)
      PROVE  Paid'
  <2>1. row' = row /\ faults' = faults /\ msg[t].job = j
    BY <1>3 DEF Resending, JobOf
  <2>2. ASSUME NEW x \in Tags, msg'[x].job # NoJob, row'[msg'[x].job] # "deleted"
        PROVE  msg'[x].retries <= faults'
    <3>1. CASE x = u
      BY <1>0, <1>3, <2>1, <2>2, <3>1 DEF Paid, Resending
    <3>2. CASE x # u
      BY <1>3, <2>1, <2>2, <3>2 DEF Paid, Resending
    <3> QED
      BY <3>1, <3>2
  <2>3. ASSUME NEW v \in Workers, Busy(v)', worker'[v].pc \in Failing, row'[JobOf(v)'] # "deleted"
        PROVE  msg'[worker'[v].tag].retries < faults'
    <3>1. v # w /\ worker'[v] = worker[v]
      BY <1>3, <2>3 DEF Resending
    <3>2. Busy(v) /\ JobOf(v)' = JobOf(v) /\ worker[v].tag \in Tags
      BY <2>3, <3>1, SameJobs, BaseFacts DEF Base
    <3>3. worker[v].tag # u
      BY <1>3 DEF Resending
    <3> QED
      BY <1>3, <2>1, <2>3, <3>1, <3>2, <3>3 DEF Paid, Resending
  <2> QED
    BY <2>2, <2>3 DEF Paid
<1>4. ASSUME NEW j \in Jobs, Submit(j) \/ Enqueue(j) \/ Abandon(j) \/ Delete(j) \/ Age(j)
      PROVE  Paid'
  <2>1. worker' = worker /\ faults' = faults
    BY <1>4 DEF Submit, Enqueue, Abandon, Delete, Age
  <2>2. \A k \in Jobs : api[k] = "enqueued" /\ row'[k] # "deleted" => row[k] # "deleted"
    BY <1>0, <1>4 DEF Submit, Enqueue, Abandon, Delete, Age, TypeOK
  <2>3. ASSUME NEW x \in Tags
        PROVE  msg'[x] = msg[x] \/ (msg'[x].retries = 0 /\ msg[x] = FreeTag)
    BY <1>0, <1>4, <2>3 DEF Submit, Enqueue, Abandon, Delete, Age, Publish, TypeOK
  <2>4. \A x \in Tags : msg[x].job # NoJob => api[msg[x].job] = "enqueued"
    BY DEF Base, Known
  <2>5. ASSUME NEW v \in Workers, Busy(v)'
        PROVE  /\ Busy(v) /\ JobOf(v)' = JobOf(v) /\ JobOf(v) \in Jobs /\ worker[v].tag \in Tags
               /\ msg'[worker[v].tag] = msg[worker[v].tag] /\ api[JobOf(v)] = "enqueued"
    <3>1. Busy(v) /\ JobOf(v)' = JobOf(v) /\ JobOf(v) \in Jobs /\ worker[v].tag \in Tags
          /\ api[JobOf(v)] = "enqueued"
      BY <2>1, <2>5, SameJobs, BaseFacts DEF Base
    <3>2. msg[worker[v].tag] # FreeTag
      BY <3>1, JobAssumption DEF FreeTag, JobOf
    <3> QED
      BY <2>3, <3>1, <3>2
  <2>6. \A x \in Tags : msg'[x].job # NoJob /\ row'[msg'[x].job] # "deleted"
                           => msg'[x].retries <= faults'
    BY <1>0, <2>1, <2>2, <2>3, <2>4 DEF Paid
  <2>7. \A v \in Workers : /\ Busy(v)' /\ worker'[v].pc \in Failing
                           /\ row'[JobOf(v)'] # "deleted"
                           => msg'[worker'[v].tag].retries < faults'
    BY <2>1, <2>2, <2>5 DEF Paid
  <2> QED
    BY <2>6, <2>7 DEF Paid
<1>5. ASSUME NEW w \in Workers, NEW t \in Tags, Deliver(w, t)
      PROVE  Paid'
  <2>1. /\ worker'[w].pc = "fetch"
        /\ \A v \in Workers : v # w => worker'[v] = worker[v]
        /\ UNCHANGED <<row, msg, faults>>
    BY <1>0, <1>5 DEF Deliver, TypeOK
  <2> QED
    BY <2>1 DEF Paid, Busy, JobOf
<1>6. ASSUME ReapStep \/ ReapFails
      PROVE  Paid'
  <2>1. /\ UNCHANGED <<msg, worker>>
        /\ \A k \in Jobs : row'[k] = "deleted" <=> row[k] = "deleted"
        /\ faults <= faults'
    BY <1>0, <1>6 DEF ReapStep, ReapScan, ReapCommit, ReapFails, Exists, TypeOK, Fault
  <2>2. \A v \in Workers : Busy(v)' => /\ Busy(v) /\ JobOf(v)' = JobOf(v) /\ JobOf(v) \in Jobs
                                       /\ worker[v].tag \in Tags
    BY <2>1, SameJobs, BaseFacts DEF Base
  <2> QED
    BY <1>0, <2>1, <2>2 DEF Paid
<1> QED
  BY <1>1, <1>2, <1>3, <1>4, <1>5, <1>6, Kinds

\* The message t is one of those: queued, or with a run that settles j.
Covers(t, j) == /\ msg[t].job = j
                /\ \A w \in Workers : worker[w].tag = t => Settling(worker[w])

\* A message is given up only out of retries, so after more faults than retries, or
\* when its run has settled the row.
LEMMA CaredStep ==
    ASSUME Base, Base', Paid, Cared, Next
    PROVE  Cared'
<1>0. TypeOK /\ faults \in Nat
  BY BoundAssumption DEF Base, TypeOK
<1> SUFFICES ASSUME NEW k \in Jobs, faults' <= MaxRetries, api'[k] = "enqueued",
                    row'[k] \in Unsettled, "lost" \notin effects'[k]
             PROVE  \E t \in Tags : Covers(t, k)'
  BY DEF Cared, Covers
<1> DEFINE Was == /\ api[k] = "enqueued" /\ row[k] \in Unsettled /\ "lost" \notin effects[k]
<1>1. ASSUME Was, faults <= MaxRetries
      PROVE  \E t \in Tags : Covers(t, k)
  BY <1>1 DEF Cared, Covers
<1>2. ASSUME NEW w \in Workers, NEW j \in Jobs, Busy(w), j = JobOf(w), Step(w, j),
             Caring(w, j) \/ GiveUp(w)
      PROVE  \E t \in Tags : Covers(t, k)'
  <2>1. /\ Moving(w, j) /\ msg' = msg /\ api' = api /\ faults <= MaxRetries
        /\ \A v \in Workers : worker'[v].tag = worker[v].tag
        /\ worker[w].tag \in Tags /\ msg[worker[w].tag].job = j
    BY <1>0, <1>2, BaseFacts, BoundAssumption DEF Step, Moving, JobOf
  <2>2. ASSUME NEW t \in Tags, t # worker[w].tag, Covers(t, k)
        PROVE  Covers(t, k)'
    BY <2>1, <2>2 DEF Covers, Moving
  <2>3. CASE k # j
    <3>1. Was
      BY <2>1, <2>3 DEF Moving
    <3> PICK t \in Tags : Covers(t, k)
      BY <1>1, <2>1, <3>1
    <3>2. t # worker[w].tag
      BY <2>1, <2>3 DEF Covers
    <3> QED
      BY <2>2, <3>2
  <2>4. CASE k = j /\ GiveUp(w)
    <3>1. row[j] # "deleted" /\ worker[w].pc = "raise" /\ msg[worker[w].tag].retries >= MaxRetries
      BY <2>1, <2>4 DEF GiveUp, At, Moving
    <3>2. msg[worker[w].tag].retries < faults
      BY <1>2, <3>1 DEF Paid
    <3>3. msg[worker[w].tag].retries \in Nat
      BY <1>0, <2>1 DEF TypeOK, Message
    <3> QED
      BY <1>0, <2>1, <3>1, <3>2, <3>3, BoundAssumption
  <2>5. CASE k = j /\ Caring(w, j)
    <3>1. Settling(worker'[w]) => Covers(worker[w].tag, k)'
      <4>1. \A v \in Workers : worker'[v].tag = worker[w].tag => v = w
        BY <1>2, <2>1 DEF Base, Holding
      <4> QED
        BY <2>1, <2>5, <4>1 DEF Covers, Settling
    <3>2. CASE row[j] \in Unsettled
      <4>1. Was
        BY <2>1, <2>5, <3>2 DEF Caring
      <4> PICK t \in Tags : Covers(t, k)
        BY <1>1, <2>1, <4>1
      <4>2. CASE t = worker[w].tag
        BY <2>1, <2>5, <3>1, <3>2, <4>2 DEF Covers, Caring
      <4> QED
        BY <2>2, <4>2
    <3>3. CASE row[j] \notin Unsettled
      BY <2>1, <2>5, <3>1, <3>3 DEF Caring
    <3> QED
      BY <3>2, <3>3
  <2> QED
    BY <1>2, <2>3, <2>4, <2>5
<1>3. ASSUME NEW w \in Workers, NEW j \in Jobs, NEW t \in Tags, Busy(w), j = JobOf(w),
             t = worker[w].tag, Dropping(w, t, j)
      PROVE  \E x \in Tags : Covers(x, k)'
  <2>1. Was /\ faults <= MaxRetries
    BY <1>0, <1>3, BoundAssumption DEF Dropping
  <2> PICK x \in Tags : Covers(x, k)
    BY <1>1, <2>1
  <2>2. \A v \in Workers : worker'[v].tag = x => v # w /\ worker'[v] = worker[v]
    BY <1>3, TagAssumption DEF Dropping, Idle
  <2>3. CASE x # t
    BY <1>3, <2>2, <2>3 DEF Covers, Dropping
  <2>4. CASE x = t
    <3>1. Settling(worker[w]) /\ j = k /\ msg[t].job = j
      BY <1>3, <2>4 DEF Covers, JobOf
    <3>2. worker[w].pc # "ack"
      BY <3>1 DEF Settling
    <3>3. msg'[t].job = j
      BY <1>3, <3>1, <3>2 DEF Dropping
    <3>4. \A v \in Workers : worker'[v].tag # t
      BY <1>3, <2>2, <2>4 DEF Base, Holding
    <3> QED
      BY <3>1, <3>3, <3>4 DEF Covers
  <2> QED
    BY <2>3, <2>4
<1>4. ASSUME NEW w \in Workers, NEW j \in Jobs, NEW t \in Tags, Busy(w), j = JobOf(w),
             t = worker[w].tag, NEW u \in Tags, Resending(w, t, j, u)
      PROVE  \E x \in Tags : Covers(x, k)'
  <2>1. CASE k = j
    <3>1. \A v \in Workers : worker'[v].tag # u
      BY <1>4 DEF Resending
    <3> QED
      BY <1>4, <2>1, <3>1 DEF Covers, Resending
  <2>2. CASE k # j
    <3>1. Was /\ faults <= MaxRetries /\ msg[t].job = j /\ msg[u].job \notin Jobs
      BY <1>4, JobAssumption DEF Resending, JobOf, FreeTag
    <3> PICK x \in Tags : Covers(x, k)
      BY <1>1, <3>1
    <3>2. x # t /\ x # u
      BY <2>2, <3>1 DEF Covers
    <3> QED
      BY <1>4, <3>2 DEF Covers, Resending
  <2> QED
    BY <2>1, <2>2
<1>5. ASSUME NEW j \in Jobs, Submit(j) \/ Enqueue(j) \/ Abandon(j) \/ Delete(j) \/ Age(j)
      PROVE  \E t \in Tags : Covers(t, k)'
  <2>1. UNCHANGED <<worker, effects, faults>>
    BY <1>5 DEF Submit, Enqueue, Abandon, Delete, Age
  <2>2. CASE Enqueue(j) /\ k = j
    <3> PICK u \in Tags : Publish(u, j, 0)
      BY <2>2 DEF Enqueue
    <3>1. msg'[u].job = j /\ msg[u].job \notin Jobs
      BY <1>0, JobAssumption DEF Publish, TypeOK, FreeTag
    <3>2. \A v \in Workers : worker'[v].tag # u
      <4> SUFFICES ASSUME NEW v \in Workers, worker[v].tag = u
                   PROVE  FALSE
        BY <2>1
      <4>1. Busy(v)
        BY TagAssumption DEF Busy
      <4> QED
        BY <3>1, <4>1 DEF Base, Holding, JobOf
    <3> QED
      BY <2>2, <3>1, <3>2 DEF Covers
  <2>3. CASE ~(Enqueue(j) /\ k = j)
    <3>1. Was
      BY <1>0, <1>5, <2>1, <2>3 DEF Submit, Enqueue, Abandon, Delete, Age, TypeOK
    <3> PICK t \in Tags : Covers(t, k)
      BY <1>1, <2>1, <3>1
    <3>2. msg'[t] = msg[t]
      <4>1. msg[t] # FreeTag
        BY JobAssumption DEF Covers, FreeTag
      <4> QED
        BY <1>0, <1>5, <4>1 DEF Submit, Enqueue, Abandon, Delete, Age, Publish, TypeOK
    <3> QED
      BY <2>1, <3>2 DEF Covers
  <2> QED
    BY <2>2, <2>3
<1>6. ASSUME NEW w \in Workers, NEW t \in Tags, Deliver(w, t)
      PROVE  \E x \in Tags : Covers(x, k)'
  <2>1. /\ worker'[w].pc = "fetch" /\ worker'[w].tag = t
        /\ \A v \in Workers : v # w => worker'[v] = worker[v]
        /\ UNCHANGED <<row, api, msg, effects, faults>>
    BY <1>0, <1>6 DEF Deliver, TypeOK
  <2> PICK x \in Tags : Covers(x, k)
    BY <1>1, <2>1
  <2> QED
    BY <2>1 DEF Covers, Settling, FollowUps
<1>7. ASSUME ReapStep \/ ReapFails
      PROVE  \E x \in Tags : Covers(x, k)'
  <2>1. UNCHANGED <<api, msg, worker>> /\ faults <= MaxRetries /\ Was
    BY <1>0, <1>7, BoundAssumption DEF ReapStep, ReapScan, ReapCommit, ReapFails, Fault, TypeOK
  <2> PICK x \in Tags : Covers(x, k)
    BY <1>1, <2>1
  <2> QED
    BY <2>1 DEF Covers
<1> QED
  BY <1>2, <1>3, <1>4, <1>5, <1>6, <1>7, Kinds

LEMMA CaredHolds == Spec => [](Paid /\ Cared)
<1>1. Init => Paid /\ Cared
  BY DEF Init, Paid, Cared, FreeTag, Busy, Idle
<1>2. Base /\ Base' /\ Paid /\ Cared /\ [Next]_vars => (Paid /\ Cared)'
  <2>1. CASE Base /\ Base' /\ Paid /\ Cared /\ Next
    BY <2>1, PaidStep, CaredStep
  <2>2. CASE UNCHANGED vars
    BY <2>2 DEF vars, Paid, Cared, Settling, Busy, JobOf
  <2> QED
    BY <2>1, <2>2
<1> QED
  BY <1>1, <1>2, BaseHolds, PTL DEF Spec

\* An unsettled job still has its task, whatever was retried, redelivered or run
\* twice, while there were no more faults than retries.
THEOREM NoTaskLostHolds == Spec => []NoTaskLost
<1>1. Cared => NoTaskLost
  BY DEF Cared, NoTaskLost
<1> QED
  BY <1>1, CaredHolds, PTL

(* Counting. *)

\* A finite set has one element more than without x, if x is one of its elements.
LEMMA CountWithout ==
    ASSUME NEW S, IsFiniteSet(S), NEW x
    PROVE  /\ Cardinality(S \ {x}) \in Nat
           /\ Cardinality(S) = Cardinality(S \ {x}) + (IF x \in S THEN 1 ELSE 0)
<1>1. /\ IsFiniteSet(S \ {x})
      /\ Cardinality(S \ {x}) = IF x \in S THEN Cardinality(S) - 1 ELSE Cardinality(S)
  BY FS_RemoveElement
<1>2. Cardinality(S) \in Nat /\ Cardinality(S \ {x}) \in Nat
  BY <1>1, FS_CardinalityType
<1> QED
  BY <1>1, <1>2

\* The runs that have committed findings and not announced them ...
Heralds(j) == {w \in Workers : /\ Busy(w) /\ JobOf(w) = j
                               /\ worker[w].pc \in {"audit", "completed"}}

\* ... are as many commits more than there are events.
Told == \A j \in Jobs : /\ announced[j] + Cardinality(Heralds(j)) <= results[j]
                        /\ effects[j] \intersect FollowUps # {} => results[j] > 0

LEMMA HeraldsFinite ==
    ASSUME NEW j
    PROVE  /\ IsFiniteSet(Heralds(j)) /\ Cardinality(Heralds(j)) \in Nat
           /\ IsFiniteSet(Heralds(j)') /\ Cardinality(Heralds(j)') \in Nat
<1>1. Heralds(j) \in SUBSET Workers /\ Heralds(j)' \in SUBSET Workers
  BY DEF Heralds
<1>2. IsFiniteSet(Heralds(j)) /\ IsFiniteSet(Heralds(j)')
  BY <1>1, FiniteAssumption, FS_Subset
<1> QED
  BY <1>2, FS_CardinalityType

\* Only the step of a run of the job changes its commits, its events or its heralds.
LEMMA ToldStep ==
    ASSUME Base, Base', Told, Next
    PROVE  Told'
<1>0. /\ TypeOK
      /\ \A k \in Jobs : /\ results[k] \in Nat /\ results'[k] \in Nat
                         /\ announced[k] \in Nat /\ announced'[k] \in Nat
  BY DEF Base, TypeOK
<1>1. ASSUME NEW w \in Workers, NEW j \in Jobs, Busy(w), j = JobOf(w), Step(w, j)
      PROVE  Told'
  <2>1. /\ Moving(w, j) /\ Telling(w, j) /\ worker'[w].tag = worker[w].tag
        /\ \A v \in Workers : v # w => worker'[v] = worker[v]
    BY <1>1 DEF Step, Moving
  <2>2. \A v \in Workers : Busy(v)' => Busy(v) /\ JobOf(v)' = JobOf(v)
    BY <2>1, SameJobs DEF Base
  <2>3. Busy(w)' /\ JobOf(w)' = j
    BY <1>1, <2>1, SameJobs DEF Base, Busy
  <2>4. ASSUME NEW k \in Jobs, k # j
        PROVE  /\ announced'[k] + Cardinality(Heralds(k)') <= results'[k]
               /\ effects'[k] \intersect FollowUps # {} => results'[k] > 0
    <3>1. Heralds(k)' \subseteq Heralds(k)
      BY <1>1, <2>1, <2>2, <2>4 DEF Heralds
    <3>2. Cardinality(Heralds(k)') <= Cardinality(Heralds(k))
      BY <3>1, HeraldsFinite, FS_Subset
    <3> QED
      BY <1>0, <2>1, <2>4, <3>2, HeraldsFinite DEF Told, Moving
  <2>5. /\ announced'[j] + Cardinality(Heralds(j)') <= results'[j]
        /\ effects'[j] \intersect FollowUps # {} => results'[j] > 0
    <3> DEFINE H == Heralds(j)
               G == Heralds(j)'
    <3>1. H \ {w} = G \ {w}
      <4>1. ASSUME NEW v \in Workers, v # w
            PROVE  v \in H <=> v \in G
        <5>1. worker'[v] = worker[v] /\ (Busy(v)' <=> Busy(v))
          BY <2>1, <4>1 DEF Busy
        <5> QED
          BY <2>2, <5>1 DEF Heralds
      <4> QED
        BY <4>1 DEF Heralds
    <3>2. /\ Pledge(worker[w]) = IF w \in H THEN 1 ELSE 0
          /\ Pledge(worker'[w]) = IF w \in G THEN 1 ELSE 0
      BY <1>1, <2>3 DEF Heralds, Pledge
    <3> HIDE DEF H, G
    <3>3. /\ Cardinality(H \ {w}) \in Nat
          /\ Cardinality(H) = Cardinality(H \ {w}) + Pledge(worker[w])
          /\ Cardinality(G) = Cardinality(H \ {w}) + Pledge(worker'[w])
      <4>1. IsFiniteSet(H) /\ IsFiniteSet(G)
        BY HeraldsFinite DEF H, G
      <4> QED
        BY <3>1, <3>2, <4>1, CountWithout
    <3>4. announced[j] + Cardinality(H) <= results[j]
      BY DEF Told, H
    <3>5. Pledge(worker[w]) \in Nat /\ Pledge(worker'[w]) \in Nat
      BY DEF Pledge
    <3>6. announced'[j] + Cardinality(G) <= results'[j]
      BY <1>0, <1>1, <2>1, <3>3, <3>4, <3>5 DEF Telling
    <3> QED
      BY <1>0, <2>1, <3>6 DEF G, Telling, Told, Moving
  <2> QED
    BY <2>4, <2>5 DEF Told
<1>2. ASSUME /\ UNCHANGED <<results, announced>>
             /\ \A k \in Jobs : effects'[k] \intersect FollowUps = effects[k] \intersect FollowUps
             /\ \A v \in Workers : \/ worker'[v] = worker[v]
                                   \/ worker'[v].pc \notin {"audit", "completed"}
      PROVE  Told'
  <2>1. ASSUME NEW k \in Jobs
        PROVE  Cardinality(Heralds(k)') <= Cardinality(Heralds(k))
    <3>1. Heralds(k)' \subseteq Heralds(k)
      BY <1>2, SameJobs DEF Heralds, Base
    <3> QED
      BY <3>1, HeraldsFinite, FS_Subset
  <2> QED
    BY <1>0, <1>2, <2>1, HeraldsFinite DEF Told
<1>3. ASSUME NEW w \in Workers, NEW j \in Jobs, NEW t \in Tags,
             Dropping(w, t, j) \/ \E u \in Tags : Resending(w, t, j, u)
      PROVE  Told'
  BY <1>2, <1>3 DEF Dropping, Resending, Idle
<1>4. ASSUME NEW j \in Jobs, Submit(j) \/ Enqueue(j) \/ Abandon(j) \/ Delete(j) \/ Age(j)
      PROVE  Told'
  BY <1>2, <1>4 DEF Submit, Enqueue, Abandon, Delete, Age
<1>5. ASSUME NEW w \in Workers, NEW t \in Tags, Deliver(w, t)
      PROVE  Told'
  BY <1>0, <1>2, <1>5 DEF Deliver, TypeOK
<1>6. ASSUME ReapStep \/ ReapFails
      PROVE  Told'
  BY <1>0, <1>2, <1>6 DEF ReapStep, ReapScan, ReapCommit, ReapFails, TypeOK, FollowUps
<1> QED
  BY <1>1, <1>3, <1>4, <1>5, <1>6, Kinds

LEMMA ToldHolds == Spec => []Told
<1>1. Init => Told
  <2> SUFFICES ASSUME Init, NEW j \in Jobs
               PROVE  /\ announced[j] + Cardinality(Heralds(j)) <= results[j]
                      /\ effects[j] \intersect FollowUps # {} => results[j] > 0
    BY DEF Told
  <2>1. Heralds(j) = {}
    BY DEF Init, Heralds, Busy, Idle
  <2> QED
    BY <2>1, FS_EmptySet DEF Init
<1>2. Base /\ Base' /\ Told /\ [Next]_vars => Told'
  <2>1. CASE Base /\ Base' /\ Told /\ Next
    BY <2>1, ToldStep
  <2>2. CASE UNCHANGED vars
    BY <2>2 DEF vars, Told, Heralds, Busy, JobOf
  <2> QED
    BY <2>1, <2>2
<1> QED
  BY <1>1, <1>2, BaseHolds, PTL DEF Spec

\* What a run announces, audits, reports or warms has been committed, even if two
\* runs of a job overlap.
THEOREM OnlyStoredIsAnnouncedHolds == Spec => []OnlyStoredIsAnnounced
<1>1. Base /\ Told => OnlyStoredIsAnnounced
  <2> SUFFICES ASSUME Base, Told, NEW j \in Jobs
               PROVE  /\ announced[j] <= results[j]
                      /\ effects[j] \intersect FollowUps # {} => results[j] > 0
    BY DEF OnlyStoredIsAnnounced
  <2>1. announced[j] \in Nat /\ results[j] \in Nat
    BY DEF Base, TypeOK
  <2> QED
    BY <2>1, HeraldsFinite DEF Told
<1> QED
  BY <1>1, BaseHolds, ToldHolds, PTL

\* The copies of a job's task that may still commit its findings, queued or in a run
\* that has not done so, and the runs whose handler would commit them by accident ...
Copies(j) == {t \in Tags : /\ msg[t].job = j
                           /\ \A w \in Workers : worker[w].tag = t => worker[w].pc \notin Past}
Laden(j) == {w \in Workers : /\ Busy(w) /\ JobOf(w) = j
                             /\ worker[w].pc = "fail" /\ worker[w].unsaved = 1}

\* ... number at most one more than the faults, together with the commits made.
Charged ==
    \A j \in Jobs :
        /\ results[j] <= 1 + faults
        /\ row[j] # "deleted" =>
              results[j] + Cardinality(Copies(j)) + Cardinality(Laden(j)) <= 1 + faults

LEMMA CopiesFinite ==
    ASSUME NEW j
    PROVE  /\ IsFiniteSet(Copies(j)) /\ Cardinality(Copies(j)) \in Nat
           /\ IsFiniteSet(Copies(j)') /\ Cardinality(Copies(j)') \in Nat
           /\ IsFiniteSet(Laden(j)) /\ Cardinality(Laden(j)) \in Nat
           /\ IsFiniteSet(Laden(j)') /\ Cardinality(Laden(j)') \in Nat
<1>1. /\ Copies(j) \in SUBSET Tags /\ Copies(j)' \in SUBSET Tags
      /\ Laden(j) \in SUBSET Workers /\ Laden(j)' \in SUBSET Workers
  BY DEF Copies, Laden
<1>2. /\ IsFiniteSet(Copies(j)) /\ IsFiniteSet(Copies(j)')
      /\ IsFiniteSet(Laden(j)) /\ IsFiniteSet(Laden(j)')
  BY <1>1, FiniteAssumption, FS_Subset
<1> QED
  BY <1>2, FS_CardinalityType

\* A crash and a redelivery make a spent copy whole again and cost a fault; a retry's
\* new message replaces the copy of the attempt that publishes it.
LEMMA ChargedStep ==
    ASSUME Base, Base', Charged, Next
    PROVE  Charged'
<1>0. /\ TypeOK /\ faults \in Nat /\ faults' \in Nat
      /\ \A k \in Jobs : results[k] \in Nat /\ results'[k] \in Nat
  BY BoundAssumption DEF Base, TypeOK
<1>1. ASSUME NEW w \in Workers, NEW j \in Jobs, Busy(w), j = JobOf(w), Step(w, j)
      PROVE  Charged'
  <2> DEFINE t == worker[w].tag
  <2>1. /\ Moving(w, j) /\ Charging(w, j) /\ worker'[w].tag = t
        /\ \A v \in Workers : v # w => worker'[v] = worker[v]
        /\ msg' = msg /\ t \in Tags /\ msg[t].job = j /\ faults <= faults'
    BY <1>0, <1>1, BaseFacts DEF Step, Moving, JobOf
  <2>2. \A v \in Workers : Busy(v)' => Busy(v) /\ JobOf(v)' = JobOf(v)
    BY <2>1, SameJobs DEF Base
  <2>3. Busy(w)' /\ JobOf(w)' = j
    BY <1>1, <2>1, SameJobs DEF Base, Busy
  <2>4. \A v \in Workers : worker[v].tag = t => v = w
    BY <1>1 DEF Base, Holding
  <2>5. ASSUME NEW k \in Jobs, k # j
        PROVE  /\ results'[k] <= 1 + faults'
               /\ row'[k] # "deleted" =>
                    results'[k] + Cardinality(Copies(k)') + Cardinality(Laden(k)') <= 1 + faults'
    <3>1. Laden(k)' \subseteq Laden(k) /\ Copies(k)' \subseteq Copies(k)
      BY <1>1, <2>1, <2>2, <2>5 DEF Laden, Copies
    <3>2. /\ Cardinality(Laden(k)') <= Cardinality(Laden(k))
          /\ Cardinality(Copies(k)') <= Cardinality(Copies(k))
      BY <3>1, CopiesFinite, FS_Subset
    <3>3. row'[k] = row[k] /\ results'[k] = results[k]
      BY <2>1, <2>5 DEF Moving
    <3> QED
      BY <1>0, <2>1, <3>2, <3>3, CopiesFinite DEF Charged
  <2>6. CASE row[j] = "deleted"
    <3>1. results'[j] = results[j] /\ row'[j] = "deleted"
      BY <1>1, <2>1, <2>6 DEF Charging, Moving
    <3> QED
      BY <1>0, <2>1, <2>5, <3>1 DEF Charged
  <2>7. CASE row[j] # "deleted"
    <3> DEFINE C == Copies(j)
               D == Copies(j)'
               K == Laden(j)
               L == Laden(j)'
    <3>1. C \ {t} = D \ {t}
      <4>1. ASSUME NEW x \in Tags, x # t
            PROVE  x \in C <=> x \in D
        BY <1>1, <2>1, <4>1 DEF Copies
      <4> QED
        BY <4>1 DEF Copies
    <3>2. /\ Copy(worker[w]) = IF t \in C THEN 1 ELSE 0
          /\ Copy(worker'[w]) = IF t \in D THEN 1 ELSE 0
      <4>1. t \in C <=> worker[w].pc \notin Past
        BY <1>1, <2>1, <2>4 DEF Copies
      <4>2. t \in D <=> worker'[w].pc \notin Past
        <5>1. \A v \in Workers : worker'[v].tag = t => v = w
          BY <2>1, <2>4
        <5> QED
          BY <1>1, <2>1, <5>1 DEF Copies
      <4> QED
        BY <4>1, <4>2 DEF Copy
    <3>3. K \ {w} = L \ {w}
      <4>1. ASSUME NEW v \in Workers, v # w
            PROVE  v \in K <=> v \in L
        <5>1. worker'[v] = worker[v] /\ (Busy(v)' <=> Busy(v))
          BY <2>1, <4>1 DEF Busy
        <5> QED
          BY <2>2, <5>1 DEF Laden
      <4> QED
        BY <4>1 DEF Laden
    <3>4. /\ Burden(worker[w]) = IF w \in K THEN 1 ELSE 0
          /\ Burden(worker'[w]) = IF w \in L THEN 1 ELSE 0
      BY <1>1, <2>3 DEF Laden, Burden
    <3> HIDE DEF C, D, K, L
    <3>5. /\ Cardinality(C \ {t}) \in Nat
          /\ Cardinality(C) = Cardinality(C \ {t}) + Copy(worker[w])
          /\ Cardinality(D) = Cardinality(C \ {t}) + Copy(worker'[w])
      <4>1. IsFiniteSet(C) /\ IsFiniteSet(D)
        BY CopiesFinite DEF C, D
      <4> QED
        BY <3>1, <3>2, <4>1, CountWithout
    <3>6. /\ Cardinality(K \ {w}) \in Nat
          /\ Cardinality(K) = Cardinality(K \ {w}) + Burden(worker[w])
          /\ Cardinality(L) = Cardinality(K \ {w}) + Burden(worker'[w])
      <4>1. IsFiniteSet(K) /\ IsFiniteSet(L)
        BY CopiesFinite DEF K, L
      <4> QED
        BY <3>3, <3>4, <4>1, CountWithout
    <3>7. results[j] + Cardinality(C) + Cardinality(K) <= 1 + faults
      BY <2>7 DEF Charged, C, K
    <3>8. /\ Copy(worker[w]) \in Nat /\ Copy(worker'[w]) \in Nat
          /\ Burden(worker[w]) \in Nat /\ Burden(worker'[w]) \in Nat
      BY DEF Copy, Burden
    <3>9. results'[j] + Cardinality(D) + Cardinality(L) <= 1 + faults'
      BY <1>0, <1>1, <2>1, <2>7, <3>5, <3>6, <3>7, <3>8 DEF Charging
    <3>10. Cardinality(D) \in Nat /\ Cardinality(L) \in Nat
      BY <3>5, <3>6, <3>8
    <3>11. results'[j] <= 1 + faults'
      BY <1>0, <1>1, <3>9, <3>10
    <3> QED
      BY <2>5, <3>9, <3>11 DEF Charged, D, L
  <2> QED
    BY <2>6, <2>7
<1>2. ASSUME UNCHANGED results, faults <= faults',
             \A k \in Jobs : row[k] = "deleted" => row'[k] = "deleted",
             \A k \in Jobs : Laden(k)' \subseteq Laden(k),
             \A k \in Jobs : Cardinality(Copies(k)') <= Cardinality(Copies(k)) + (faults' - faults)
      PROVE  Charged'
  <2>1. ASSUME NEW k \in Jobs
        PROVE  Cardinality(Laden(k)') <= Cardinality(Laden(k))
    BY <1>2, CopiesFinite, FS_Subset
  <2> QED
    BY <1>0, <1>2, <2>1, CopiesFinite DEF Charged
<1>3. ASSUME NEW w \in Workers, NEW j \in Jobs, NEW t \in Tags, Busy(w), j = JobOf(w),
             t = worker[w].tag, Dropping(w, t, j)
      PROVE  Charged'
  <2>1. ASSUME NEW k \in Jobs
        PROVE  /\ Laden(k)' \subseteq Laden(k)
               /\ Cardinality(Copies(k)') <= Cardinality(Copies(k)) + (faults' - faults)
    <3>1. \A v \in Workers : v # w => worker'[v] = worker[v]
      BY <1>3 DEF Dropping
    <3>2. worker'[w].tag = NoTag
      BY <1>3 DEF Dropping, Idle
    <3>3. Laden(k)' \subseteq Laden(k)
      BY <3>1, <3>2, SameJobs DEF Laden, Base, Busy
    <3>4. \A v \in Workers : worker[v].tag = t => v = w
      BY <1>3 DEF Base, Holding
    <3>5. Copies(k)' \ {t} \subseteq Copies(k) \ {t}
      BY <1>3, <3>1, <3>2 DEF Copies, Dropping
    <3>6. t \in Copies(k)' => t \in Copies(k) \/ faults' = faults + 1
      <4>1. FreeTag.job \notin Jobs
        BY JobAssumption DEF FreeTag
      <4>2. msg[t].job = j
        BY <1>3 DEF JobOf
      <4> QED
        BY <1>3, <3>4, <4>1, <4>2 DEF Copies, Dropping, FollowUps
    <3>7. faults' \in {faults, faults + 1}
      BY <1>3 DEF Dropping
    <3>8. Cardinality(Copies(k)' \ {t}) <= Cardinality(Copies(k) \ {t})
      <4>1. IsFiniteSet(Copies(k) \ {t})
        BY CopiesFinite, FS_RemoveElement
      <4> QED
        BY <3>5, <4>1, FS_Subset
    <3>9. /\ Cardinality(Copies(k)' \ {t}) \in Nat /\ Cardinality(Copies(k) \ {t}) \in Nat
          /\ Cardinality(Copies(k))
                = Cardinality(Copies(k) \ {t}) + (IF t \in Copies(k) THEN 1 ELSE 0)
          /\ Cardinality(Copies(k)')
                = Cardinality(Copies(k)' \ {t}) + (IF t \in Copies(k)' THEN 1 ELSE 0)
      BY CopiesFinite, CountWithout
    <3> QED
      BY <1>0, <3>3, <3>6, <3>7, <3>8, <3>9
  <2>2. UNCHANGED <<results, row>> /\ faults <= faults'
    BY <1>0, <1>3 DEF Dropping
  <2> QED
    BY <1>2, <2>1, <2>2
<1>4. ASSUME NEW w \in Workers, NEW j \in Jobs, NEW t \in Tags, Busy(w), j = JobOf(w),
             t = worker[w].tag, NEW u \in Tags, Resending(w, t, j, u)
      PROVE  Charged'
  <2>1. ASSUME NEW k \in Jobs
        PROVE  /\ Laden(k)' \subseteq Laden(k)
               /\ Cardinality(Copies(k)') <= Cardinality(Copies(k))
    <3>1. /\ worker'[w].tag = t /\ msg[t].job = j
          /\ \A v \in Workers : v # w => worker'[v] = worker[v]
          /\ \A v \in Workers : worker'[v].tag = worker[v].tag
      BY <1>4 DEF Resending, JobOf
    <3>2. Laden(k)' \subseteq Laden(k)
      BY <1>4, <3>1, SameJobs DEF Laden, Base, Resending
    <3>3. CASE k # j
      <4>1. Copies(k)' \subseteq Copies(k)
        BY <1>4, <3>1, <3>3 DEF Copies, Resending
      <4> QED
        BY <3>2, <4>1, CopiesFinite, FS_Subset
    <3>4. CASE k = j
      <4>1. Copies(k)' \subseteq (Copies(k) \ {t}) \union {u}
        <5>1. t \notin Copies(k)'
          BY <1>4, <3>1 DEF Copies, Resending
        <5>2. \A x \in Tags : x \in Copies(k)' /\ x # u => x \in Copies(k)
          BY <1>4, <3>1 DEF Copies, Resending
        <5> QED
          BY <5>1, <5>2 DEF Copies
      <4>2. t \in Copies(k)
        <5>1. \A v \in Workers : worker[v].tag = t => v = w
          BY <1>4 DEF Base, Holding
        <5> QED
          BY <1>4, <3>1, <3>4, <5>1 DEF Copies, Resending, FollowUps
      <4>3. u \notin Copies(k)
        BY <1>4, JobAssumption DEF Copies, Resending, FreeTag
      <4>4. /\ IsFiniteSet(Copies(k) \ {t})
            /\ Cardinality(Copies(k) \ {t}) = Cardinality(Copies(k)) - 1
        BY <4>2, CopiesFinite, FS_RemoveElement
      <4>5. /\ IsFiniteSet((Copies(k) \ {t}) \union {u})
            /\ Cardinality((Copies(k) \ {t}) \union {u}) = Cardinality(Copies(k)) - 1 + 1
        BY <4>3, <4>4, FS_AddElement
      <4>6. Cardinality(Copies(k)') <= Cardinality((Copies(k) \ {t}) \union {u})
        BY <4>1, <4>5, FS_Subset
      <4> QED
        BY <3>2, <4>5, <4>6, CopiesFinite
    <3> QED
      BY <3>3, <3>4
  <2>2. UNCHANGED <<results, row, faults>>
    BY <1>4 DEF Resending
  <2> QED
    BY <1>0, <1>2, <2>1, <2>2, CopiesFinite
<1>5. ASSUME NEW j \in Jobs, Enqueue(j)
      PROVE  Charged'
  <2> PICK u \in Tags : Publish(u, j, 0)
    BY <1>5 DEF Enqueue
  <2>1. UNCHANGED <<row, worker, results, faults>> /\ results[j] = 0 /\ api[j] # "enqueued"
    BY <1>5 DEF Enqueue, Base, Known
  <2>2. /\ msg'[u].job = j /\ msg[u].job = NoJob /\ \A x \in Tags : x # u => msg'[x] = msg[x]
    BY <1>0 DEF Publish, TypeOK, FreeTag
  <2>3. \A k \in Jobs : Laden(k)' \subseteq Laden(k)
    BY <2>1, SameJobs DEF Laden, Base
  <2>4. ASSUME NEW k \in Jobs, k # j
        PROVE  Cardinality(Copies(k)') <= Cardinality(Copies(k))
    <3>1. Copies(k)' \subseteq Copies(k)
      BY <2>1, <2>2, <2>4 DEF Copies
    <3> QED
      BY <3>1, CopiesFinite, FS_Subset
  <2>5. Cardinality(Copies(j)') <= 1 /\ Cardinality(Laden(j)') = 0
    <3>1. Copies(j)' \subseteq {u}
      BY <2>1, <2>2, JobAssumption DEF Copies, Base, Known
    <3>2. IsFiniteSet({u}) /\ Cardinality({u}) = 1
      BY FS_Singleton
    <3>3. Laden(j)' = {}
      <4>1. \A v \in Workers : Busy(v) => JobOf(v) # j
        BY <2>1, BaseFacts
      <4> QED
        BY <2>3, <4>1 DEF Laden
    <3> QED
      BY <3>1, <3>2, <3>3, FS_Subset, FS_EmptySet
  <2>6. ASSUME NEW k \in Jobs
        PROVE  Cardinality(Laden(k)') <= Cardinality(Laden(k))
    BY <2>3, CopiesFinite, FS_Subset
  <2>7. ASSUME NEW k \in Jobs
        PROVE  /\ results'[k] <= 1 + faults'
               /\ row'[k] # "deleted" =>
                    results'[k] + Cardinality(Copies(k)') + Cardinality(Laden(k)') <= 1 + faults'
    <3>1. CASE k = j
      BY <1>0, <2>1, <2>5, <3>1, CopiesFinite
    <3>2. CASE k # j
      BY <1>0, <2>1, <2>4, <2>6, <3>2, CopiesFinite DEF Charged
    <3> QED
      BY <3>1, <3>2
  <2> QED
    BY <2>7 DEF Charged
<1>6. ASSUME NEW j \in Jobs, Submit(j) \/ Abandon(j) \/ Delete(j) \/ Age(j)
      PROVE  Charged'
  <2>1. UNCHANGED <<msg, worker, results, faults>>
    BY <1>6 DEF Submit, Abandon, Delete, Age
  <2>2. \A k \in Jobs : row[k] = "deleted" => row'[k] = "deleted"
    BY <1>0, <1>6 DEF Submit, Abandon, Delete, Age, Base, Known, TypeOK
  <2>3. \A k \in Jobs : Laden(k)' = Laden(k) /\ Copies(k)' = Copies(k)
    BY <2>1 DEF Laden, Copies, Busy, JobOf
  <2> QED
    BY <1>0, <1>2, <2>1, <2>2, <2>3, CopiesFinite
<1>7. ASSUME NEW w \in Workers, NEW t \in Tags, Deliver(w, t)
      PROVE  Charged'
  <2>1. /\ worker'[w].pc = "fetch" /\ worker'[w].tag = t
        /\ \A v \in Workers : v # w => worker'[v] = worker[v]
        /\ UNCHANGED <<row, msg, results, faults>>
        /\ worker[w].tag \notin Tags
    BY <1>0, <1>7, TagAssumption DEF Deliver, TypeOK, Busy
  <2>2. \A k \in Jobs : Laden(k)' \subseteq Laden(k)
    BY <2>1 DEF Laden, Busy, JobOf
  <2>3. \A k \in Jobs : Copies(k)' \subseteq Copies(k)
    <3> SUFFICES ASSUME NEW k \in Jobs, NEW x \in Tags, x \in Copies(k)',
                        NEW v \in Workers, worker[v].tag = x
                 PROVE  msg[x].job = k /\ worker[v].pc \notin Past
      BY <2>1 DEF Copies
    <3>1. v # w
      BY <2>1
    <3> QED
      BY <2>1, <3>1 DEF Copies
  <2>4. ASSUME NEW k \in Jobs
        PROVE  Cardinality(Copies(k)') <= Cardinality(Copies(k))
    BY <2>3, CopiesFinite, FS_Subset
  <2> QED
    BY <1>0, <1>2, <2>1, <2>2, <2>4, CopiesFinite
<1>8. ASSUME ReapStep \/ ReapFails
      PROVE  Charged'
  <2>1. UNCHANGED <<msg, worker, results>> /\ faults' \in {faults, faults + 1}
    BY <1>8 DEF ReapStep, ReapScan, ReapCommit, ReapFails, Fault
  <2>2. \A k \in Jobs : row[k] = "deleted" => row'[k] = "deleted"
    BY <1>0, <1>8 DEF ReapStep, ReapScan, ReapCommit, ReapFails, Exists, TypeOK
  <2>3. \A k \in Jobs : Laden(k)' = Laden(k) /\ Copies(k)' = Copies(k)
    BY <2>1 DEF Laden, Copies, Busy, JobOf
  <2> QED
    BY <1>0, <1>2, <2>1, <2>2, <2>3, CopiesFinite
<1> QED
  BY <1>1, <1>3, <1>4, <1>5, <1>6, <1>7, <1>8, Kinds

LEMMA ChargedHolds == Spec => []Charged
<1>1. Init => Charged
  <2> SUFFICES ASSUME Init, NEW j \in Jobs
               PROVE  /\ results[j] <= 1 + faults
                      /\ results[j] + Cardinality(Copies(j)) + Cardinality(Laden(j)) <= 1 + faults
    BY DEF Charged
  <2>1. Copies(j) = {} /\ Laden(j) = {}
    BY JobAssumption DEF Init, Copies, Laden, FreeTag, Busy, Idle
  <2> QED
    BY <2>1, FS_EmptySet DEF Init
<1>2. Base /\ Base' /\ Charged /\ [Next]_vars => Charged'
  <2>1. CASE Base /\ Base' /\ Charged /\ Next
    BY <2>1, ChargedStep
  <2>2. CASE UNCHANGED vars
    BY <2>2 DEF vars, Charged, Copies, Laden, Busy, JobOf
  <2> QED
    BY <2>1, <2>2
<1> QED
  BY <1>1, <1>2, BaseHolds, PTL DEF Spec

\* A broker that delivers a task again makes a job's findings be committed again only
\* as often as something went wrong.
THEOREM RepeatsAlwaysBounded == Spec => []RepeatsAreBounded
<1>1. Charged => RepeatsAreBounded
  BY DEF Charged, RepeatsAreBounded
<1> QED
  BY <1>1, ChargedHolds, PTL

(* The contract. *)

\* As long as nothing has gone wrong, a job whose row is there has one message at most,
\* its row is pending until its run marks it, and not complete until its run stores.
QuietJob(j) ==
    /\ api[j] \in {"saved", "abandoned"} => row[j] = "pending"
    /\ j \in scan => row[j] \notin {"new", "pending"}
    /\ \A t, u \in Tags : msg[t].job = j /\ msg[u].job = j => t = u
    /\ \A t \in Tags : /\ msg[t].job = j
                       /\ \A w \in Workers : worker[w].tag = t => worker[w].pc \in {"fetch", "mark"}
                       => row[j] = "pending"
    /\ \A w \in Workers : /\ Busy(w) /\ JobOf(w) = j
                          /\ worker[w].pc \in {"load", "run", "store"}
                          => row[j] # "complete" /\ worker[w].seen # "complete"

Quiet == faults = 0 => \A j \in Jobs : row[j] # "deleted" => QuietJob(j)

\* A busy worker holds the message of its job, after the step as before it.
LEMMA HeldNext ==
    ASSUME Base', NEW v \in Workers, Busy(v)'
    PROVE  worker'[v].tag \in Tags /\ msg'[worker'[v].tag].job = JobOf(v)'
BY DEF Base, TypeOK, Slot, Busy, JobOf

\* A job whose row, messages and runs a step leaves alone stays as it was.
LEMMA QuietKept ==
    ASSUME Base', NEW k \in Jobs, QuietJob(k), row'[k] = row[k],
           api'[k] \in {api[k], "enqueued"}, k \in scan' => k \in scan,
           \A t \in Tags : msg'[t].job = k =>
               /\ msg[t].job = k
               /\ \A v \in Workers : /\ worker'[v].tag = t <=> worker[v].tag = t
                                     /\ worker[v].tag = t => worker'[v] = worker[v]
    PROVE  QuietJob(k)'
<1>1. ASSUME NEW v \in Workers, Busy(v)', JobOf(v)' = k
      PROVE  Busy(v) /\ JobOf(v) = k /\ worker'[v] = worker[v]
  <2>1. worker'[v].tag \in Tags
    BY <1>1, HeldNext
  <2> QED
    BY <1>1, <2>1 DEF JobOf, Busy
<1> QED
  BY <1>1 DEF QuietJob

\* The step of a run that keeps its slot, seen from its job.
LEMMA QuietSlot ==
    ASSUME Base, Base', NEW w \in Workers, Busy(w), NEW j \in Jobs, j = JobOf(w), QuietJob(j),
           UNCHANGED <<api, msg, scan>>,
           \A v \in Workers : v # w => worker'[v] = worker[v],
           worker'[w].tag = worker[w].tag,
           row'[j] \in {row[j], "processing", "complete"},
           worker'[w].pc \in {"fetch", "mark"} => row'[j] = "pending",
           worker'[w].pc \in {"load", "run", "store"}
               => row'[j] # "complete" /\ worker'[w].seen # "complete"
    PROVE  QuietJob(j)'
<1> DEFINE t == worker[w].tag
<1>1. t \in Tags /\ msg[t].job = j /\ msg' = msg /\ api[j] = "enqueued"
  BY BaseFacts DEF JobOf
<1>2. \A x \in Tags : msg'[x].job = j => x = t
  BY <1>1 DEF QuietJob
<1>3. ASSUME NEW v \in Workers, Busy(v)', JobOf(v)' = j
      PROVE  v = w
  <2>1. worker'[v].tag \in Tags /\ msg'[worker'[v].tag].job = j
    BY <1>3, HeldNext
  <2>2. worker'[v].tag = t
    BY <1>2, <2>1
  <2>3. v # w => worker[v].tag = t
    BY <2>2
  <2> QED
    BY <2>3 DEF Base, Holding
<1>4. j \in scan' => row'[j] \notin {"new", "pending"}
  BY DEF QuietJob
<1> QED
  BY <1>1, <1>2, <1>3, <1>4 DEF QuietJob

\* Without a fault a run never gets to its failure handlers.
LEMMA QuietTask ==
    ASSUME Base, Base', Paid, faults = 0, NEW w \in Workers, NEW j \in Jobs, j = JobOf(w),
           QuietJob(j), TaskStep(w), row[j] # "deleted"
    PROVE  QuietJob(j)'
<1>0. Busy(w) /\ TypeOK
  BY StepIsBusy DEF Base
<1>1. /\ RunSane(worker[w], j) /\ row[j] \in Status /\ worker[w].tag \in Tags
      /\ msg[worker[w].tag].job = j /\ row[j] # "new"
  BY <1>0, BaseFacts DEF JobOf
<1>2. worker[w].pc \notin Failing
  BY <1>0, <1>1, BusyType DEF Paid, Base
<1>3. worker[w].pc \in {"fetch", "mark"} => row[j] = "pending"
  <2>1. \A v \in Workers : worker[v].tag = worker[w].tag => v = w
    BY <1>0 DEF Base, Holding
  <2> QED
    BY <1>1, <2>1 DEF QuietJob
<1>4. worker[w].pc \in {"load", "run", "store"} => row[j] # "complete" /\ worker[w].seen # "complete"
  BY <1>0 DEF QuietJob
<1>5. CASE Fetch(w)
  <2>1. UNCHANGED <<row, api, msg, scan>> /\ row[j] = "pending"
    BY <1>3, <1>5 DEF Fetch, At
  <2>2. Continue(w, "mark", row[j], 0)
    BY <1>5, <2>1 DEF Fetch, Exists, Terminal
  <2> QED
    BY <1>0, <2>1, <2>2, Moves, QuietSlot
<1>6. CASE Mark(w)
  <2>1. row[j] = "pending" /\ UNCHANGED <<api, msg, scan>>
    BY <1>3, <1>6 DEF Mark, At
  <2>2. /\ row' = [row EXCEPT ![j] = Flushed(w, "processing")]
        /\ Continue(w, "load", "expired", 0)
    BY <1>6, <2>1 DEF Mark, Exists
  <2>3. row'[j] \in {row[j], "processing"}
    BY <1>0, <2>2 DEF Flushed, TypeOK
  <2> QED
    BY <1>0, <2>1, <2>2, <2>3, Moves, QuietSlot
<1>7. CASE Load(w) \/ Run(w)
  <2>1. UNCHANGED <<row, api, msg, scan>> /\ row[j] # "complete" /\ worker[w].seen # "complete"
    BY <1>4, <1>7 DEF Load, Run, At
  <2>2. \/ Continue(w, "run", row[j], 0)
        \/ Continue(w, "store", worker[w].seen, 1)
    BY <1>1, <1>7 DEF Load, Run, Exists
  <2> QED
    BY <1>0, <2>1, <2>2, Moves, QuietSlot
<1>8. CASE Store(w)
  <2>1. UNCHANGED <<api, msg, scan>> /\ Exists(j)
    BY <1>1, <1>8 DEF Store, Exists
  <2>2. row' = [row EXCEPT ![j] = Flushed(w, "complete")]
    BY <1>8, <2>1 DEF Store
  <2>3. PICK p \in FollowUps : Continue(w, p, "expired", 0)
    BY <1>8, <2>1 DEF Store, FirstFollowUp, FollowUps
  <2>4. row'[j] \in {row[j], "complete"}
    BY <1>0, <2>2 DEF Flushed, TypeOK
  <2> QED
    BY <1>0, <2>1, <2>3, <2>4, Moves, QuietSlot DEF FollowUps
<1>9. CASE Announce(w) \/ \E p \in FollowUps : FollowUp(w, p)
  <2>1. UNCHANGED <<row, api, msg, scan>> /\ Exists(j)
    BY <1>1, <1>9 DEF Announce, FollowUp, Exists
  <2>2. PICK p, s, d : Continue(w, p, s, d) /\ p \in Past
    BY <1>9, <2>1 DEF Announce, FollowUp, NextFollowUp, FollowUps
  <2> QED
    BY <1>0, <2>1, <2>2, Moves, QuietSlot DEF FollowUps
<1>10. CASE Fail(w) \/ Notify(w) \/ Retry(w) \/ GiveUp(w)
  BY <1>2, <1>10 DEF Fail, Notify, Retry, GiveUp, At
<1>11. CASE Ack(w)
  <2>1. /\ msg' = [msg EXCEPT ![worker[w].tag] = FreeTag]
        /\ UNCHANGED <<row, api, scan>>
    BY <1>11 DEF Ack
  <2>2. \A x \in Tags : msg'[x].job # j
    BY <1>0, <1>1, <2>1, JobAssumption DEF QuietJob, TypeOK, FreeTag
  <2>3. \A v \in Workers : Busy(v)' => JobOf(v)' # j
    BY <2>2, HeldNext
  <2> QED
    BY <2>1, <2>2, <2>3 DEF QuietJob
<1> QED
  BY <1>5, <1>6, <1>7, <1>8, <1>9, <1>10, <1>11 DEF TaskStep

\* Only a job's own run, its client and the sweep move it.
LEMMA QuietStep ==
    ASSUME Base, Base', Paid, Quiet, Next
    PROVE  Quiet'
<1> SUFFICES ASSUME faults' = 0, NEW k \in Jobs, row'[k] # "deleted"
             PROVE  QuietJob(k)'
  BY DEF Quiet
<1>0. /\ TypeOK /\ faults \in Nat /\ faults' \in Nat
      /\ \A j \in Jobs : api[j] = "new" <=> row[j] = "new"
      /\ \A t \in Tags : msg[t].job # NoJob => api[msg[t].job] = "enqueued"
  BY BoundAssumption DEF Base, TypeOK, Known
<1>1. ASSUME NEW w \in Workers, TaskStep(w) \/ FaultStep(w)
      PROVE  QuietJob(k)'
  <2>1. PICK j, t : j = JobOf(w) /\ t = worker[w].tag
    OBVIOUS
  <2>2. /\ Busy(w) /\ j \in Jobs /\ t \in Tags /\ msg[t].job = j
        /\ Step(w, j) \/ Dropping(w, t, j) \/ \E u \in Tags : Resending(w, t, j, u)
    BY <1>1, <2>1, RunKinds DEF JobOf
  <2>3. scan' = scan
    BY <1>1 DEF TaskStep, FaultStep, Fetch, Mark, Load, Run, Store, Announce, FollowUp, Fail, Notify,
       Retry, GiveUp, Ack, Swallowed, Raises, SoftTimeout, CommitFails, Crash, HardTimeout, RetryFails
  <2>4. faults' \in {faults, faults + 1} /\ (row[k] = "deleted" => row'[k] = "deleted")
    BY <2>2 DEF Step, Moving, Dropping, Resending
  <2>5. faults = 0 /\ QuietJob(k) /\ TaskStep(w)
    <3>1. FaultStep(w) => faults' = faults + 1
      BY DEF FaultStep, Swallowed, Raises, SoftTimeout, CommitFails, Crash, HardTimeout, RetryFails,
         Fault
    <3> QED
      BY <1>0, <1>1, <2>4, <3>1 DEF Quiet
  <2>6. CASE k = j
    BY <2>1, <2>4, <2>5, <2>6, QuietTask
  <2>7. CASE k # j
    <3>1. row'[k] = row[k] /\ api'[k] = api[k]
      BY <2>2, <2>7 DEF Step, Moving, Dropping, Resending
    <3>2. ASSUME NEW x \in Tags, msg'[x].job = k
          PROVE  /\ msg[x].job = k
                 /\ \A v \in Workers : /\ worker'[v].tag = x <=> worker[v].tag = x
                                       /\ worker[v].tag = x => worker'[v] = worker[v]
      <4>1. CASE Step(w, j)
        BY <2>1, <2>2, <2>7, <3>2, <4>1 DEF Step, Moving
      <4>2. CASE Dropping(w, t, j)
        <5>1. x # t
          BY <2>2, <2>7, <3>2, <4>2, JobAssumption DEF Dropping, FreeTag
        <5> QED
          BY <2>1, <3>2, <4>2, <5>1, TagAssumption DEF Dropping, Idle
      <4>3. ASSUME NEW u \in Tags, Resending(w, t, j, u)
            PROVE  /\ msg[x].job = k
                   /\ \A v \in Workers : /\ worker'[v].tag = x <=> worker[v].tag = x
                                         /\ worker[v].tag = x => worker'[v] = worker[v]
        BY <2>1, <2>2, <2>7, <3>2, <4>3 DEF Resending
      <4> QED
        BY <2>2, <4>1, <4>2, <4>3
    <3> QED
      BY <2>3, <2>5, <3>1, <3>2, QuietKept
  <2> QED
    BY <2>6, <2>7
<1>2. ASSUME NEW j \in Jobs, Enqueue(j)
      PROVE  QuietJob(k)'
  <2>1. PICK u \in Tags : Publish(u, j, 0)
    BY <1>2 DEF Enqueue
  <2>2. /\ api[j] = "saved" /\ api'[j] = "enqueued"
        /\ \A i \in Jobs : i # j => api'[i] = api[i]
        /\ UNCHANGED <<row, worker, scan, faults>>
        /\ msg[u] = FreeTag /\ msg'[u].job = j /\ \A x \in Tags : x # u => msg'[x] = msg[x]
    BY <1>0, <1>2, <2>1 DEF Enqueue, Publish, TypeOK
  <2>3. QuietJob(k)
    BY <1>0, <2>2 DEF Quiet
  <2>4. CASE k # j
    BY <2>2, <2>3, <2>4, QuietKept
  <2>5. CASE k = j
    <3>1. \A x \in Tags : msg'[x].job = j <=> x = u
      BY <1>0, <2>2, JobAssumption
    <3>2. \A v \in Workers : worker'[v].tag # u
      <4> SUFFICES ASSUME NEW v \in Workers, worker[v].tag = u
                   PROVE  FALSE
        BY <2>2
      <4>1. Busy(v)
        BY TagAssumption DEF Busy
      <4> QED
        BY <2>2, <4>1, BusyType, JobAssumption DEF Base, FreeTag
    <3>3. \A v \in Workers : Busy(v)' => JobOf(v)' # j
      BY <3>1, <3>2, HeldNext
    <3>4. row[j] = "pending"
      BY <2>2, <2>3, <2>5 DEF QuietJob
    <3> QED
      BY <2>2, <2>3, <2>5, <3>1, <3>3, <3>4 DEF QuietJob
  <2> QED
    BY <2>4, <2>5
<1>3. ASSUME NEW j \in Jobs, Submit(j) \/ Abandon(j) \/ Delete(j) \/ Age(j)
      PROVE  QuietJob(k)'
  <2>1. /\ UNCHANGED <<msg, worker, scan, faults>>
        /\ \A i \in Jobs : i # j => row'[i] = row[i] /\ api'[i] = api[i]
    BY <1>0, <1>3 DEF Submit, Abandon, Delete, Age, TypeOK
  <2>2. row[k] # "deleted"
    BY <1>0, <1>3 DEF Submit, Abandon, Delete, Age, TypeOK, Exists
  <2>3. QuietJob(k)
    BY <1>0, <2>1, <2>2 DEF Quiet
  <2>4. CASE k # j
    BY <2>1, <2>3, <2>4, QuietKept
  <2>5. CASE k = j /\ Submit(j)
    <3>1. api[j] = "new" /\ row'[j] = "pending" /\ row[j] = "new"
      BY <1>0, <2>5 DEF Submit, TypeOK
    <3>2. \A x \in Tags : msg'[x].job # j
      BY <1>0, <2>1, <3>1, JobAssumption
    <3>3. \A v \in Workers : Busy(v)' => JobOf(v)' # j
      BY <3>2, HeldNext
    <3> QED
      BY <2>1, <2>3, <2>5, <3>1, <3>2, <3>3 DEF QuietJob
  <2>6. CASE k = j /\ Abandon(j)
    <3>1. /\ row' = row /\ api[j] = "saved"
          /\ \A v \in Workers : JobOf(v)' = JobOf(v) /\ (Busy(v)' <=> Busy(v))
      BY <2>1, <2>6 DEF Abandon, JobOf, Busy
    <3> QED
      BY <2>1, <2>3, <2>6, <3>1 DEF QuietJob
  <2>7. CASE k = j /\ (Delete(j) \/ Age(j))
    <3>1. UNCHANGED <<row, api>>
      BY <1>0, <2>7 DEF Delete, Age, TypeOK
    <3> QED
      BY <2>1, <2>3, <3>1, QuietKept
  <2> QED
    BY <1>3, <2>4, <2>5, <2>6, <2>7
<1>4. ASSUME NEW w \in Workers, NEW t \in Tags, Deliver(w, t)
      PROVE  QuietJob(k)'
  <2>1. /\ worker'[w].tag = t /\ worker'[w].pc = "fetch"
        /\ \A v \in Workers : v # w => worker'[v] = worker[v]
        /\ UNCHANGED <<row, api, msg, scan, faults>>
        /\ worker[w].tag = NoTag /\ \A v \in Workers : worker[v].tag # t
    BY <1>0, <1>4 DEF Deliver, TypeOK, Busy, Held
  <2>2. QuietJob(k)
    BY <1>0, <2>1 DEF Quiet
  <2>3. CASE msg[t].job # k
    <3>1. ASSUME NEW x \in Tags, msg'[x].job = k
          PROVE  /\ msg[x].job = k
                 /\ \A v \in Workers : /\ worker'[v].tag = x <=> worker[v].tag = x
                                       /\ worker[v].tag = x => worker'[v] = worker[v]
      BY <2>1, <2>3, <3>1, TagAssumption
    <3> QED
      BY <2>1, <2>2, <3>1, QuietKept
  <2>4. CASE msg[t].job = k
    <3>1. row[k] = "pending" /\ \A x \in Tags : msg'[x].job = k => x = t
      BY <2>1, <2>2, <2>4 DEF QuietJob
    <3>2. ASSUME NEW v \in Workers, Busy(v)', JobOf(v)' = k
          PROVE  v = w
      <4>1. worker'[v].tag = t
        BY <3>1, <3>2, HeldNext
      <4> QED
        BY <2>1, <4>1
    <3> QED
      BY <2>1, <2>2, <3>1, <3>2 DEF QuietJob
  <2> QED
    BY <2>3, <2>4
<1>5. ASSUME ReapStep \/ ReapFails
      PROVE  QuietJob(k)'
  <2>1. /\ UNCHANGED <<api, msg, worker>> /\ faults = 0
        /\ \A v \in Workers : JobOf(v)' = JobOf(v) /\ (Busy(v)' <=> Busy(v))
    BY <1>0, <1>5 DEF ReapStep, ReapScan, ReapCommit, ReapFails, Fault, JobOf, Busy
  <2>2. row[k] # "deleted" /\ row'[k] \in {row[k], "failed"}
    BY <1>0, <1>5 DEF ReapStep, ReapScan, ReapCommit, ReapFails, Exists, TypeOK
  <2>3. QuietJob(k)
    BY <2>1, <2>2 DEF Quiet
  <2>4. k \in scan' => row[k] \notin {"new", "pending"}
    BY <1>5, <2>3 DEF ReapStep, ReapScan, ReapCommit, ReapFails, Stale, QuietJob
  <2>5. row'[k] # row[k] => k \in scan
    BY <1>0, <1>5 DEF ReapStep, ReapScan, ReapCommit, ReapFails, TypeOK
  <2> QED
    BY <2>1, <2>2, <2>3, <2>4, <2>5 DEF QuietJob
<1> QED
  BY <1>1, <1>2, <1>3, <1>4, <1>5 DEF Next, ApiStep

LEMMA QuietHolds == Spec => []Quiet
<1>1. Init => Quiet
  BY JobAssumption DEF Init, Quiet, QuietJob, FreeTag, Busy, Idle
<1>2. Base /\ Base' /\ Paid /\ Quiet /\ [Next]_vars => Quiet'
  <2>1. CASE Base /\ Base' /\ Paid /\ Quiet /\ Next
    BY <2>1, QuietStep
  <2>2. CASE UNCHANGED vars
    BY <2>2 DEF vars, Quiet, QuietJob, Busy, JobOf
  <2> QED
    BY <2>1, <2>2
<1> QED
  BY <1>1, <1>2, BaseHolds, CaredHolds, PTL DEF Spec

\* What JobUnderFaults says of a step, for one job.
Meets(j) == Loose(j)!Next \/ UNCHANGED Loose(j)!vars

\* Steps that leave the job's row, commits and events alone ...
LEMMA StillMeets ==
    ASSUME NEW j \in Jobs, row'[j] = row[j], results'[j] = results[j],
           announced'[j] = announced[j], faults' \in {faults, faults + 1}
    PROVE  Meets(j)
BY DEF Meets, Loose!Next, Loose!Incident, Loose!vars

\* ... and those that write FAILED, if anything.
LEMMA FailedMeets ==
    ASSUME NEW j \in Jobs, row[j] \in Status, row'[j] \in {row[j], "failed"},
           results'[j] = results[j], announced'[j] = announced[j],
           faults' \in {faults, faults + 1}
    PROVE  Meets(j)
<1>1. CASE row'[j] = row[j]
  BY <1>1, StillMeets
<1>2. CASE row'[j] = "failed"
  BY <1>2 DEF Meets, Loose!Next, Loose!Reject, Loose!Move, Loose!Live, Loose!Ended
<1> QED
  BY <1>1, <1>2

\* A run's commits and events are the ones the accounts allow it.
LEMMA RunMeets ==
    ASSUME Base, Paid, Told, Charged, Quiet, NEW w \in Workers, NEW j, j = JobOf(w),
           TaskStep(w) \/ FaultStep(w)
    PROVE  Meets(j)
<1> DEFINE t == worker[w].tag
<1>0. Busy(w) /\ TypeOK /\ Holding
  BY StepIsBusy DEF Base
<1>1. /\ j \in Jobs /\ t \in Tags /\ msg[t].job = j
      /\ row[j] \in Status \union {"deleted"} /\ worker[w].unsaved \in 0 .. 1
      /\ results[j] \in Nat /\ announced[j] \in Nat /\ faults \in Nat
  BY <1>0, BaseFacts DEF JobOf
<1>2. row[j] # "deleted" /\ worker[w].pc \notin Past => results[j] <= faults
  <2> SUFFICES ASSUME row[j] # "deleted", worker[w].pc \notin Past
               PROVE  results[j] <= faults
    OBVIOUS
  <2>1. t \in Copies(j)
    BY <1>0, <1>1 DEF Copies, Holding
  <2>2. Cardinality(Copies(j)) = Cardinality(Copies(j) \ {t}) + 1
        /\ Cardinality(Copies(j) \ {t}) \in Nat
    BY <2>1, CopiesFinite, CountWithout
  <2> QED
    BY <1>1, <2>2, CopiesFinite DEF Charged
<1>3. faults = 0 /\ row[j] # "deleted" => QuietJob(j) /\ worker[w].pc \notin Failing
  BY <1>0, <1>1, BusyType DEF Quiet, Paid
<1>4. CASE Mark(w)
  <2>1. /\ worker[w].pc = "mark" /\ UNCHANGED <<results, announced, faults>>
        /\ row'[j] \in {row[j], "processing"}
    BY <1>0, <1>1, <1>4 DEF Mark, At, Flushed, TypeOK
  <2>2. CASE row[j] = "deleted"
    <3>1. row'[j] = row[j]
      BY <1>0, <1>1, <1>4, <2>2 DEF Mark, Flushed, Exists, TypeOK
    <3> QED
      BY <1>1, <2>1, <3>1, StillMeets
  <2>3. CASE row[j] # "deleted"
    <3>1. faults = 0 => row[j] = "pending"
      BY <1>0, <1>1, <1>3, <2>1, <2>3 DEF QuietJob, Holding
    <3>2. CASE row'[j] = "processing"
      BY <1>1, <2>1, <2>3, <3>1, <3>2 DEF Meets, Loose!Next, Loose!Start, Loose!Move, Loose!Live,
         Loose!Ended, Loose!Calm
    <3> QED
      BY <1>1, <2>1, <3>2, StillMeets
  <2> QED
    BY <2>2, <2>3
<1>5. CASE Store(w) /\ Exists(j)
  <2>1. /\ worker[w].pc = "store" /\ UNCHANGED <<announced, faults>>
        /\ results'[j] = results[j] + 1
        /\ row'[j] \in {row[j], "complete"}
        /\ worker[w].seen # "complete" => row'[j] = "complete"
    BY <1>0, <1>1, <1>5 DEF Store, At, Flushed, TypeOK
  <2>2. row[j] # "deleted" /\ results[j] <= faults
    BY <1>2, <1>5, <2>1 DEF Exists, FollowUps
  <2>3. faults = 0 => row'[j] = "complete"
    BY <1>0, <1>3, <2>1, <2>2 DEF QuietJob
  <2> QED
    BY <1>1, <2>1, <2>2, <2>3 DEF Meets, Loose!Next, Loose!StoreAgain, Loose!Move, Loose!Live,
       Loose!Ended, Loose!Calm
<1>6. CASE Fail(w) /\ Exists(j)
  <2>1. /\ worker[w].pc = "fail" /\ UNCHANGED <<announced, faults>>
        /\ results'[j] = results[j] + worker[w].unsaved
        /\ row'[j] \in {row[j], "failed"}
    BY <1>0, <1>1, <1>6 DEF Fail, At, Flushed, TypeOK
  <2>2. CASE worker[w].unsaved = 0
    BY <1>1, <1>6, <2>1, <2>2, FailedMeets DEF Exists
  <2>3. CASE worker[w].unsaved = 1
    <3>1. row[j] # "deleted" /\ results[j] <= faults /\ faults # 0
      BY <1>2, <1>3, <1>6, <2>1 DEF Exists, FollowUps
    <3> QED
      BY <1>1, <2>1, <2>3, <3>1 DEF Meets, Loose!Next, Loose!StoreAgain, Loose!Move, Loose!Live,
         Loose!Ended, Loose!Calm
  <2> QED
    BY <1>1, <2>2, <2>3
<1>7. CASE Announce(w) /\ Exists(j)
  <2>1. /\ worker[w].pc = "completed" /\ UNCHANGED <<row, results, faults>>
        /\ announced'[j] = announced[j] + 1
    BY <1>0, <1>1, <1>7 DEF Announce, At, TypeOK
  <2>2. w \in Heralds(j)
    BY <1>0, <2>1 DEF Heralds
  <2>3. Cardinality(Heralds(j)) = Cardinality(Heralds(j) \ {w}) + 1
        /\ Cardinality(Heralds(j) \ {w}) \in Nat
    BY <2>2, HeraldsFinite, CountWithout
  <2>4. announced[j] < results[j]
    BY <1>1, <2>3 DEF Told
  <2> QED
    BY <1>1, <1>7, <2>1, <2>4 DEF Exists, Meets, Loose!Next, Loose!Tell, Loose!Live, Loose!Ended
<1>8. CASE SoftTimeout(w)
  <2>1. /\ UNCHANGED <<results, announced>> /\ faults' = faults + 1 /\ Exists(j)
        /\ row'[j] \in {row[j], "failed"}
    BY <1>0, <1>1, <1>8 DEF SoftTimeout, Fault, Flushed, TypeOK
  <2> QED
    BY <1>1, <2>1, FailedMeets DEF Exists
<1>9. CASE \/ Fetch(w) \/ Load(w) \/ Run(w) \/ \E p \in FollowUps : FollowUp(w, p)
           \/ Notify(w) \/ Retry(w) \/ GiveUp(w) \/ Ack(w)
           \/ (Store(w) \/ Fail(w) \/ Announce(w)) /\ ~Exists(j)
  <2>1. UNCHANGED <<row, results, announced, faults>>
    BY <1>9 DEF Fetch, Load, Run, FollowUp, Notify, Retry, GiveUp, Ack, Store, Fail, Announce
  <2> QED
    BY <1>1, <2>1, StillMeets
<1>10. CASE \/ \E p \in FollowUps \union {"notify"} : Swallowed(w, p)
            \/ Raises(w) \/ CommitFails(w) \/ Crash(w) \/ HardTimeout(w) \/ RetryFails(w)
  <2>1. UNCHANGED <<row, results, announced>> /\ faults' = faults + 1
    BY <1>10 DEF Swallowed, Raises, CommitFails, Crash, HardTimeout, RetryFails, Fault
  <2> QED
    BY <1>1, <2>1, StillMeets
<1> QED
  BY <1>4, <1>5, <1>6, <1>7, <1>8, <1>9, <1>10 DEF TaskStep, FaultStep

\* So is every step of the system, seen from every job.
LEMMA StepMeets ==
    ASSUME Base, Paid, Told, Charged, Quiet, Next, NEW k \in Jobs
    PROVE  Meets(k)
<1>0. /\ TypeOK /\ row[k] \in Status \union {"new", "deleted"}
  BY DEF Base, TypeOK
<1>1. ASSUME NEW w \in Workers, TaskStep(w) \/ FaultStep(w)
      PROVE  Meets(k)
  <2>1. PICK j, t : j = JobOf(w) /\ t = worker[w].tag
    OBVIOUS
  <2>2. CASE k = j
    BY <1>1, <2>1, <2>2, RunMeets
  <2>3. CASE k # j
    <3>1. Step(w, j) \/ Dropping(w, t, j) \/ \E u \in Tags : Resending(w, t, j, u)
      BY <1>1, <2>1, RunKinds
    <3>2. /\ row'[k] = row[k] /\ results'[k] = results[k] /\ announced'[k] = announced[k]
          /\ faults' \in {faults, faults + 1}
      BY <2>3, <3>1 DEF Step, Moving, Dropping, Resending
    <3> QED
      BY <3>2, StillMeets
  <2> QED
    BY <2>2, <2>3
<1>2. ASSUME NEW j \in Jobs, ApiStep(j) \/ Age(j)
      PROVE  Meets(k)
  <2>1. /\ UNCHANGED <<results, announced, faults>>
        /\ row' = row \/ Submit(j) \/ Delete(j)
    BY <1>2 DEF ApiStep, Submit, Enqueue, Abandon, Delete, Age
  <2>2. CASE row'[k] = row[k]
    BY <2>1, <2>2, StillMeets
  <2>3. CASE Submit(j) /\ k = j
    <3>1. row[k] = "new" /\ row'[k] = "pending"
      BY <1>0, <2>3 DEF Submit, TypeOK, Base, Known
    <3> QED
      BY <2>1, <3>1 DEF Meets, Loose!Next, Loose!Accept, Loose!Move
  <2>4. CASE Delete(j) /\ k = j
    <3>1. row[k] \in Status /\ row'[k] = "deleted"
      BY <1>0, <2>4 DEF Delete, TypeOK, Exists
    <3> QED
      BY <2>1, <3>1 DEF Meets, Loose!Next, Loose!Remove, Loose!Move, Loose!Live, Loose!Ended
  <2>5. k # j => row'[k] = row[k]
    BY <1>0, <2>1 DEF Submit, Delete, TypeOK
  <2> QED
    BY <2>1, <2>2, <2>3, <2>4, <2>5
<1>3. ASSUME NEW w \in Workers, NEW t \in Tags, Deliver(w, t)
      PROVE  Meets(k)
  BY <1>3, StillMeets DEF Deliver
<1>4. CASE ReapStep \/ ReapFails
  <2>1. /\ UNCHANGED <<results, announced>> /\ faults' \in {faults, faults + 1}
        /\ row'[k] = row[k] \/ (row'[k] = "failed" /\ row[k] \in Status)
    BY <1>0, <1>4 DEF ReapStep, ReapScan, ReapCommit, ReapFails, Fault, Exists
  <2> QED
    BY <2>1, StillMeets, FailedMeets
<1> QED
  BY <1>1, <1>2, <1>3, <1>4 DEF Next

\* Whatever faults happen, and however often a broker delivers a task again, a job's
\* client sees what JobUnderFaults allows.
THEOREM FaultyImplementation == Spec => ImplementsUnderFaults
<1>1. Init => \A j \in Jobs : Loose(j)!Init
  BY DEF Init, Loose!Init
<1>2. Base /\ Paid /\ Told /\ Charged /\ Quiet /\ [Next]_vars
          => [\A j \in Jobs : Loose(j)!Next \/ UNCHANGED Loose(j)!vars]_vars
  BY StepMeets DEF Meets
<1> QED
  BY <1>1, <1>2, BaseHolds, CaredHolds, ToldHolds, ChargedHolds, QuietHolds, PTL
  DEF Spec, ImplementsUnderFaults

\* A step that only one job can see, before a first fault.
LEMMA MeetsContract ==
    ASSUME Base, Base', Charged, faults = 0, faults' = 0, NEW j \in Jobs, Meets(j),
           \A k \in Jobs : k # j => /\ row'[k] = row[k]
                                    /\ results'[k] = results[k]
                                    /\ announced'[k] = announced[k]
    PROVE  Contract!Next \/ UNCHANGED Contract!vars
<1>1. /\ row \in [Jobs -> Status \union {"new", "deleted"}]
      /\ results \in [Jobs -> Nat] /\ announced \in [Jobs -> Nat]
      /\ row' \in [Jobs -> Status \union {"new", "deleted"}]
      /\ results' \in [Jobs -> Nat] /\ announced' \in [Jobs -> Nat]
  BY DEF Base, TypeOK
<1>2. row'[j] = row[j] => row' = row
  BY <1>1
<1>3. results'[j] = results[j] => results' = results
  BY <1>1
<1>4. announced'[j] = announced[j] => announced' = announced
  BY <1>1
<1>5. /\ row' = [row EXCEPT ![j] = row'[j]]
      /\ results' = [results EXCEPT ![j] = results'[j]]
      /\ announced' = [announced EXCEPT ![j] = announced'[j]]
  BY <1>1
<1>6. results[j] \in 0 .. 1 /\ announced[j] \in Nat
  BY <1>1 DEF Charged
<1>7. CASE Loose(j)!Accept \/ Loose(j)!Start \/ Loose(j)!Reject \/ Loose(j)!Remove
  <2>1. UNCHANGED <<results, announced>>
    BY <1>3, <1>4, <1>7 DEF Loose!Accept, Loose!Start, Loose!Reject, Loose!Remove
  <2>2. \/ row[j] = "new" /\ row'[j] = "pending"
        \/ row[j] \in Unsettled /\ row'[j] = "processing"
        \/ row[j] \in Status /\ row'[j] \in {"failed", "deleted"}
    BY <1>7 DEF Loose!Accept, Loose!Start, Loose!Reject, Loose!Remove, Loose!Move, Loose!Live,
       Loose!Ended, Loose!Calm
  <2>3. Contract!Accept(j) \/ Contract!Start(j) \/ Contract!Reject(j) \/ Contract!Remove(j)
    BY <1>5, <2>1, <2>2 DEF Contract!Accept, Contract!Start, Contract!Reject, Contract!Remove,
       Contract!Move, Contract!Live, Contract!Ended
  <2> QED
    BY <2>3 DEF Contract!Next
<1>8. CASE Loose(j)!StoreAgain
  <2>1. /\ results[j] = 0 /\ results'[j] = 1 /\ UNCHANGED announced
        /\ row[j] \in Status /\ row'[j] \in {"complete", "failed"}
    BY <1>4, <1>6, <1>8 DEF Loose!StoreAgain, Loose!Move, Loose!Live, Loose!Ended, Loose!Calm
  <2>2. Contract!StoreOnce(j)
    BY <1>5, <2>1 DEF Contract!StoreOnce, Contract!Move, Contract!Live, Contract!Ended
  <2> QED
    BY <2>2 DEF Contract!Next
<1>9. CASE Loose(j)!Tell
  <2>1. /\ results[j] = 1 /\ announced[j] = 0 /\ announced'[j] = 1
        /\ UNCHANGED <<row, results>>
    BY <1>2, <1>3, <1>6, <1>9 DEF Loose!Tell
  <2>2. Contract!Tell(j)
    BY <1>5, <2>1 DEF Contract!Tell
  <2> QED
    BY <2>2 DEF Contract!Next
<1>10. CASE UNCHANGED Loose(j)!vars
  BY <1>2, <1>3, <1>4, <1>10 DEF Loose!vars, Contract!vars
<1> QED
  BY <1>7, <1>8, <1>9, <1>10 DEF Meets, Loose!Next, Loose!Incident

\* Until something goes wrong for the first time, the steps of the system are those of
\* JobContract, whether or not a retry's publish and its ack are one step.
ContractUntilFault == [][faults' = 0 => Contract!Next \/ UNCHANGED Contract!vars]_vars

\* JobUnderFaults is JobContract until a first fault.
THEOREM FaultFreeImplementation == Spec => ContractUntilFault
<1>1. ASSUME Base, Base', Paid, Told, Charged, Quiet, Next, faults' = 0
      PROVE  Contract!Next \/ UNCHANGED Contract!vars
  <2>0. TypeOK /\ faults \in Nat /\ faults' \in Nat /\ \A k \in Jobs : Meets(k)
    BY <1>1, StepMeets, BoundAssumption DEF Base, TypeOK
  <2>1. ASSUME NEW w \in Workers, TaskStep(w) \/ FaultStep(w)
        PROVE  Contract!Next \/ UNCHANGED Contract!vars
    <3>1. PICK j, t : j = JobOf(w) /\ t = worker[w].tag
      OBVIOUS
    <3>2. /\ j \in Jobs
          /\ Step(w, j) \/ Dropping(w, t, j) \/ \E u \in Tags : Resending(w, t, j, u)
      BY <1>1, <2>1, <3>1, RunKinds
    <3>3. /\ faults' \in {faults, faults + 1}
          /\ \A k \in Jobs : k # j => /\ row'[k] = row[k]
                                      /\ results'[k] = results[k]
                                      /\ announced'[k] = announced[k]
      BY <3>2 DEF Step, Moving, Dropping, Resending
    <3> QED
      BY <1>1, <2>0, <3>2, <3>3, MeetsContract
  <2>2. ASSUME NEW j \in Jobs, ApiStep(j) \/ Age(j)
        PROVE  Contract!Next \/ UNCHANGED Contract!vars
    <3>1. /\ UNCHANGED <<results, announced, faults>>
          /\ \A k \in Jobs : k # j => row'[k] = row[k]
      BY <2>0, <2>2 DEF ApiStep, Submit, Enqueue, Abandon, Delete, Age, TypeOK
    <3> QED
      BY <1>1, <2>0, <3>1, MeetsContract
  <2>3. ASSUME \/ \E w \in Workers, t \in Tags : Deliver(w, t)
               \/ ReapScan \/ ReapFails \/ (ReapCommit /\ row' = row)
        PROVE  UNCHANGED Contract!vars
    BY <2>3 DEF Deliver, ReapScan, ReapFails, ReapCommit, Contract!vars
  <2>4. CASE ReapCommit /\ row' # row
    <3>1. scan \in SUBSET Jobs /\ Contract!RejectAll(scan)
      BY <2>0, <2>4 DEF ReapCommit, Exists, TypeOK, Contract!RejectAll, Contract!Live, Contract!Ended
    <3> QED
      BY <3>1 DEF Contract!Next
  <2> QED
    BY <1>1, <2>1, <2>2, <2>3, <2>4 DEF Next, ReapStep
<1>2. Base /\ Base' /\ Paid /\ Told /\ Charged /\ Quiet /\ [Next]_vars
          => [faults' = 0 => Contract!Next \/ UNCHANGED Contract!vars]_vars
  BY <1>1
<1> QED
  BY <1>2, BaseHolds, CaredHolds, ToldHolds, ChargedHolds, QuietHolds, PTL
  DEF Spec, ContractUntilFault
=============================================================================
