--------------------------- MODULE CorpusRunProofs ---------------------------
(***************************************************************************)
(* Proofs about CorpusRun for any runs, assays, task slots, retries and    *)
(* faults.                                                                 *)
(***************************************************************************)
EXTENDS CorpusRun, FiniteSetTheorems, TLAPS

Busy(x) == ~In(x, "idle")

\* A message has one holder, who executes its run; a new run has no message.
Custody == /\ \A x \in Executors : Busy(x) => /\ RunOf(x) \in Runs
                                              /\ mail[RunOf(x)].at = "held"
           /\ \A x, y \in Executors : Busy(x) /\ Busy(y) /\ x # y => RunOf(x) # RunOf(y)
           /\ \A r \in Runs : run[r].status = "new" => mail[r].at = "none"

\* The cascade of a deletion: the rows of an assay are gone if and only if it is.
Cascade == \A r \in Runs, a \in Assays :
               IF baseline[a] = Gone THEN member[r][a] \in {"none", "gone"}
                                     ELSE member[r][a] # "gone"

\* The assays an attempt has still to judge, and those it has judged.
Judging(x) == {a \in Assays : In(x, "judge") /\ exec[x].now = a}
Open(x) == exec[x].left \union Judging(x)
Closed(x) == Here(RunOf(x)) \ Open(x)
Bad == {"failed", "error", "gone"}

\* What an attempt has counted is what it has committed, assay by assay.
Counts(x) ==
    LET rows == member[RunOf(x)] IN
    /\ \A a \in Open(x) : rows[a] # "none"
    /\ exec[x].fails = 0 => \A a \in Closed(x) : rows[a] = "passed"
    /\ exec[x].fails > 0 => \E a \in Assays \ Open(x) : rows[a] \in Bad
    /\ Cardinality(Closed(x)) <= exec[x].passes + exec[x].fails

\* Where an attempt is, and what is true of its run there.
Looping(x) == In(x, "next") \/ In(x, "judge")
Place(x) == /\ In(x, "start") \/ In(x, "load") => exec[x].passes = 0 /\ exec[x].fails = 0
            /\ In(x, "load") \/ Looping(x) => run[RunOf(x)].status = "processing"
            /\ In(x, "judge") => exec[x].now \in Assays \ exec[x].left
            /\ In(x, "event") => run[RunOf(x)].status \in Ended
            /\ Looping(x) => Counts(x)

\* One run's part of VerdictMatchesMembers.
Truthful(r) == /\ run[r].status = "passed" =>
                      run[r].fails = 0 /\ \A a \in Here(r) : member[r][a] = "passed"
               /\ run[r].status = "failed" =>
                      run[r].fails > 0 /\ \E a \in Assays : member[r][a] \in Bad
               /\ run[r].status \in {"passed", "failed"} =>
                      run[r].passes + run[r].fails >= Cardinality(Here(r))

\* The attempts that may yet write a baseline.
Booting(a) == {x \in Executors : In(x, "judge") /\ exec[x].now = a /\ exec[x].base = Unset}
Settling(a) == /\ baseline[a] = Unset => boots[a] = 0
               /\ boots[a] + Cardinality(Booting(a)) <= Cardinality(Executors)

\* Every failed attempt is paid for by a fault, or by an assay that was deleted after
\* the attempt had loaded it.
Lost == {a \in Assays : baseline[a] = Gone}
Paid == /\ \A r \in Runs : mail[r].retries <= stray + Cardinality(Lost)
        /\ \A x \in Executors :
               /\ Looping(x) =>
                      mail[RunOf(x)].retries <= stray + Cardinality(Lost \ Open(x))
               /\ In(x, "handler") \/ In(x, "retry") =>
                      mail[RunOf(x)].retries + 1 <= stray + Cardinality(Lost)

\* One run's part of EndedRunIsAnnounced.
Told(r) == mail[r].at = "over" =>
               \/ run[r].status \in Ended /\ run[r].event = EventFor(run[r].status)
               \/ RunRetries < stray + Cardinality(Lost)

CorpusInv == /\ CorpusTypeOK /\ Custody /\ Cascade
             /\ \A x \in Executors : Busy(x) => Place(x)
             /\ \A r \in Runs : Truthful(r) /\ Told(r)
             /\ \A a \in Assays : Settling(a)
             /\ Paid
-----------------------------------------------------------------------------
(* What a step does. *)

\* The rows and the message of no run but r change.
OnlyRun(r) == /\ run' \in [Runs -> RunRow]
              /\ member' \in [Runs -> [Assays -> MemberRow]]
              /\ mail' \in [Runs -> Mail]
              /\ \A q \in Runs \ {r} : /\ run'[q] = run[q]
                                       /\ member'[q] = member[q]
                                       /\ mail'[q] = mail[q]

\* No slot but x changes.
OnlySlot(x) == /\ exec' \in [Executors -> ExecSlot]
               /\ \A y \in Executors \ {x} : exec'[y] = exec[y]

SameCounts(x) == exec'[x].passes = exec[x].passes /\ exec'[x].fails = exec[x].fails

\* x's attempt goes on at p with what it has loaded.
Goes(x, p) == /\ Busy(x)
              /\ exec'[x].pc = p
              /\ exec'[x].run = exec[x].run
              /\ exec'[x].left = exec[x].left
              /\ exec'[x].now = exec[x].now
              /\ exec'[x].base = exec[x].base
              /\ SameCounts(x)

\* x's attempt is over.
Leaves(x) == Busy(x) /\ exec'[x].pc = "idle"

Quiet == UNCHANGED <<baseline, boots>>
Fine == UNCHANGED stray

\* The status of r is what it was, or becomes error if it was not final.
Marked(r) == /\ run'[r].passes = run[r].passes
             /\ run'[r].fails = run[r].fails
             /\ \/ run'[r].status = run[r].status
                \/ run[r].status \notin Ended /\ run'[r].status = "error"

Took(x, r) == /\ In(x, "idle") /\ exec'[x].pc = "start" /\ exec'[x].run = r
              /\ exec'[x].passes = 0 /\ exec'[x].fails = 0
              /\ mail[r].at = "queued" /\ mail'[r].at = "held"
              /\ mail'[r].retries = mail[r].retries
              /\ UNCHANGED <<run, member>> /\ Quiet /\ Fine

Started(x) == /\ In(x, "start") /\ Goes(x, "load")
              /\ run'[RunOf(x)].status = "processing"
              /\ UNCHANGED <<member, mail>> /\ Quiet /\ Fine

Loaded(x) == /\ In(x, "load") /\ exec'[x].pc = "next" /\ exec'[x].run = exec[x].run
             /\ exec'[x].left = Here(RunOf(x)) /\ SameCounts(x)
             /\ UNCHANGED <<run, member, mail>> /\ Quiet /\ Fine

NotFound(x) == /\ In(x, "load") /\ Goes(x, "event")
               /\ run'[RunOf(x)].status = "error"
               /\ UNCHANGED <<member, mail>> /\ Quiet /\ Fine

Picked(x, a) == /\ In(x, "next") /\ exec'[x].pc = "judge" /\ exec'[x].run = exec[x].run
                /\ a \in exec[x].left /\ baseline[a] # Gone
                /\ exec'[x].left = exec[x].left \ {a}
                /\ exec'[x].now = a /\ exec'[x].base = baseline[a] /\ SameCounts(x)
                /\ UNCHANGED <<run, member, mail>> /\ Quiet /\ Fine

\* An assay has its verdict, and perhaps its first baseline.
Ruled(x, v) ==
    LET r == RunOf(x)
        a == exec[x].now IN
    /\ In(x, "judge") /\ exec'[x].pc = "next" /\ exec'[x].run = exec[x].run
    /\ exec'[x].left = exec[x].left
    /\ IF v = "passed"
       THEN exec'[x].passes = exec[x].passes + 1 /\ exec'[x].fails = exec[x].fails
       ELSE exec'[x].passes = exec[x].passes /\ exec'[x].fails = exec[x].fails + 1
    /\ \A b \in Assays \ {a} : member'[r][b] = member[r][b]
    /\ \/ member[r][a] = "gone" /\ member'[r][a] = "gone" /\ Quiet
       \/ member[r][a] # "gone" /\ member'[r][a] = v /\ Quiet
       \/ /\ exec[x].base = Unset /\ v = "passed" /\ member'[r][a] = v
          /\ baseline[a] # Gone /\ baseline'[a] \in Outputs
          /\ baseline' \in [Assays -> Outputs \union {Unset, Gone}]
          /\ boots' \in [Assays -> Nat]
          /\ boots'[a] = boots[a] + 1
          /\ \A b \in Assays \ {a} : baseline'[b] = baseline[b] /\ boots'[b] = boots[b]
    /\ UNCHANGED <<run, mail>> /\ Fine

\* An assay of the attempt was deleted under it.
Tripped(x) == /\ Looping(x)
              /\ Goes(x, "handler") \/ Goes(x, "retry")
              /\ \E a \in Open(x) : baseline[a] = Gone \/ member[RunOf(x)][a] = "gone"
              /\ UNCHANGED <<run, member, mail>> /\ Quiet /\ Fine

\* Counts, verdict and certificate.
Finished(x) == LET r == RunOf(x) IN
               /\ In(x, "next") /\ exec[x].left = {} /\ Goes(x, "event")
               /\ run'[r].passes = exec[x].passes /\ run'[r].fails = exec[x].fails
               /\ run'[r].status = IF exec[x].fails = 0 THEN "passed" ELSE "failed"
               /\ UNCHANGED <<member, mail>> /\ Quiet /\ Fine

Emitted(x) == LET r == RunOf(x) IN
              /\ In(x, "event") /\ Leaves(x)
              /\ run'[r].status = run[r].status
              /\ run'[r].passes = run[r].passes /\ run'[r].fails = run[r].fails
              /\ run'[r].event = EventFor(run[r].status)
              /\ mail'[r].at = "over" /\ mail'[r].retries = mail[r].retries
              /\ UNCHANGED member /\ Quiet /\ Fine

Handled(x) == /\ In(x, "handler") /\ Goes(x, "retry")
              /\ Marked(RunOf(x))
              /\ UNCHANGED <<member, mail>> /\ Quiet /\ Fine

\* The message goes back for another attempt, or is acked after the last.
Returned(x) == LET r == RunOf(x) IN
               /\ In(x, "retry") /\ Leaves(x)
               /\ \/ mail'[r].at = "queued" /\ mail'[r].retries = mail[r].retries + 1
                  \/ /\ mail'[r].at = "over" /\ mail'[r].retries = mail[r].retries
                     /\ mail[r].retries >= RunRetries
               /\ UNCHANGED <<run, member>> /\ Quiet /\ Fine

\* A fault sends the attempt to a handler, or ends it.
Erred(x) == /\ Goes(x, "handler") \/ Goes(x, "retry")
            /\ Marked(RunOf(x))
            /\ stray' = stray + 1
            /\ UNCHANGED <<member, mail>> /\ Quiet

Dropped(x) == LET r == RunOf(x) IN
              /\ Leaves(x)
              /\ mail'[r].at \in {"queued", "cut"} /\ mail'[r].retries = mail[r].retries
              /\ stray' = stray + 1
              /\ UNCHANGED <<run, member>> /\ Quiet

\* The clients' steps.
Created(r) == /\ run[r].status = "new" /\ run'[r].status = "pending"
              /\ mail'[r].at \in {"queued", mail[r].at}
              /\ mail'[r].retries = mail[r].retries
              /\ \A a \in Assays : /\ member'[r][a] \in {"none", "pending"}
                                   /\ baseline[a] = Gone => member'[r][a] = "none"
              /\ UNCHANGED exec /\ Quiet /\ Fine

Patched(a) == /\ baseline[a] # Gone
              /\ baseline' \in [Assays -> Outputs \union {Unset, Gone}]
              /\ boots' \in [Assays -> Nat]
              /\ baseline'[a] # Gone /\ boots'[a] = 0
              /\ \A b \in Assays \ {a} : baseline'[b] = baseline[b] /\ boots'[b] = boots[b]
              /\ UNCHANGED <<run, member, mail, exec>> /\ Fine

Deleted(a) == /\ baseline' \in [Assays -> Outputs \union {Unset, Gone}]
              /\ baseline'[a] = Gone /\ baseline[a] # Gone
              /\ \A b \in Assays \ {a} : baseline'[b] = baseline[b]
              /\ member' \in [Runs -> [Assays -> MemberRow]]
              /\ \A r \in Runs : /\ \A b \in Assays \ {a} : member'[r][b] = member[r][b]
                                 /\ IF member[r][a] = "none" THEN member'[r][a] = "none"
                                                             ELSE member'[r][a] = "gone"
              /\ UNCHANGED <<run, mail, exec, boots>> /\ Fine

\* The steps of an attempt that is under way.
Works(x) == \/ Started(x) \/ Loaded(x) \/ NotFound(x) \/ Tripped(x) \/ Finished(x)
            \/ Emitted(x) \/ Handled(x) \/ Returned(x) \/ Erred(x) \/ Dropped(x)
            \/ \E a \in Assays : Picked(x, a)
            \/ \E v \in Verdict : Ruled(x, v)

ExecMoves(x) == /\ OnlySlot(x)
                /\ \/ \E r \in Runs : Took(x, r) /\ OnlyRun(r)
                   \/ RunOf(x) \in Runs /\ OnlyRun(RunOf(x)) /\ Works(x)

CorpusMoves == \/ \E r \in Runs : Created(r) /\ OnlyRun(r)
               \/ \E a \in Assays : Patched(a) \/ Deleted(a)
               \/ \E x \in Executors : ExecMoves(x)
-----------------------------------------------------------------------------
LEMMA CorpusTypeFields ==
    ASSUME CorpusTypeOK
    PROVE  /\ baseline \in [Assays -> Outputs \union {Unset, Gone}]
           /\ run \in [Runs -> RunRow]
           /\ member \in [Runs -> [Assays -> MemberRow]]
           /\ mail \in [Runs -> Mail]
           /\ exec \in [Executors -> ExecSlot]
           /\ boots \in [Assays -> Nat]
           /\ stray \in Nat
BY DEF CorpusTypeOK

LEMMA SlotFields ==
    ASSUME CorpusTypeOK, NEW x \in Executors
    PROVE  /\ exec[x].pc \in ExecSteps \union {"idle"}
           /\ exec[x].run \in Runs \union {NoRun}
           /\ exec[x].left \in SUBSET Assays
           /\ exec[x].now \in Assays \union {NoAssay}
           /\ exec[x].base \in Outputs \union {Unset}
           /\ exec[x].passes \in Nat
           /\ exec[x].fails \in Nat
BY DEF CorpusTypeOK, ExecSlot

LEMMA RowFields ==
    ASSUME CorpusTypeOK, NEW r \in Runs
    PROVE  /\ run[r].status \in {"new", "pending", "processing"} \union Ended
           /\ run[r].passes \in Nat /\ run[r].fails \in Nat
           /\ mail[r].at \in {"none", "queued", "held", "cut", "over"}
           /\ mail[r].retries \in 0 .. RunRetries /\ mail[r].retries \in Nat
           /\ \A a \in Assays : member[r][a] \in MemberRow
BY CorpusBoundAssumption DEF CorpusTypeOK, RunRow, Mail

\* Steps that move only the place of an attempt.
LEMMA GoesBy ==
    ASSUME CorpusTypeOK, NEW x \in Executors, Busy(x), NEW p \in ExecSteps, To(x, p)
    PROVE  OnlySlot(x) /\ Goes(x, p)
<1>0. exec \in [Executors -> ExecSlot]
  BY CorpusTypeFields
<1> DEFINE e == [exec[x] EXCEPT !.pc = p]
<1>1. /\ e \in ExecSlot /\ e.pc = p /\ e.run = exec[x].run /\ e.left = exec[x].left
      /\ e.now = exec[x].now /\ e.base = exec[x].base
      /\ e.passes = exec[x].passes /\ e.fails = exec[x].fails
  BY <1>0 DEF ExecSlot
<1>2. exec' = [exec EXCEPT ![x] = e]
  BY DEF To
<1> HIDE DEF e
<1> QED
  BY <1>0, <1>1, <1>2 DEF OnlySlot, Goes, SameCounts

LEMMA IdleExecType ==
    /\ IdleExec \in ExecSlot
    /\ IdleExec.pc = "idle" /\ IdleExec.passes = 0 /\ IdleExec.fails = 0
BY DEF IdleExec, ExecSlot, MemberRow

LEMMA LeavesBy ==
    ASSUME CorpusTypeOK, NEW x \in Executors, Busy(x), exec' = [exec EXCEPT ![x] = IdleExec]
    PROVE  OnlySlot(x) /\ Leaves(x)
<1>0. exec \in [Executors -> ExecSlot]
  BY CorpusTypeFields
<1> QED
  BY <1>0, IdleExecType DEF OnlySlot, Leaves

\* Nothing of any run changes, or only a run's row, or only its message.
LEMMA RunsStay ==
    ASSUME CorpusTypeOK, NEW r \in Runs, UNCHANGED <<run, member, mail>>
    PROVE  OnlyRun(r)
BY CorpusTypeFields DEF OnlyRun

LEMMA RowChanges ==
    ASSUME CorpusTypeOK, NEW r \in Runs, NEW row \in RunRow, run' = [run EXCEPT ![r] = row],
           UNCHANGED <<member, mail>>
    PROVE  OnlyRun(r) /\ run'[r] = row
BY CorpusTypeFields DEF OnlyRun

LEMMA MailChanges ==
    ASSUME CorpusTypeOK, NEW r \in Runs, NEW m \in Mail, mail' = [mail EXCEPT ![r] = m],
           UNCHANGED <<run, member>>
    PROVE  OnlyRun(r) /\ mail'[r] = m
BY CorpusTypeFields DEF OnlyRun
-----------------------------------------------------------------------------
(* Each action takes one of these steps. *)

\* x executes a run and its slot changes so: it is one of the steps of x.
LEMMA WorkMoves ==
    ASSUME NEW x \in Executors, OnlySlot(x), RunOf(x) \in Runs, OnlyRun(RunOf(x)), Works(x)
    PROVE  CorpusMoves
BY DEF CorpusMoves, ExecMoves

LEMMA ReceiveMoves ==
    ASSUME CorpusTypeOK, NEW x \in Executors, NEW r \in Runs, Receive(x, r)
    PROVE  CorpusMoves
<1>0. exec \in [Executors -> ExecSlot] /\ mail \in [Runs -> Mail]
  BY CorpusTypeFields
<1> DEFINE e == [IdleExec EXCEPT !.run = r, !.pc = "start"]
           m == [mail[r] EXCEPT !.at = "held"]
<1>1. e \in ExecSlot /\ e.pc = "start" /\ e.run = r /\ e.passes = 0 /\ e.fails = 0
  BY IdleExecType DEF IdleExec, ExecSlot, ExecSteps
<1>2. m \in Mail /\ m.at = "held" /\ m.retries = mail[r].retries
  BY <1>0 DEF Mail
<1>3. exec' = [exec EXCEPT ![x] = e] /\ mail' = [mail EXCEPT ![r] = m]
  BY DEF Receive
<1> HIDE DEF e, m
<1>4. OnlySlot(x) /\ exec'[x] = e
  BY <1>0, <1>1, <1>3 DEF OnlySlot
<1>5. UNCHANGED <<run, member>>
  BY DEF Receive
<1>6. OnlyRun(r) /\ mail'[r] = m
  BY <1>2, <1>3, <1>5, MailChanges
<1>7. Took(x, r)
  BY <1>1, <1>2, <1>4, <1>6 DEF Receive, Took, Quiet, Fine
<1> QED
  BY <1>4, <1>6, <1>7 DEF CorpusMoves, ExecMoves

LEMMA StartMoves ==
    ASSUME CorpusTypeOK, NEW x \in Executors, RunOf(x) \in Runs, StartRun(x)
    PROVE  CorpusMoves
<1> DEFINE r == RunOf(x)
           row == [run[r] EXCEPT !.status = "processing"]
<1>1. row \in RunRow /\ row.status = "processing"
  BY CorpusTypeFields DEF RunRow
<1>2. run' = [run EXCEPT ![r] = row] /\ UNCHANGED <<member, mail>>
  BY DEF StartRun
<1> HIDE DEF row
<1>3. OnlyRun(r) /\ run'[r] = row
  BY <1>1, <1>2, RowChanges
<1>4. OnlySlot(x) /\ Goes(x, "load")
  BY GoesBy DEF StartRun, In, Busy, ExecSteps
<1>5. Started(x)
  BY <1>1, <1>2, <1>3, <1>4 DEF StartRun, Started, Quiet, Fine
<1> QED
  BY <1>3, <1>4, <1>5, WorkMoves DEF Works

LEMMA LoadMoves ==
    ASSUME CorpusTypeOK, NEW x \in Executors, RunOf(x) \in Runs, LoadRun(x)
    PROVE  CorpusMoves
<1> DEFINE r == RunOf(x)
           row == [run[r] EXCEPT !.status = "error"]
           e == [exec[x] EXCEPT !.pc = "next", !.left = Here(r)]
<1>0. exec \in [Executors -> ExecSlot] /\ Here(r) \in SUBSET Assays
  BY CorpusTypeFields DEF Here
<1>1. CASE exec' = [exec EXCEPT ![x].pc = "next", ![x].left = Here(r)] /\ UNCHANGED run
  <2>1. /\ e \in ExecSlot /\ e.pc = "next" /\ e.run = exec[x].run /\ e.left = Here(r)
        /\ e.passes = exec[x].passes /\ e.fails = exec[x].fails
    BY <1>0 DEF ExecSlot, ExecSteps
  <2>2. exec' = [exec EXCEPT ![x] = e]
    BY <1>0, <1>1
  <2> HIDE DEF e
  <2>3. OnlySlot(x) /\ exec'[x] = e
    BY <1>0, <2>1, <2>2 DEF OnlySlot
  <2>4. Loaded(x)
    BY <1>1, <2>1, <2>3 DEF LoadRun, Loaded, SameCounts, Quiet, Fine
  <2>5. OnlyRun(r)
    BY <1>1, RunsStay DEF LoadRun
  <2> QED
    BY <2>3, <2>4, <2>5, WorkMoves DEF Works
<1>2. CASE run' = [run EXCEPT ![r].status = "error"] /\ To(x, "event")
  <2>1. row \in RunRow /\ row.status = "error"
    BY CorpusTypeFields DEF RunRow, Ended
  <2>2. run' = [run EXCEPT ![r] = row] /\ UNCHANGED <<member, mail>>
    BY <1>2 DEF LoadRun
  <2> HIDE DEF row
  <2>3. OnlyRun(r) /\ run'[r] = row
    BY <2>1, <2>2, RowChanges
  <2>4. OnlySlot(x) /\ Goes(x, "event")
    BY <1>2, GoesBy DEF LoadRun, In, Busy, ExecSteps
  <2>5. NotFound(x)
    BY <2>1, <2>2, <2>3, <2>4 DEF LoadRun, NotFound, Quiet, Fine
  <2> QED
    BY <2>3, <2>4, <2>5, WorkMoves DEF Works
<1> QED
  BY <1>1, <1>2 DEF LoadRun

LEMMA NextMoves ==
    ASSUME CorpusTypeOK, NEW x \in Executors, RunOf(x) \in Runs, NextAssay(x)
    PROVE  CorpusMoves
<1>0. /\ exec \in [Executors -> ExecSlot] /\ exec[x].left \in SUBSET Assays
      /\ baseline \in [Assays -> Outputs \union {Unset, Gone}]
      /\ member[RunOf(x)] \in [Assays -> MemberRow]
  BY CorpusTypeFields, SlotFields
<1>1. PICK a \in exec[x].left :
          \/ baseline[a] = Gone /\ To(x, "handler")
          \/ /\ baseline[a] # Gone
             /\ exec' = [exec EXCEPT ![x].pc = "judge", ![x].left = @ \ {a}, ![x].now = a,
                                     ![x].base = baseline[a], ![x].was = member[RunOf(x)][a]]
  BY DEF NextAssay
<1>2. OnlyRun(RunOf(x))
  BY RunsStay DEF NextAssay
<1>3. CASE baseline[a] = Gone
  <2>1. To(x, "handler")
    BY <1>1, <1>3
  <2>2. OnlySlot(x) /\ Goes(x, "handler")
    BY <2>1, GoesBy DEF NextAssay, In, Busy, ExecSteps
  <2>3. Tripped(x)
    BY <1>1, <1>3, <2>2 DEF NextAssay, Tripped, Looping, Open, Quiet, Fine
  <2> QED
    BY <1>2, <2>2, <2>3, WorkMoves DEF Works
<1>4. CASE baseline[a] # Gone
  <2> DEFINE b == baseline[a]
             m == member[RunOf(x)][a]
             e == [exec[x] EXCEPT !.pc = "judge", !.left = exec[x].left \ {a}, !.now = a,
                                  !.base = b, !.was = m]
  <2>1. /\ a \in Assays /\ b \in Outputs \union {Unset} /\ m \in MemberRow
        /\ exec[x].left \ {a} \in SUBSET Assays
    BY <1>0, <1>4
  <2>2. exec' = [exec EXCEPT ![x] = e]
    BY <1>0, <1>1, <1>4 DEF ExecSlot
  <2> HIDE DEF b, m
  <2>3. /\ e \in ExecSlot /\ e.pc = "judge" /\ e.run = exec[x].run
        /\ e.left = exec[x].left \ {a} /\ e.now = a /\ e.base = b
        /\ e.passes = exec[x].passes /\ e.fails = exec[x].fails
    BY <1>0, <2>1 DEF ExecSlot, ExecSteps
  <2> HIDE DEF e
  <2>4. OnlySlot(x) /\ exec'[x] = e
    BY <1>0, <2>2, <2>3 DEF OnlySlot
  <2>5. Picked(x, a)
    BY <1>4, <2>3, <2>4 DEF NextAssay, Picked, SameCounts, Quiet, Fine, b
  <2> QED
    BY <1>2, <2>1, <2>4, <2>5, WorkMoves DEF Works
<1> QED
  BY <1>3, <1>4

\* The attempt's part of a verdict.
Scored(x, v) == /\ OnlySlot(x)
                /\ exec'[x].pc = "next" /\ exec'[x].run = exec[x].run
                /\ exec'[x].left = exec[x].left
                /\ IF v = "passed"
                   THEN exec'[x].passes = exec[x].passes + 1 /\ exec'[x].fails = exec[x].fails
                   ELSE exec'[x].passes = exec[x].passes /\ exec'[x].fails = exec[x].fails + 1

LEMMA JudgedScores ==
    ASSUME CorpusTypeOK, NEW x \in Executors, NEW v, Judged(x, v)
    PROVE  Scored(x, v)
<1>0. exec \in [Executors -> ExecSlot] /\ exec[x].passes \in Nat /\ exec[x].fails \in Nat
  BY CorpusTypeFields, SlotFields
<1> DEFINE p == IF v = "passed" THEN exec[x].passes + 1 ELSE exec[x].passes
           f == IF v = "passed" THEN exec[x].fails ELSE exec[x].fails + 1
           e == [exec[x] EXCEPT !.pc = "next", !.now = NoAssay, !.base = Unset, !.was = "none",
                                !.passes = p, !.fails = f]
<1>1. p \in Nat /\ f \in Nat
  BY <1>0
<1>2. exec' = [exec EXCEPT ![x] = e]
  BY <1>0 DEF Judged, ExecSlot
<1> HIDE DEF p, f
<1>3. /\ e \in ExecSlot /\ e.pc = "next" /\ e.run = exec[x].run /\ e.left = exec[x].left
      /\ e.passes = p /\ e.fails = f
  BY <1>0, <1>1 DEF ExecSlot, ExecSteps, MemberRow
<1> HIDE DEF e
<1> QED
  BY <1>0, <1>2, <1>3 DEF Scored, OnlySlot, p, f

LEMMA MemberChanges ==
    ASSUME CorpusTypeOK, NEW r \in Runs, NEW a \in Assays, NEW v \in MemberRow,
           member' = [member EXCEPT ![r][a] = v], UNCHANGED <<run, mail>>
    PROVE  /\ OnlyRun(r) /\ member'[r][a] = v
           /\ \A b \in Assays \ {a} : member'[r][b] = member[r][b]
BY CorpusTypeFields DEF OnlyRun

LEMMA VerdictMoves ==
    ASSUME CorpusTypeOK, NEW x \in Executors, RunOf(x) \in Runs, exec[x].now \in Assays,
           In(x, "judge"), NEW v \in Verdict, CommitVerdict(x, v),
           UNCHANGED <<run, mail>>, Quiet, Fine
    PROVE  CorpusMoves
<1> DEFINE r == RunOf(x)
           a == exec[x].now
<1>0. v \in MemberRow
  BY DEF MemberRow
<1>1. CASE member[r][a] # "gone" /\ member' = [member EXCEPT ![r][a] = v] /\ Judged(x, v)
  <2>1. /\ OnlyRun(r) /\ member'[r][a] = v
        /\ \A b \in Assays \ {a} : member'[r][b] = member[r][b]
    BY <1>0, <1>1, MemberChanges
  <2>2. Scored(x, v)
    BY <1>1, JudgedScores
  <2>3. Ruled(x, v)
    BY <1>1, <2>1, <2>2 DEF Ruled, Scored
  <2> QED
    BY <2>1, <2>2, <2>3, WorkMoves DEF Works, Scored
<1>2. CASE member[r][a] = "gone" /\ Judged(x, v) /\ UNCHANGED member
  <2>1. OnlyRun(r)
    BY <1>2, RunsStay
  <2>2. Scored(x, v)
    BY <1>2, JudgedScores
  <2>3. Ruled(x, v)
    BY <1>2, <2>2 DEF Ruled, Scored
  <2> QED
    BY <2>1, <2>2, <2>3, WorkMoves DEF Works, Scored
<1>3. CASE member[r][a] = "gone" /\ To(x, "retry") /\ UNCHANGED member
  <2>1. OnlyRun(r)
    BY <1>3, RunsStay
  <2>2. OnlySlot(x) /\ Goes(x, "retry")
    BY <1>3, GoesBy DEF In, Busy, ExecSteps
  <2>3. a \in Open(x)
    BY DEF Open, Judging
  <2>4. Tripped(x)
    BY <1>3, <2>2, <2>3 DEF Tripped, Looping
  <2> QED
    BY <2>1, <2>2, <2>4, WorkMoves DEF Works
<1> QED
  BY <1>1, <1>2, <1>3 DEF CommitVerdict

LEMMA BootstrapMoves ==
    ASSUME CorpusTypeOK, NEW x \in Executors, RunOf(x) \in Runs, exec[x].now \in Assays,
           NEW o \in Outputs, Bootstrap(x, o)
    PROVE  CorpusMoves
<1> DEFINE r == RunOf(x)
           a == exec[x].now
<1>1. CASE baseline[a] # Gone
  <2>1. /\ baseline' = [baseline EXCEPT ![a] = o] /\ boots' = [boots EXCEPT ![a] = @ + 1]
        /\ member' = [member EXCEPT ![r][a] = "passed"] /\ Judged(x, "passed")
        /\ UNCHANGED <<run, mail>> /\ Fine
    BY <1>1 DEF Bootstrap, Fine
  <2>2. /\ OnlyRun(r) /\ member'[r][a] = "passed"
        /\ \A b \in Assays \ {a} : member'[r][b] = member[r][b]
    BY <2>1, MemberChanges DEF MemberRow, Verdict
  <2>3. Scored(x, "passed")
    BY <2>1, JudgedScores
  <2>4. /\ baseline'[a] = o
        /\ baseline' \in [Assays -> Outputs \union {Unset, Gone}]
        /\ boots' \in [Assays -> Nat]
        /\ boots'[a] = boots[a] + 1
        /\ \A b \in Assays \ {a} : baseline'[b] = baseline[b] /\ boots'[b] = boots[b]
    BY <2>1, CorpusTypeFields
  <2>5. In(x, "judge") /\ exec[x].base = Unset
    BY DEF Bootstrap
  <2>6. Ruled(x, "passed") /\ "passed" \in Verdict
    BY <1>1, <2>1, <2>2, <2>3, <2>4, <2>5 DEF Ruled, Scored, Verdict
  <2> QED
    BY <2>2, <2>3, <2>6, WorkMoves DEF Works, Scored
<1>2. CASE baseline[a] = Gone
  <2>1. To(x, "retry") /\ UNCHANGED <<baseline, boots, member, run, mail, stray>> /\ In(x, "judge")
    BY <1>2 DEF Bootstrap
  <2>2. OnlyRun(r)
    BY <2>1, RunsStay
  <2>3. OnlySlot(x) /\ Goes(x, "retry")
    BY <2>1, GoesBy DEF In, Busy, ExecSteps
  <2>4. a \in Open(x)
    BY <2>1 DEF Open, Judging
  <2>5. Tripped(x)
    BY <1>2, <2>1, <2>3, <2>4 DEF Tripped, Looping, Quiet, Fine
  <2> QED
    BY <2>2, <2>3, <2>5, WorkMoves DEF Works
<1> QED
  BY <1>1, <1>2

LEMMA FinalizeMoves ==
    ASSUME CorpusTypeOK, NEW x \in Executors, RunOf(x) \in Runs, FinalizeRun(x)
    PROVE  CorpusMoves
<1> DEFINE r == RunOf(x)
           p == exec[x].passes
           f == exec[x].fails
           s == IF f = 0 THEN "passed" ELSE "failed"
           c == IF f = 0 /\ p > 0 THEN 1 ELSE run[r].cert
           row == [run[r] EXCEPT !.passes = p, !.fails = f, !.status = s, !.cert = c]
<1>0. run[r] \in RunRow /\ run[r].cert \in 0 .. 1
  BY CorpusTypeFields DEF RunRow
<1>1. p \in Nat /\ f \in Nat /\ s \in Ended /\ c \in 0 .. 1
  BY <1>0, SlotFields DEF Ended
<1>2. run' = [run EXCEPT ![r] = row] /\ UNCHANGED <<member, mail>>
  BY Zenon DEF FinalizeRun
<1> HIDE DEF p, f, s, c
<1>3. row \in RunRow /\ row.passes = p /\ row.fails = f /\ row.status = s
  BY <1>0, <1>1 DEF RunRow
<1> HIDE DEF row
<1>4. OnlyRun(r) /\ run'[r] = row
  BY <1>2, <1>3, RowChanges
<1>5. OnlySlot(x) /\ Goes(x, "event")
  BY GoesBy DEF FinalizeRun, In, Busy, ExecSteps
<1>6. Finished(x)
  BY <1>2, <1>3, <1>4, <1>5 DEF FinalizeRun, Finished, Quiet, Fine, p, f, s
<1> QED
  BY <1>4, <1>5, <1>6, WorkMoves DEF Works

LEMMA EventMoves ==
    ASSUME CorpusTypeOK, NEW x \in Executors, RunOf(x) \in Runs, EmitRunEvent(x)
    PROVE  CorpusMoves
<1> DEFINE r == RunOf(x)
           row == [run[r] EXCEPT !.event = EventFor(run[r].status)]
           m == [mail[r] EXCEPT !.at = "over"]
<1>0. /\ run \in [Runs -> RunRow] /\ mail \in [Runs -> Mail]
      /\ member \in [Runs -> [Assays -> MemberRow]]
  BY CorpusTypeFields
<1>1. /\ row \in RunRow /\ row.event = EventFor(run[r].status) /\ row.status = run[r].status
      /\ row.passes = run[r].passes /\ row.fails = run[r].fails
  BY <1>0 DEF RunRow, EventFor
<1>2. m \in Mail /\ m.at = "over" /\ m.retries = mail[r].retries
  BY <1>0 DEF Mail
<1>3. /\ run' = [run EXCEPT ![r] = row] /\ mail' = [mail EXCEPT ![r] = m]
      /\ UNCHANGED member /\ exec' = [exec EXCEPT ![x] = IdleExec] /\ In(x, "event")
  BY DEF EmitRunEvent
<1> HIDE DEF row, m
<1>4. OnlyRun(r) /\ run'[r] = row /\ mail'[r] = m
  BY <1>0, <1>1, <1>2, <1>3 DEF OnlyRun
<1>5. OnlySlot(x) /\ Leaves(x)
  BY <1>3, LeavesBy DEF In, Busy
<1>6. Emitted(x)
  BY <1>1, <1>2, <1>3, <1>4, <1>5 DEF EmitRunEvent, Emitted, Quiet, Fine
<1> QED
  BY <1>4, <1>5, <1>6, WorkMoves DEF Works

\* Marking a run as ended in error.
LEMMA MarkedBy ==
    ASSUME CorpusTypeOK, NEW r \in Runs, UNCHANGED <<member, mail>>,
           \/ UNCHANGED run
           \/ run[r].status \notin Ended /\ run' = [run EXCEPT ![r].status = "error"]
           \/ /\ run[r].status \notin Ended
              /\ run' = [run EXCEPT ![r].status = "error", ![r].event = "failed"]
           \/ run' = [run EXCEPT ![r].event = EventFor(run[r].status)]
    PROVE  OnlyRun(r) /\ Marked(r)
<1>0. run \in [Runs -> RunRow]
  BY CorpusTypeFields
<1>1. CASE UNCHANGED run
  BY <1>1, RunsStay DEF Marked
<1> DEFINE Marks(row) == /\ row \in RunRow /\ row.passes = run[r].passes
                         /\ row.fails = run[r].fails
                         /\ \/ row.status = run[r].status
                            \/ run[r].status \notin Ended /\ row.status = "error"
<1>2. ASSUME NEW row, Marks(row), run' = [run EXCEPT ![r] = row]
      PROVE  OnlyRun(r) /\ Marked(r)
  BY <1>2, RowChanges DEF Marked
<1>3. CASE run[r].status \notin Ended /\ run' = [run EXCEPT ![r].status = "error"]
  <2> DEFINE row == [run[r] EXCEPT !.status = "error"]
  <2>1. Marks(row)
    BY <1>0, <1>3 DEF RunRow, Ended
  <2>2. run' = [run EXCEPT ![r] = row]
    BY <1>3
  <2> HIDE DEF row, Marks
  <2> QED
    BY <1>2, <2>1, <2>2
<1>4. CASE /\ run[r].status \notin Ended
           /\ run' = [run EXCEPT ![r].status = "error", ![r].event = "failed"]
  <2> DEFINE row == [run[r] EXCEPT !.status = "error", !.event = "failed"]
  <2>1. Marks(row)
    BY <1>0, <1>4 DEF RunRow, Ended
  <2>2. run' = [run EXCEPT ![r] = row]
    BY <1>0, <1>4 DEF RunRow
  <2> HIDE DEF row, Marks
  <2> QED
    BY <1>2, <2>1, <2>2
<1>5. CASE run' = [run EXCEPT ![r].event = EventFor(run[r].status)]
  <2> DEFINE row == [run[r] EXCEPT !.event = EventFor(run[r].status)]
  <2>1. Marks(row)
    BY <1>0, <1>5 DEF RunRow, EventFor
  <2>2. run' = [run EXCEPT ![r] = row]
    BY <1>5
  <2> HIDE DEF row, Marks
  <2> QED
    BY <1>2, <2>1, <2>2
<1> QED
  BY <1>1, <1>3, <1>4, <1>5

LEMMA HandlerMoves ==
    ASSUME CorpusTypeOK, NEW x \in Executors, RunOf(x) \in Runs, HandleError(x)
    PROVE  CorpusMoves
<1>1. OnlyRun(RunOf(x)) /\ Marked(RunOf(x))
  BY MarkedBy DEF HandleError
<1>2. OnlySlot(x) /\ Goes(x, "retry")
  BY GoesBy DEF HandleError, In, Busy, ExecSteps
<1>3. Handled(x)
  BY <1>1, <1>2 DEF HandleError, Handled, Quiet, Fine
<1> QED
  BY <1>1, <1>2, <1>3, WorkMoves DEF Works

\* An attempt that ends and leaves its message as m.
LEMMA EndMoves ==
    ASSUME CorpusTypeOK, NEW x \in Executors, RunOf(x) \in Runs, Busy(x),
           NEW m \in Mail, EndAttempt(x, m)
    PROVE  /\ OnlyRun(RunOf(x)) /\ OnlySlot(x) /\ Leaves(x)
           /\ mail'[RunOf(x)] = m
           /\ UNCHANGED <<run, member>> /\ Quiet
BY MailChanges, LeavesBy DEF EndAttempt, Quiet

LEMMA RetryMoves ==
    ASSUME CorpusTypeOK, NEW x \in Executors, RunOf(x) \in Runs, RetryRun(x) \/ GiveUpRun(x)
    PROVE  CorpusMoves
<1> DEFINE r == RunOf(x)
           n == mail[r].retries
<1>0. n \in 0 .. RunRetries /\ RunRetries \in Nat /\ Busy(x) /\ In(x, "retry")
  BY RowFields, CorpusBoundAssumption DEF RetryRun, GiveUpRun, In, Busy
<1>1. CASE RetryRun(x)
  <2> DEFINE m == [at |-> "queued", retries |-> n + 1]
  <2>1. m \in Mail /\ m.at = "queued" /\ m.retries = n + 1
    BY <1>0, <1>1 DEF RetryRun, Mail
  <2>2. EndAttempt(x, m) /\ Fine
    BY <1>1 DEF RetryRun, Fine
  <2> HIDE DEF m
  <2>3. /\ OnlyRun(r) /\ OnlySlot(x) /\ Leaves(x) /\ mail'[r] = m
        /\ UNCHANGED <<run, member>> /\ Quiet
    BY <1>0, <2>1, <2>2, EndMoves
  <2>4. Returned(x)
    BY <1>0, <2>1, <2>2, <2>3 DEF Returned
  <2> QED
    BY <2>3, <2>4, WorkMoves DEF Works
<1>2. CASE GiveUpRun(x)
  <2> DEFINE m == [at |-> "over", retries |-> n]
  <2>1. m \in Mail /\ m.at = "over" /\ m.retries = n /\ n >= RunRetries
    BY <1>0, <1>2 DEF GiveUpRun, Mail
  <2>2. EndAttempt(x, m) /\ Fine
    BY <1>2 DEF GiveUpRun, Fine
  <2> HIDE DEF m
  <2>3. /\ OnlyRun(r) /\ OnlySlot(x) /\ Leaves(x) /\ mail'[r] = m
        /\ UNCHANGED <<run, member>> /\ Quiet
    BY <1>0, <2>1, <2>2, EndMoves
  <2>4. Returned(x)
    BY <1>0, <2>1, <2>2, <2>3 DEF Returned
  <2> QED
    BY <2>3, <2>4, WorkMoves DEF Works
<1> QED
  BY <1>1, <1>2

LEMMA ErrorMoves ==
    ASSUME CorpusTypeOK, NEW x \in Executors, RunOf(x) \in Runs,
           RunRaises(x) \/ CorpusCommitFails(x) \/ HandlerFailsToo(x)
    PROVE  CorpusMoves
<1>1. OnlyRun(RunOf(x)) /\ Marked(RunOf(x))
  BY MarkedBy DEF RunRaises, CorpusCommitFails, HandlerFailsToo
<1>2. Busy(x) /\ (To(x, "handler") \/ To(x, "retry"))
  BY DEF RunRaises, CorpusCommitFails, HandlerFailsToo, In, Busy
<1>3. OnlySlot(x) /\ (Goes(x, "handler") \/ Goes(x, "retry"))
  BY <1>2, GoesBy DEF ExecSteps
<1>4. UNCHANGED <<member, mail>> /\ Quiet /\ stray' = stray + 1
  BY DEF RunRaises, CorpusCommitFails, HandlerFailsToo, Quiet, Stray
<1>5. Erred(x)
  BY <1>1, <1>3, <1>4 DEF Erred
<1> QED
  BY <1>1, <1>3, <1>5, WorkMoves DEF Works

LEMMA DeathMoves ==
    ASSUME CorpusTypeOK, NEW x \in Executors, RunOf(x) \in Runs,
           ExecutorDies(x) \/ ExecutorIsCut(x)
    PROVE  CorpusMoves
<1> DEFINE r == RunOf(x)
           m(at) == [mail[r] EXCEPT !.at = at]
<1>0. Busy(x) /\ stray' = stray + 1
  BY DEF ExecutorDies, ExecutorIsCut, In, Busy, Stray
<1>1. PICK at \in {"queued", "cut"} : EndAttempt(x, m(at))
  BY DEF ExecutorDies, ExecutorIsCut
<1>2. m(at) \in Mail /\ m(at).at = at /\ m(at).retries = mail[r].retries
  BY CorpusTypeFields DEF Mail
<1> HIDE DEF m
<1>3. /\ OnlyRun(r) /\ OnlySlot(x) /\ Leaves(x) /\ mail'[r] = m(at)
      /\ UNCHANGED <<run, member>> /\ Quiet
  BY <1>0, <1>1, <1>2, EndMoves
<1>4. Dropped(x)
  BY <1>0, <1>2, <1>3 DEF Dropped
<1> QED
  BY <1>3, <1>4, WorkMoves DEF Works

LEMMA CreateMoves ==
    ASSUME CorpusTypeOK, NEW r \in Runs, CreateRun(r)
    PROVE  Created(r) /\ OnlyRun(r)
<1> DEFINE row == [run[r] EXCEPT !.status = "pending"]
           m == [mail[r] EXCEPT !.at = "queued"]
           rows == [a \in Assays |-> IF a \in Members[r] THEN "pending" ELSE "none"]
<1>0. /\ run \in [Runs -> RunRow] /\ mail \in [Runs -> Mail]
      /\ member \in [Runs -> [Assays -> MemberRow]]
  BY CorpusTypeFields
<1>1. row \in RunRow /\ row.status = "pending"
  BY <1>0 DEF RunRow
<1>2. m \in Mail /\ m.at = "queued" /\ m.retries = mail[r].retries
  BY <1>0 DEF Mail
<1>3. /\ rows \in [Assays -> MemberRow]
      /\ \A a \in Assays : /\ rows[a] \in {"none", "pending"}
                           /\ baseline[a] = Gone => rows[a] = "none"
  BY DEF CreateRun, MemberRow
<1>4. /\ run' = [run EXCEPT ![r] = row] /\ member' = [member EXCEPT ![r] = rows]
      /\ mail' = mail \/ mail' = [mail EXCEPT ![r] = m]
      /\ run[r].status = "new"
      /\ UNCHANGED <<baseline, exec, boots, edits, stray>>
  BY DEF CreateRun
<1> HIDE DEF row, m, rows
<1>5. OnlyRun(r) /\ run'[r] = row /\ member'[r] = rows /\ mail'[r] \in {mail[r], m}
  BY <1>0, <1>1, <1>2, <1>3, <1>4 DEF OnlyRun
<1>6. Created(r)
  BY <1>1, <1>2, <1>3, <1>4, <1>5 DEF Created, Quiet, Fine
<1> QED
  BY <1>5, <1>6

LEMMA PatchMoves ==
    ASSUME CorpusTypeOK, NEW a \in Assays, NEW b \in Outputs \union {Unset},
           PatchExpectations(a, b)
    PROVE  Patched(a)
<1>1. b # Gone
  BY CorpusSetsAssumption
<1> QED
  BY <1>1, CorpusTypeFields DEF PatchExpectations, Patched, Fine

LEMMA DeleteMoves ==
    ASSUME CorpusTypeOK, NEW a \in Assays, DeleteAssay(a)
    PROVE  Deleted(a)
<1>0. member \in [Runs -> [Assays -> MemberRow]]
  BY CorpusTypeFields
<1>1. /\ baseline' \in [Assays -> Outputs \union {Unset, Gone}]
      /\ baseline'[a] = Gone /\ baseline[a] # Gone
      /\ \A b \in Assays \ {a} : baseline'[b] = baseline[b]
      /\ UNCHANGED <<run, mail, exec, boots>> /\ Fine
  BY CorpusTypeFields DEF DeleteAssay, Fine
<1>2. member' = [r \in Runs |-> [member[r] EXCEPT ![a] =
                     IF member[r][a] = "none" THEN member[r][a] ELSE "gone"]]
  BY <1>0 DEF DeleteAssay
<1>3. ASSUME NEW r \in Runs
      PROVE  /\ member'[r] \in [Assays -> MemberRow]
             /\ \A b \in Assays \ {a} : member'[r][b] = member[r][b]
             /\ IF member[r][a] = "none" THEN member'[r][a] = "none" ELSE member'[r][a] = "gone"
  BY <1>0, <1>2 DEF MemberRow
<1>4. member' \in [Runs -> [Assays -> MemberRow]]
  <2>1. member' = [r \in Runs |-> member'[r]]
    BY <1>2
  <2> QED
    BY <1>3, <2>1
<1> QED
  BY <1>1, <1>3, <1>4 DEF Deleted

\* A slot at work executes a run; one that judges has an assay.
Placed == \A x \in Executors : /\ Busy(x) => RunOf(x) \in Runs
                               /\ In(x, "judge") => exec[x].now \in Assays

LEMMA CorpusStepMoves ==
    ASSUME CorpusTypeOK, Placed, CorpusNext
    PROVE  CorpusMoves
<1>1. CASE ClientStep
  <2>1. ASSUME NEW r \in Runs, CreateRun(r) PROVE CorpusMoves
    BY <2>1, CreateMoves DEF CorpusMoves
  <2>2. ASSUME NEW a \in Assays, NEW b \in Outputs \union {Unset}, PatchExpectations(a, b)
        PROVE  CorpusMoves
    BY <2>2, PatchMoves DEF CorpusMoves
  <2>3. ASSUME NEW a \in Assays, DeleteAssay(a) PROVE CorpusMoves
    BY <2>3, DeleteMoves DEF CorpusMoves
  <2> QED
    BY <1>1, <2>1, <2>2, <2>3 DEF ClientStep
<1>2. ASSUME NEW x \in Executors, ExecStep(x) PROVE CorpusMoves
  <2>1. ASSUME NEW r \in Runs, Receive(x, r) PROVE CorpusMoves
    BY <2>1, ReceiveMoves
  <2>2. ASSUME ~(\E r \in Runs : Receive(x, r)) PROVE RunOf(x) \in Runs
    BY <1>2, <2>2 DEF ExecStep, Placed, Busy, In, StartRun, LoadRun, NextAssay, JudgeError,
       JudgeDiff, Bootstrap, FinalizeRun, EmitRunEvent, HandleError, RetryRun, GiveUpRun
  <2>3. CASE RunOf(x) \in Runs /\ (StartRun(x) \/ LoadRun(x) \/ NextAssay(x))
    BY <2>3, StartMoves, LoadMoves, NextMoves
  <2>4. CASE RunOf(x) \in Runs /\ JudgeError(x)
    <3>1. /\ In(x, "judge") /\ exec[x].now \in Assays /\ CommitVerdict(x, "error")
          /\ UNCHANGED <<run, mail>> /\ Quiet /\ Fine
      BY <2>4 DEF JudgeError, Placed, Quiet, Fine
    <3>2. "error" \in Verdict
      BY DEF Verdict
    <3> QED
      BY <2>4, <3>1, <3>2, VerdictMoves
  <2>5. ASSUME NEW o \in Outputs, RunOf(x) \in Runs, JudgeDiff(x, o) PROVE CorpusMoves
    <3> DEFINE v == IF exec[x].base = o THEN "passed" ELSE "failed"
    <3>1. /\ In(x, "judge") /\ exec[x].now \in Assays /\ CommitVerdict(x, v)
          /\ UNCHANGED <<run, mail>> /\ Quiet /\ Fine
      BY <2>5 DEF JudgeDiff, Placed, Quiet, Fine
    <3>2. v \in Verdict
      BY DEF Verdict
    <3> HIDE DEF v
    <3> QED
      BY <2>5, <3>1, <3>2, VerdictMoves
  <2>6. ASSUME NEW o \in Outputs, RunOf(x) \in Runs, Bootstrap(x, o) PROVE CorpusMoves
    <3>1. exec[x].now \in Assays
      BY <2>6 DEF Bootstrap, Placed
    <3> QED
      BY <2>6, <3>1, BootstrapMoves
  <2>7. CASE RunOf(x) \in Runs /\ (FinalizeRun(x) \/ EmitRunEvent(x))
    BY <2>7, FinalizeMoves, EventMoves
  <2>8. CASE RunOf(x) \in Runs /\ (HandleError(x) \/ RetryRun(x) \/ GiveUpRun(x))
    BY <2>8, HandlerMoves, RetryMoves
  <2> QED
    BY <1>2, <2>1, <2>2, <2>3, <2>4, <2>5, <2>6, <2>7, <2>8 DEF ExecStep
<1>3. ASSUME NEW x \in Executors, ExecFault(x) PROVE CorpusMoves
  <2>1. RunOf(x) \in Runs
    BY <1>3 DEF Placed, Busy, In, ExecFault, RunRaises, CorpusCommitFails, HandlerFailsToo,
       ExecutorDies, ExecutorIsCut
  <2> QED
    BY <1>3, <2>1, ErrorMoves, DeathMoves DEF ExecFault
<1> QED
  BY <1>1, <1>2, <1>3 DEF CorpusNext
-----------------------------------------------------------------------------
(* Types. *)

LEMMA CorpusCounters ==
    ASSUME CorpusTypeOK, CorpusNext
    PROVE  edits' \in 0 .. MaxEdits /\ stray' \in 0 .. MaxRunFaults
<1>0. /\ edits \in 0 .. MaxEdits /\ stray \in 0 .. MaxRunFaults
      /\ MaxEdits \in Nat /\ MaxRunFaults \in Nat
  BY CorpusBoundAssumption DEF CorpusTypeOK
<1>1. edits' = edits \/ (edits < MaxEdits /\ edits' = edits + 1)
  BY DEF CorpusNext, ClientStep, ExecStep, ExecFault, CreateRun, PatchExpectations, DeleteAssay,
     Receive, StartRun, LoadRun, NextAssay, JudgeError, JudgeDiff, Bootstrap, FinalizeRun,
     EmitRunEvent, HandleError, RetryRun, GiveUpRun, EndAttempt, RunRaises, CorpusCommitFails,
     HandlerFailsToo, ExecutorDies, ExecutorIsCut
<1>2. stray' = stray \/ (stray < MaxRunFaults /\ stray' = stray + 1)
  BY DEF CorpusNext, ClientStep, ExecStep, ExecFault, CreateRun, PatchExpectations, DeleteAssay,
     Receive, StartRun, LoadRun, NextAssay, JudgeError, JudgeDiff, Bootstrap, FinalizeRun,
     EmitRunEvent, HandleError, RetryRun, GiveUpRun, RunRaises, CorpusCommitFails,
     HandlerFailsToo, ExecutorDies, ExecutorIsCut, Stray
<1> QED
  BY <1>0, <1>1, <1>2

LEMMA RuledBaseline ==
    ASSUME CorpusTypeOK, NEW x, NEW v, Ruled(x, v)
    PROVE  baseline' \in [Assays -> Outputs \union {Unset, Gone}] /\ boots' \in [Assays -> Nat]
BY CorpusTypeFields DEF Ruled, Quiet

LEMMA CorpusTypesKept ==
    ASSUME CorpusTypeOK, CorpusNext, CorpusMoves
    PROVE  CorpusTypeOK'
<1> DEFINE Goal == /\ baseline' \in [Assays -> Outputs \union {Unset, Gone}]
                   /\ run' \in [Runs -> RunRow]
                   /\ member' \in [Runs -> [Assays -> MemberRow]]
                   /\ mail' \in [Runs -> Mail]
                   /\ exec' \in [Executors -> ExecSlot]
                   /\ boots' \in [Assays -> Nat]
<1>1. ASSUME NEW r \in Runs, Created(r), OnlyRun(r) PROVE Goal
  BY <1>1, CorpusTypeFields DEF Created, OnlyRun, Quiet
<1>2. ASSUME NEW a \in Assays, Patched(a) \/ Deleted(a) PROVE Goal
  BY <1>2, CorpusTypeFields DEF Patched, Deleted
<1>3. ASSUME NEW x \in Executors, ExecMoves(x) PROVE Goal
  <2>1. exec' \in [Executors -> ExecSlot]
    BY <1>3 DEF ExecMoves, OnlySlot
  <2>2. /\ run' \in [Runs -> RunRow] /\ mail' \in [Runs -> Mail]
        /\ member' \in [Runs -> [Assays -> MemberRow]]
    BY <1>3 DEF ExecMoves, OnlyRun
  <2>3. Quiet \/ \E v \in Verdict : Ruled(x, v)
    BY <1>3 DEF ExecMoves, Took, Works, Started, Loaded, NotFound, Tripped, Finished, Emitted,
       Handled, Returned, Erred, Dropped, Picked
  <2>4. baseline' \in [Assays -> Outputs \union {Unset, Gone}] /\ boots' \in [Assays -> Nat]
    BY <2>3, RuledBaseline, CorpusTypeFields DEF Quiet
  <2> QED
    BY <2>1, <2>2, <2>4
<1>4. Goal
  BY <1>1, <1>2, <1>3 DEF CorpusMoves
<1> QED
  BY <1>4, CorpusCounters DEF CorpusTypeOK
-----------------------------------------------------------------------------
(* Custody of messages. *)

LEMMA WorkFields ==
    ASSUME CorpusTypeOK, NEW x \in Executors, RunOf(x) \in Runs, Works(x)
    PROVE  /\ Busy(x)
           /\ \/ exec'[x].pc = "idle"
              \/ exec'[x].run = exec[x].run /\ UNCHANGED mail /\ exec'[x].pc # "idle"
           /\ run'[RunOf(x)].status = "new" => run[RunOf(x)].status = "new"
<1> DEFINE r == RunOf(x)
<1>1. CASE \/ Started(x) \/ Loaded(x) \/ NotFound(x) \/ \E a \in Assays : Picked(x, a)
           \/ \E v \in Verdict : Ruled(x, v)
  BY <1>1 DEF Started, Loaded, NotFound, Picked, Ruled, Goes, Busy, In
<1>2. CASE Tripped(x) \/ Finished(x) \/ Handled(x) \/ Erred(x)
  BY <1>2 DEF Tripped, Finished, Handled, Erred, Goes, Marked, Looping, Busy, In
<1>3. CASE Emitted(x) \/ Returned(x) \/ Dropped(x)
  BY <1>3 DEF Emitted, Returned, Dropped, Leaves
<1> QED
  BY <1>1, <1>2, <1>3 DEF Works

LEMMA CustodyKept ==
    ASSUME CorpusTypeOK, Custody, CorpusMoves
    PROVE  Custody'
<1>1. ASSUME NEW r \in Runs, Created(r), OnlyRun(r) PROVE Custody'
  <2>1. \A x \in Executors : Busy(x) => RunOf(x) # r
    BY <1>1 DEF Created, Custody
  <2>2. exec' = exec
    BY <1>1 DEF Created
  <2> QED
    BY <1>1, <2>1, <2>2 DEF Created, OnlyRun, Custody, Busy, In, RunOf
<1>2. ASSUME NEW a \in Assays, Patched(a) \/ Deleted(a) PROVE Custody'
  BY <1>2 DEF Patched, Deleted, Custody, Busy, In, RunOf
<1>3. ASSUME NEW x \in Executors, NEW r \in Runs, OnlySlot(x), Took(x, r), OnlyRun(r)
      PROVE  Custody'
  <2>1. \A y \in Executors : Busy(y) => RunOf(y) # r
    BY <1>3 DEF Took, Custody
  <2>2. run[r].status # "new"
    BY <1>3 DEF Took, Custody
  <2>3. \A y \in Executors \ {x} : exec'[y] = exec[y]
    BY <1>3 DEF OnlySlot
  <2>4. \A q \in Runs \ {r} : mail'[q] = mail[q] /\ run'[q] = run[q]
    BY <1>3 DEF OnlyRun
  <2> QED
    BY <1>3, <2>1, <2>2, <2>3, <2>4 DEF Took, Custody, Busy, In, RunOf
<1>4. ASSUME NEW x \in Executors, OnlySlot(x), RunOf(x) \in Runs, OnlyRun(RunOf(x)), Works(x)
      PROVE  Custody'
  <2> DEFINE r == RunOf(x)
  <2>0. /\ Busy(x)
        /\ \/ exec'[x].pc = "idle"
           \/ exec'[x].run = exec[x].run /\ UNCHANGED mail /\ exec'[x].pc # "idle"
        /\ run'[r].status = "new" => run[r].status = "new"
    BY <1>4, WorkFields
  <2>1. \A y \in Executors \ {x} : Busy(y) => RunOf(y) # r
    BY <2>0 DEF Custody
  <2>2. run[r].status # "new"
    BY <1>4, <2>0 DEF Custody
  <2>3. \A y \in Executors \ {x} : exec'[y] = exec[y]
    BY <1>4 DEF OnlySlot
  <2>4. \A q \in Runs \ {r} : mail'[q] = mail[q] /\ run'[q] = run[q]
    BY <1>4 DEF OnlyRun
  <2> QED
    BY <1>4, <2>0, <2>1, <2>2, <2>3, <2>4 DEF Custody, Busy, In, RunOf
<1> QED
  BY <1>1, <1>2, <1>3, <1>4 DEF CorpusMoves, ExecMoves

\* A run that somebody executes changes through nobody else.
LEMMA Alone ==
    ASSUME CorpusTypeOK, Custody, NEW x \in Executors, NEW y \in Executors, x # y,
           Busy(y), OnlySlot(x),
           \/ \E r \in Runs : Took(x, r) /\ OnlyRun(r)
           \/ RunOf(x) \in Runs /\ OnlyRun(RunOf(x)) /\ Works(x)
    PROVE  /\ exec'[y] = exec[y]
           /\ run'[RunOf(y)] = run[RunOf(y)]
           /\ member'[RunOf(y)] = member[RunOf(y)]
           /\ mail'[RunOf(y)] = mail[RunOf(y)]
<1>1. exec'[y] = exec[y] /\ RunOf(y) \in Runs
  BY DEF OnlySlot, Custody
<1>2. ASSUME NEW r \in Runs, Took(x, r), OnlyRun(r) PROVE r # RunOf(y)
  BY <1>2 DEF Took, Custody
<1>3. ASSUME Works(x), RunOf(x) \in Runs PROVE RunOf(x) # RunOf(y)
  BY <1>3, WorkFields DEF Custody
<1> QED
  BY <1>1, <1>2, <1>3 DEF OnlyRun
-----------------------------------------------------------------------------
(* The rows of deleted assays. *)

LEMMA CascadeKept ==
    ASSUME CorpusTypeOK, Cascade, CorpusMoves,
           \A x \in Executors : Busy(x) => Place(x)
    PROVE  Cascade'
<1>1. ASSUME NEW r \in Runs, Created(r), OnlyRun(r) PROVE Cascade'
  BY <1>1 DEF Created, OnlyRun, Cascade, Quiet
<1>2. ASSUME NEW a \in Assays, Patched(a) PROVE Cascade'
  BY <1>2 DEF Patched, Cascade
<1>3. ASSUME NEW a \in Assays, Deleted(a) PROVE Cascade'
  BY <1>3 DEF Deleted, Cascade
<1>4. ASSUME UNCHANGED <<member, baseline>> PROVE Cascade'
  BY <1>4 DEF Cascade
<1>5. ASSUME NEW x \in Executors, RunOf(x) \in Runs, OnlyRun(RunOf(x)),
             NEW v \in Verdict, Ruled(x, v)
      PROVE  Cascade'
  <2> DEFINE r == RunOf(x)
             a == exec[x].now
  <2>1. a \in Assays /\ member[r][a] # "none"
    BY <1>5 DEF Ruled, Place, Counts, Looping, Busy, In, Open, Judging
  <2>2. /\ \A q \in Runs \ {r} : member'[q] = member[q]
        /\ \A b \in Assays \ {a} : member'[r][b] = member[r][b]
    BY <1>5 DEF OnlyRun, Ruled
  <2>3. \A b \in Assays : baseline'[b] = Gone <=> baseline[b] = Gone
    BY <1>5, <2>1, CorpusSetsAssumption DEF Ruled, Quiet
  <2>4. IF baseline'[a] = Gone THEN member'[r][a] \in {"none", "gone"}
                               ELSE member'[r][a] # "gone"
    BY <1>5, <2>1, <2>3 DEF Ruled, Quiet, Cascade, Verdict
  <2> QED
    BY <1>5, <2>2, <2>3, <2>4 DEF Cascade
<1>6. ASSUME NEW x \in Executors, NEW r \in Runs, Took(x, r) PROVE Cascade'
  BY <1>4, <1>6 DEF Took, Quiet
<1>7. ASSUME NEW x \in Executors, RunOf(x) \in Runs, OnlyRun(RunOf(x)), Works(x) PROVE Cascade'
  <2>1. UNCHANGED <<member, baseline>> \/ \E v \in Verdict : Ruled(x, v)
    BY <1>7 DEF Works, Started, Loaded, NotFound, Tripped, Finished, Emitted,
       Handled, Returned, Erred, Dropped, Picked, Quiet
  <2> QED
    BY <1>4, <1>5, <1>7, <2>1
<1> QED
  BY <1>1, <1>2, <1>3, <1>6, <1>7 DEF CorpusMoves, ExecMoves
-----------------------------------------------------------------------------
(* Where attempts are, and what they have counted. *)

LEMMA Smaller ==
    ASSUME NEW S, NEW T, S \subseteq T, T \subseteq Assays
    PROVE  /\ IsFiniteSet(S) /\ IsFiniteSet(T)
           /\ Cardinality(S) \in Nat /\ Cardinality(T) \in Nat
           /\ Cardinality(S) <= Cardinality(T)
           /\ \A a \in T \ S : Cardinality(S) + 1 <= Cardinality(T)
<1>1. IsFiniteSet(T) /\ IsFiniteSet(S)
  BY CorpusSetsAssumption, FS_Subset
<1>2. Cardinality(S) \in Nat /\ Cardinality(T) \in Nat /\ Cardinality(S) <= Cardinality(T)
  BY <1>1, FS_Subset, FS_CardinalityType
<1>3. ASSUME NEW a \in T \ S PROVE Cardinality(S) + 1 <= Cardinality(T)
  <2>1. Cardinality(S \union {a}) = Cardinality(S) + 1
    BY <1>1, FS_AddElement
  <2>2. Cardinality(S \union {a}) <= Cardinality(T)
    BY <1>1, FS_Subset
  <2> QED
    BY <2>1, <2>2
<1> QED
  BY <1>1, <1>2, <1>3

LEMMA OneMore ==
    ASSUME NEW S, NEW T, NEW a \in Assays, T \subseteq S \union {a}, S \subseteq Assays
    PROVE  /\ Cardinality(S) \in Nat /\ Cardinality(T) \in Nat
           /\ Cardinality(T) <= Cardinality(S) + 1
<1>1. IsFiniteSet(S) /\ IsFiniteSet(S \union {a}) /\ T \subseteq Assays
  BY Smaller, FS_AddElement
<1>2. Cardinality(S \union {a}) <= Cardinality(S) + 1 /\ Cardinality(S) \in Nat
  <2>1. CASE a \in S
    <3>1. S \union {a} = S
      BY <2>1
    <3>2. Cardinality(S) \in Nat
      BY <1>1, FS_CardinalityType
    <3> QED
      BY <3>1, <3>2
  <2>2. CASE a \notin S
    BY <1>1, <2>2, FS_AddElement, FS_CardinalityType
  <2> QED
    BY <2>1, <2>2
<1>3. Cardinality(T) \in Nat /\ Cardinality(T) <= Cardinality(S \union {a})
      /\ Cardinality(S \union {a}) \in Nat
  BY <1>1, Smaller, FS_Subset, FS_CardinalityType
<1> QED
  BY <1>2, <1>3

LEMMA PlaceStays ==
    ASSUME NEW y, Place(y), exec'[y] = exec[y],
           run'[RunOf(y)] = run[RunOf(y)], member'[RunOf(y)] = member[RunOf(y)]
    PROVE  Place(y)'
<1>1. Open(y)' = Open(y) /\ Here(RunOf(y))' = Here(RunOf(y)) /\ RunOf(y)' = RunOf(y)
  BY DEF Open, Judging, In, RunOf, Here
<1>2. Closed(y)' = Closed(y)
  BY <1>1 DEF Closed
<1> QED
  BY <1>1, <1>2 DEF Place, Counts, Looping, In, RunOf

\* A deletion takes rows away, and what is left was counted.
LEMMA PlaceSurvives ==
    ASSUME CorpusTypeOK, NEW a \in Assays, Deleted(a), NEW y \in Executors, RunOf(y) \in Runs,
           Place(y)
    PROVE  Place(y)'
<1> DEFINE r == RunOf(y)
<1>0. exec' = exec /\ run' = run
  BY DEF Deleted
<1>1. /\ \A b \in Assays \ {a} : member'[r][b] = member[r][b]
      /\ IF member[r][a] = "none" THEN member'[r][a] = "none" ELSE member'[r][a] = "gone"
  BY DEF Deleted
<1>2. ASSUME Looping(y) PROVE Counts(y)'
  <2>1. Counts(y)
    BY <1>2 DEF Place
  <2>2. Open(y)' = Open(y) /\ Open(y) \subseteq Assays /\ RunOf(y)' = r
    BY <1>0, SlotFields DEF Open, Judging, In, RunOf
  <2>3. Closed(y)' \subseteq Closed(y) /\ Closed(y) \subseteq Assays
    BY <1>1, <2>2 DEF Closed, Here
  <2>4. \A b \in Closed(y)' : b # a
    BY <1>1, <2>2 DEF Closed, Here
  <2>5. Cardinality(Closed(y)') <= exec[y].passes + exec[y].fails
    <3>1. /\ Cardinality(Closed(y)') <= Cardinality(Closed(y))
          /\ Cardinality(Closed(y)') \in Nat /\ Cardinality(Closed(y)) \in Nat
      BY <2>3, Smaller
    <3>2. Cardinality(Closed(y)) <= exec[y].passes + exec[y].fails
      BY <2>1 DEF Counts
    <3> QED
      BY <3>1, <3>2, SlotFields
  <2>6. \A b \in Open(y) : member'[r][b] # "none"
    BY <1>1, <2>1, <2>2 DEF Counts
  <2>7. exec[y].fails = 0 => \A b \in Closed(y)' : member'[r][b] = "passed"
    BY <1>1, <2>1, <2>3, <2>4 DEF Counts
  <2>8. exec[y].fails > 0 => \E b \in Assays \ Open(y) : member'[r][b] \in Bad
    BY <1>1, <2>1 DEF Counts, Bad
  <2> QED
    BY <1>0, <2>2, <2>5, <2>6, <2>7, <2>8 DEF Counts
<1> QED
  BY <1>0, <1>2 DEF Place, Looping, In, RunOf

\* A fresh attempt has counted nothing.
LEMMA LoadCounts ==
    ASSUME CorpusTypeOK, NEW x \in Executors, RunOf(x) \in Runs, Place(x), Loaded(x)
    PROVE  Place(x)'
<1>1. /\ exec'[x].passes = 0 /\ exec'[x].fails = 0 /\ exec'[x].pc = "next"
      /\ exec'[x].left = Here(RunOf(x)) /\ RunOf(x)' = RunOf(x)
      /\ run' = run /\ member' = member
  BY DEF Loaded, Place, SameCounts, RunOf
<1>2. Open(x)' = Here(RunOf(x)) /\ Here(RunOf(x))' = Here(RunOf(x))
  BY <1>1 DEF Open, Judging, In, Here
<1>3. Closed(x)' = {}
  BY <1>1, <1>2 DEF Closed
<1>4. Counts(x)'
  BY <1>1, <1>2, <1>3, FS_EmptySet DEF Counts, Here
<1>5. run[RunOf(x)].status = "processing"
  BY DEF Loaded, Place
<1> QED
  BY <1>1, <1>4, <1>5 DEF Place, In, Looping

LEMMA PickCounts ==
    ASSUME CorpusTypeOK, NEW x \in Executors, RunOf(x) \in Runs, Place(x),
           NEW a \in Assays, Picked(x, a)
    PROVE  Place(x)'
<1>1. /\ SameCounts(x) /\ exec'[x].pc = "judge" /\ exec'[x].now = a
      /\ exec'[x].left = exec[x].left \ {a} /\ a \in exec[x].left /\ RunOf(x)' = RunOf(x)
      /\ run' = run /\ member' = member /\ exec[x].pc = "next"
  BY DEF Picked, RunOf, In
<1>2. Open(x)' = Open(x)
  BY <1>1 DEF Open, Judging, In
<1>3. Closed(x)' = Closed(x)
  BY <1>1, <1>2 DEF Closed, Here
<1>4. Counts(x) /\ run[RunOf(x)].status = "processing"
  BY <1>1 DEF Place, In, Looping
<1>5. Counts(x)'
  BY <1>1, <1>2, <1>3, <1>4 DEF Counts, SameCounts
<1> QED
  BY <1>1, <1>4, <1>5 DEF Place, In, Looping

LEMMA RuleCounts ==
    ASSUME CorpusTypeOK, NEW x \in Executors, RunOf(x) \in Runs, Place(x), Cascade,
           NEW v \in Verdict, Ruled(x, v)
    PROVE  Place(x)'
<1> DEFINE r == RunOf(x)
           a == exec[x].now
           p == exec[x].passes
           f == exec[x].fails
<1>0. p \in Nat /\ f \in Nat /\ exec[x].left \subseteq Assays
  BY SlotFields
<1>1. /\ exec'[x].pc = "next" /\ exec'[x].left = exec[x].left /\ RunOf(x)' = r
      /\ run' = run /\ exec[x].pc = "judge"
      /\ IF v = "passed" THEN exec'[x].passes = p + 1 /\ exec'[x].fails = f
                         ELSE exec'[x].passes = p /\ exec'[x].fails = f + 1
      /\ \A b \in Assays \ {a} : member'[r][b] = member[r][b]
      /\ \/ member[r][a] = "gone" /\ member'[r][a] = "gone"
         \/ member'[r][a] = v
  BY DEF Ruled, RunOf, In
<1>2. Counts(x) /\ run[r].status = "processing" /\ a \in Assays \ exec[x].left
  BY <1>1 DEF Place, In, Looping
<1>3. Open(x) = exec[x].left \union {a} /\ Open(x)' = exec[x].left
  BY <1>1, <1>2 DEF Open, Judging, In
<1>4. /\ Closed(x)' \subseteq Closed(x) \union {a} /\ Closed(x) \subseteq Assays
      /\ a \in Closed(x)' => member'[r][a] = v
  BY <1>1, <1>2, <1>3 DEF Closed, Here
<1>5. Cardinality(Closed(x)') <= exec'[x].passes + exec'[x].fails
  <2>1. /\ Cardinality(Closed(x)') <= Cardinality(Closed(x)) + 1
        /\ Cardinality(Closed(x)') \in Nat /\ Cardinality(Closed(x)) \in Nat
    BY <1>2, <1>4, OneMore
  <2>2. Cardinality(Closed(x)) <= p + f
    BY <1>2 DEF Counts
  <2>3. exec'[x].passes + exec'[x].fails = p + f + 1
    BY <1>0, <1>1
  <2> QED
    BY <1>0, <2>1, <2>2, <2>3
<1>6. \A b \in exec[x].left : member'[r][b] # "none"
  BY <1>0, <1>1, <1>2, <1>3 DEF Counts
<1>7. exec'[x].fails = 0 => \A b \in Closed(x)' : member'[r][b] = "passed"
  <2>1. exec'[x].fails = 0 => v = "passed" /\ f = 0
    BY <1>0, <1>1
  <2>2. \A b \in Closed(x)' : b # a => b \in Closed(x) /\ member'[r][b] = member[r][b]
    BY <1>1, <1>4
  <2> QED
    BY <1>2, <1>4, <2>1, <2>2 DEF Counts
<1>8. exec'[x].fails > 0 => \E b \in Assays \ exec[x].left : member'[r][b] \in Bad
  <2>1. CASE v = "passed"
    <3>1. exec'[x].fails = f
      BY <1>1, <2>1
    <3>2. f > 0 => \E b \in Assays \ Open(x) : member[r][b] \in Bad
      BY <1>2 DEF Counts
    <3> QED
      BY <1>1, <1>3, <3>1, <3>2
  <2>2. CASE v # "passed"
    BY <1>1, <1>2, <2>2 DEF Bad, Verdict
  <2> QED
    BY <2>1, <2>2
<1>9. Counts(x)'
  BY <1>1, <1>3, <1>5, <1>6, <1>7, <1>8 DEF Counts
<1> QED
  BY <1>1, <1>2, <1>9 DEF Place, In, Looping

LEMMA PlaceKept ==
    ASSUME CorpusTypeOK, Custody, Cascade, CorpusMoves,
           \A x \in Executors : Busy(x) => Place(x)
    PROVE  \A x \in Executors : Busy(x)' => Place(x)'
<1> SUFFICES ASSUME NEW y \in Executors, Busy(y)' PROVE Place(y)'
  OBVIOUS
<1>1. ASSUME NEW r \in Runs, Created(r), OnlyRun(r) PROVE Place(y)'
  <2>1. exec' = exec
    BY <1>1 DEF Created
  <2>2. Busy(y) /\ RunOf(y) # r /\ RunOf(y) \in Runs
    BY <1>1, <2>1 DEF Created, Custody, Busy, In
  <2> QED
    BY <1>1, <2>1, <2>2, PlaceStays DEF OnlyRun
<1>2. ASSUME NEW a \in Assays, Patched(a) PROVE Place(y)'
  <2>1. exec' = exec /\ run' = run /\ member' = member
    BY <1>2 DEF Patched
  <2>2. Place(y)
    BY <2>1 DEF Busy, In
  <2> QED
    BY <2>1, <2>2, PlaceStays
<1>3. ASSUME NEW a \in Assays, Deleted(a) PROVE Place(y)'
  <2>1. exec' = exec
    BY <1>3 DEF Deleted
  <2>2. Place(y) /\ RunOf(y) \in Runs
    BY <2>1 DEF Busy, In, Custody
  <2> QED
    BY <1>3, <2>2, PlaceSurvives
<1>4. ASSUME NEW x \in Executors, x # y, ExecMoves(x) PROVE Place(y)'
  <2>1. OnlySlot(x)
    BY <1>4 DEF ExecMoves
  <2>2. Busy(y) /\ Place(y)
    BY <1>4, <2>1 DEF OnlySlot, Busy, In
  <2> QED
    BY <1>4, <2>1, <2>2, Alone, PlaceStays DEF ExecMoves
<1>5. ASSUME NEW r \in Runs, Took(y, r) PROVE Place(y)'
  BY <1>5 DEF Took, Place, In, Looping
<1>6. ASSUME RunOf(y) \in Runs, OnlyRun(RunOf(y)), Works(y) PROVE Place(y)'
  <2>0. Place(y)
    BY <1>6, WorkFields
  <2>1. CASE Started(y)
    BY <2>0, <2>1 DEF Started, Goes, SameCounts, Place, In, Looping, RunOf
  <2>2. CASE Loaded(y)
    BY <1>6, <2>0, <2>2, LoadCounts
  <2>3. CASE NotFound(y)
    BY <2>3 DEF NotFound, Goes, Place, In, Looping, RunOf, Ended
  <2>4. CASE Tripped(y) \/ Handled(y) \/ Erred(y)
    BY <2>4 DEF Tripped, Handled, Erred, Goes, Place, In, Looping
  <2>5. CASE Finished(y)
    BY <2>5 DEF Finished, Goes, Place, In, Looping, RunOf, Ended
  <2>6. CASE Emitted(y) \/ Returned(y) \/ Dropped(y)
    BY <2>6 DEF Emitted, Returned, Dropped, Leaves, Busy, In
  <2>7. ASSUME NEW a \in Assays, Picked(y, a) PROVE Place(y)'
    BY <1>6, <2>0, <2>7, PickCounts
  <2>8. ASSUME NEW v \in Verdict, Ruled(y, v) PROVE Place(y)'
    BY <1>6, <2>0, <2>8, RuleCounts
  <2> QED
    BY <1>6, <2>1, <2>2, <2>3, <2>4, <2>5, <2>6, <2>7, <2>8 DEF Works
<1> QED
  BY <1>1, <1>2, <1>3, <1>4, <1>5, <1>6 DEF CorpusMoves, ExecMoves
-----------------------------------------------------------------------------
(* Verdicts. *)

LEMMA TruthStays ==
    ASSUME NEW r, Truthful(r), member'[r] = member[r],
           run'[r].status = run[r].status, run'[r].passes = run[r].passes,
           run'[r].fails = run[r].fails
    PROVE  Truthful(r)'
BY DEF Truthful, Here

LEMMA TruthSurvives ==
    ASSUME CorpusTypeOK, NEW a \in Assays, Deleted(a), NEW r \in Runs, Truthful(r)
    PROVE  Truthful(r)'
<1>1. /\ run' = run
      /\ \A b \in Assays \ {a} : member'[r][b] = member[r][b]
      /\ IF member[r][a] = "none" THEN member'[r][a] = "none" ELSE member'[r][a] = "gone"
  BY DEF Deleted
<1>2. Here(r)' \subseteq Here(r) /\ Here(r) \subseteq Assays /\ a \notin Here(r)'
  BY <1>1 DEF Here
<1>3. /\ Cardinality(Here(r)') <= Cardinality(Here(r))
      /\ Cardinality(Here(r)') \in Nat /\ Cardinality(Here(r)) \in Nat
  BY <1>2, Smaller
<1>4. run[r].status \in {"passed", "failed"} =>
          run[r].passes + run[r].fails >= Cardinality(Here(r)')
  <2>1. run[r].status \in {"passed", "failed"} =>
            run[r].passes + run[r].fails >= Cardinality(Here(r))
    BY DEF Truthful
  <2> QED
    BY <1>3, <2>1, RowFields
<1>5. run[r].status = "passed" => \A b \in Here(r)' : member'[r][b] = "passed"
  BY <1>1, <1>2 DEF Truthful
<1>6. run[r].status = "failed" => \E b \in Assays : member'[r][b] \in Bad
  BY <1>1 DEF Truthful, Bad
<1> QED
  BY <1>1, <1>4, <1>5, <1>6 DEF Truthful

\* The counts of the loop are the verdict.
LEMMA TruthFinished ==
    ASSUME CorpusTypeOK, NEW x \in Executors, NEW r \in Runs, r = RunOf(x), Place(x),
           Finished(x)
    PROVE  Truthful(r)'
<1> DEFINE p == exec[x].passes
           f == exec[x].fails
<1>0. p \in Nat /\ f \in Nat
  BY SlotFields
<1>1. /\ run'[r].passes = p /\ run'[r].fails = f
      /\ run'[r].status = IF f = 0 THEN "passed" ELSE "failed"
      /\ member' = member /\ exec[x].pc = "next" /\ exec[x].left = {} /\ RunOf(x)' = r
  BY DEF Finished, Goes, RunOf, In
<1>2. Open(x) = {}
  BY <1>1 DEF Open, Judging, In
<1>3. Closed(x) = Here(r)
  BY <1>2 DEF Closed
<1>4. /\ f = 0 => \A a \in Here(r) : member[r][a] = "passed"
      /\ f > 0 => \E a \in Assays : member[r][a] \in Bad
      /\ Cardinality(Here(r)) <= p + f
  BY <1>1, <1>2, <1>3 DEF Place, In, Looping, Counts
<1>5. Cardinality(Here(r)) \in Nat
  BY Smaller DEF Here
<1>6. Here(r)' = Here(r)
  BY <1>1 DEF Here
<1>7. CASE f = 0
  BY <1>0, <1>1, <1>4, <1>5, <1>6, <1>7 DEF Truthful
<1>8. CASE f > 0
  BY <1>0, <1>1, <1>4, <1>5, <1>6, <1>8 DEF Truthful
<1> QED
  BY <1>0, <1>7, <1>8

LEMMA TruthKept ==
    ASSUME CorpusTypeOK, Custody, CorpusMoves, NEW r \in Runs, Truthful(r),
           \A x \in Executors : Busy(x) => Place(x)
    PROVE  Truthful(r)'
<1>1. ASSUME NEW q \in Runs, Created(q), OnlyRun(q) PROVE Truthful(r)'
  <2>1. CASE q = r
    BY <1>1, <2>1 DEF Created, Truthful
  <2>2. CASE q # r
    BY <1>1, <2>2, TruthStays DEF OnlyRun
  <2> QED
    BY <2>1, <2>2
<1>2. ASSUME NEW a \in Assays, Patched(a) PROVE Truthful(r)'
  BY <1>2, TruthStays DEF Patched
<1>3. ASSUME NEW a \in Assays, Deleted(a) PROVE Truthful(r)'
  BY <1>3, TruthSurvives
<1>4. ASSUME NEW x \in Executors, NEW q \in Runs, Took(x, q) PROVE Truthful(r)'
  BY <1>4, TruthStays DEF Took
<1>5. ASSUME NEW x \in Executors, RunOf(x) \in Runs, OnlyRun(RunOf(x)), Works(x)
      PROVE  Truthful(r)'
  <2>1. CASE RunOf(x) # r
    BY <1>5, <2>1, TruthStays DEF OnlyRun
  <2>2. CASE RunOf(x) = r
    <3>0. Place(x)
      BY <1>5, WorkFields
    <3>1. CASE Started(x) \/ NotFound(x)
      BY <2>2, <3>1 DEF Started, NotFound, Truthful
    <3>2. CASE \/ Loaded(x) \/ Tripped(x) \/ Returned(x) \/ Dropped(x)
               \/ \E a \in Assays : Picked(x, a)
      BY <3>2, TruthStays DEF Loaded, Tripped, Returned, Dropped, Picked
    <3>3. CASE Finished(x)
      BY <1>5, <2>2, <3>0, <3>3, TruthFinished
    <3>4. CASE Emitted(x)
      BY <2>2, <3>4, TruthStays DEF Emitted
    <3>5. CASE Handled(x) \/ Erred(x)
      <4>1. Marked(r) /\ member' = member
        BY <2>2, <3>5 DEF Handled, Erred
      <4>2. CASE run'[r].status = run[r].status
        BY <4>1, <4>2, TruthStays DEF Marked
      <4>3. CASE run'[r].status = "error"
        BY <4>3 DEF Truthful
      <4> QED
        BY <4>1, <4>2, <4>3 DEF Marked
    <3>6. ASSUME NEW v \in Verdict, Ruled(x, v) PROVE Truthful(r)'
      <4>1. run' = run /\ run[r].status = "processing"
        BY <2>2, <3>0, <3>6 DEF Ruled, Place, Looping
      <4> QED
        BY <4>1 DEF Truthful
    <3> QED
      BY <1>5, <3>1, <3>2, <3>3, <3>4, <3>5, <3>6 DEF Works
  <2> QED
    BY <2>1, <2>2
<1> QED
  BY <1>1, <1>2, <1>3, <1>4, <1>5 DEF CorpusMoves, ExecMoves
-----------------------------------------------------------------------------
(* Baselines. *)

LEMMA Fewer ==
    ASSUME NEW S, NEW T, S \subseteq T, T \subseteq Executors
    PROVE  /\ Cardinality(S) \in Nat /\ Cardinality(T) \in Nat
           /\ Cardinality(S) <= Cardinality(T)
           /\ \A x \in T \ S : Cardinality(S) + 1 <= Cardinality(T)
<1>1. IsFiniteSet(T) /\ IsFiniteSet(S)
  BY CorpusSetsAssumption, FS_Subset
<1>2. Cardinality(S) \in Nat /\ Cardinality(T) \in Nat /\ Cardinality(S) <= Cardinality(T)
  BY <1>1, FS_Subset, FS_CardinalityType
<1>3. ASSUME NEW x \in T \ S PROVE Cardinality(S) + 1 <= Cardinality(T)
  <2>1. Cardinality(S \union {x}) = Cardinality(S) + 1
    BY <1>1, FS_AddElement
  <2>2. Cardinality(S \union {x}) <= Cardinality(T)
    BY <1>1, FS_Subset
  <2> QED
    BY <2>1, <2>2
<1> QED
  BY <1>2, <1>3

LEMMA SettlingStays ==
    ASSUME CorpusTypeOK, NEW a \in Assays, Settling(a),
           baseline'[a] = Unset => baseline[a] = Unset,
           boots'[a] = boots[a], Booting(a)' \subseteq Booting(a)
    PROVE  Settling(a)'
<1>1. boots[a] \in Nat /\ Booting(a) \subseteq Executors
  BY CorpusTypeFields DEF Booting
<1>2. /\ Cardinality(Booting(a)') \in Nat /\ Cardinality(Booting(a)) \in Nat
      /\ Cardinality(Booting(a)') <= Cardinality(Booting(a))
      /\ Cardinality(Executors) \in Nat
  BY <1>1, Fewer
<1>3. boots[a] + Cardinality(Booting(a)) <= Cardinality(Executors)
  BY DEF Settling
<1>4. boots[a] + Cardinality(Booting(a)') <= Cardinality(Executors)
  BY <1>1, <1>2, <1>3
<1> QED
  BY <1>4 DEF Settling

\* No slot but x comes to judge, and x does so only from a baseline that is NULL.
LEMMA BootingMoves ==
    ASSUME NEW x \in Executors, OnlySlot(x), NEW a,
           exec'[x].pc = "judge" /\ exec'[x].now = a /\ exec'[x].base = Unset => x \in Booting(a)
    PROVE  Booting(a)' \subseteq Booting(a)
BY DEF OnlySlot, Booting, In

LEMMA SettlingKept ==
    ASSUME CorpusTypeOK, CorpusMoves, NEW a \in Assays, Settling(a)
    PROVE  Settling(a)'
<1>1. ASSUME NEW r \in Runs, Created(r) PROVE Settling(a)'
  BY <1>1, SettlingStays DEF Created, Quiet, Booting, In
<1>2. ASSUME NEW b \in Assays, Patched(b) PROVE Settling(a)'
  <2>1. Booting(a)' = Booting(a) /\ Booting(a) \subseteq Executors
    BY <1>2 DEF Patched, Booting, In
  <2>2. CASE b = a
    <3>1. boots'[a] = 0
      BY <1>2, <2>2 DEF Patched
    <3>2. /\ Cardinality(Booting(a)) <= Cardinality(Executors)
          /\ Cardinality(Booting(a)) \in Nat /\ Cardinality(Executors) \in Nat
      BY <2>1, Fewer
    <3> QED
      BY <2>1, <3>1, <3>2 DEF Settling
  <2>3. CASE b # a
    BY <1>2, <2>1, <2>3, SettlingStays DEF Patched
  <2> QED
    BY <2>2, <2>3
<1>3. ASSUME NEW b \in Assays, Deleted(b) PROVE Settling(a)'
  BY <1>3, SettlingStays, CorpusSetsAssumption DEF Deleted, Booting, In
<1>4. ASSUME NEW x \in Executors, OnlySlot(x), Quiet, exec'[x].pc # "judge" PROVE Settling(a)'
  BY <1>4, BootingMoves, SettlingStays DEF Quiet
<1>5. ASSUME NEW x \in Executors, OnlySlot(x), NEW b \in Assays, Picked(x, b) PROVE Settling(a)'
  <2>0. baseline' = baseline /\ boots' = boots
    BY <1>5 DEF Picked, Quiet
  <2>1. CASE b = a /\ baseline[a] = Unset
    <3>1. boots'[a] = 0
      BY <2>0, <2>1 DEF Settling
    <3>2. Booting(a)' \subseteq Executors
      BY DEF Booting
    <3>3. /\ Cardinality(Booting(a)') <= Cardinality(Executors)
          /\ Cardinality(Booting(a)') \in Nat /\ Cardinality(Executors) \in Nat
      BY <3>2, Fewer
    <3> QED
      BY <3>1, <3>3 DEF Settling
  <2>2. CASE b # a \/ baseline[a] # Unset
    BY <1>5, <2>0, <2>2, BootingMoves, SettlingStays DEF Picked
  <2> QED
    BY <2>1, <2>2
<1>6. ASSUME NEW x \in Executors, OnlySlot(x), NEW v \in Verdict, Ruled(x, v) PROVE Settling(a)'
  <2> DEFINE b == exec[x].now
  <2>0. Booting(a)' \subseteq Booting(a) /\ exec'[x].pc = "next"
    BY <1>6, BootingMoves DEF Ruled
  <2>1. CASE Quiet
    BY <2>0, <2>1, SettlingStays DEF Quiet
  <2>2. CASE ~Quiet
    <3>1. /\ exec[x].base = Unset /\ baseline'[b] \in Outputs /\ boots'[b] = boots[b] + 1
          /\ \A c \in Assays \ {b} : baseline'[c] = baseline[c] /\ boots'[c] = boots[c]
          /\ exec[x].pc = "judge"
      BY <1>6, <2>2 DEF Ruled, In
    <3>2. CASE b = a
      <4>1. x \in Booting(a) /\ x \notin Booting(a)' /\ Booting(a) \subseteq Executors
        BY <2>0, <3>1, <3>2 DEF Booting, In
      <4>2. /\ Cardinality(Booting(a)') + 1 <= Cardinality(Booting(a))
            /\ Cardinality(Booting(a)') \in Nat /\ Cardinality(Booting(a)) \in Nat
            /\ Cardinality(Executors) \in Nat
        BY <2>0, <4>1, Fewer
      <4>3. boots[a] + Cardinality(Booting(a)) <= Cardinality(Executors) /\ boots[a] \in Nat
        BY CorpusTypeFields DEF Settling
      <4>4. boots'[a] + Cardinality(Booting(a)') <= Cardinality(Executors)
        BY <3>1, <3>2, <4>2, <4>3
      <4>5. baseline'[a] # Unset
        BY <3>1, <3>2, CorpusSetsAssumption
      <4> QED
        BY <4>4, <4>5 DEF Settling
    <3>3. CASE b # a
      BY <2>0, <3>1, <3>3, SettlingStays
    <3> QED
      BY <3>2, <3>3
  <2> QED
    BY <2>1, <2>2
<1>7. ASSUME NEW x \in Executors, NEW r \in Runs, OnlySlot(x), Took(x, r) PROVE Settling(a)'
  BY <1>4, <1>7 DEF Took
<1>8. ASSUME NEW x \in Executors, OnlySlot(x), Works(x) PROVE Settling(a)'
  <2>1. \/ Quiet /\ exec'[x].pc # "judge"
        \/ \E b \in Assays : Picked(x, b)
        \/ \E v \in Verdict : Ruled(x, v)
    BY <1>8 DEF Works, Started, Loaded, NotFound, Tripped, Finished, Emitted, Handled, Returned,
       Erred, Dropped, Goes, Leaves
  <2> QED
    BY <1>4, <1>5, <1>6, <1>8, <2>1
<1> QED
  BY <1>1, <1>2, <1>3, <1>7, <1>8 DEF CorpusMoves, ExecMoves
-----------------------------------------------------------------------------
(* Retries and what they were for. *)

\* What a run has been charged with, and what can pay for it.
LEMMA Numbers ==
    ASSUME CorpusTypeOK
    PROVE  /\ stray \in Nat /\ RunRetries \in Nat
           /\ Lost \subseteq Assays /\ Cardinality(Lost) \in Nat
           /\ \A r \in Runs : mail[r].retries \in Nat
           /\ \A x \in Executors : /\ Cardinality(Lost \ Open(x)) \in Nat
                                   /\ Cardinality(Lost \ Open(x)) <= Cardinality(Lost)
<1>1. Lost \subseteq Assays
  BY DEF Lost
<1>2. Cardinality(Lost) \in Nat
  BY <1>1, Smaller
<1>3. ASSUME NEW x \in Executors
      PROVE  /\ Cardinality(Lost \ Open(x)) \in Nat
             /\ Cardinality(Lost \ Open(x)) <= Cardinality(Lost)
  BY <1>1, Smaller
<1> QED
  BY <1>1, <1>2, <1>3, CorpusTypeFields, RowFields, CorpusBoundAssumption

\* No step brings an assay back or takes a fault away.
LEMMA FundsGrow ==
    ASSUME CorpusTypeOK, CorpusTypeOK', CorpusMoves
    PROVE  /\ Lost \subseteq Lost'
           /\ stray <= stray'
           /\ stray + Cardinality(Lost) <= stray' + Cardinality(Lost')
<1>0. stray \in Nat /\ stray' \in Nat
  BY CorpusTypeFields, CorpusBoundAssumption DEF CorpusTypeOK
<1>1. ASSUME NEW r \in Runs, Created(r) PROVE Lost \subseteq Lost' /\ stray <= stray'
  BY <1>0, <1>1 DEF Created, Quiet, Fine, Lost
<1>2. ASSUME NEW a \in Assays, Patched(a) \/ Deleted(a)
      PROVE  Lost \subseteq Lost' /\ stray <= stray'
  BY <1>0, <1>2 DEF Patched, Deleted, Fine, Lost
<1>3. ASSUME NEW x \in Executors, NEW v \in Verdict, Ruled(x, v)
      PROVE  Lost \subseteq Lost' /\ stray <= stray'
  BY <1>0, <1>3 DEF Ruled, Quiet, Fine, Lost
<1>4. ASSUME NEW x \in Executors, ExecMoves(x), ~(\E v \in Verdict : Ruled(x, v))
      PROVE  Lost \subseteq Lost' /\ stray <= stray'
  <2>1. baseline' = baseline /\ stray' \in {stray, stray + 1}
    BY <1>4 DEF ExecMoves, Took, Works, Started, Loaded, NotFound, Tripped, Finished, Emitted,
       Handled, Returned, Erred, Dropped, Picked, Quiet, Fine
  <2> QED
    BY <1>0, <2>1 DEF Lost
<1>5. Lost \subseteq Lost' /\ stray <= stray'
  BY <1>1, <1>2, <1>3, <1>4 DEF CorpusMoves
<1>6. /\ Cardinality(Lost) <= Cardinality(Lost')
      /\ Cardinality(Lost) \in Nat /\ Cardinality(Lost') \in Nat
  <2>1. Lost' \subseteq Assays
    BY DEF Lost
  <2> QED
    BY <1>5, <2>1, Smaller
<1> QED
  BY <1>0, <1>5, <1>6

\* A slot's part of Paid.
Charged(x) == LET n == mail[RunOf(x)].retries IN
              /\ Looping(x) => n <= stray + Cardinality(Lost \ Open(x))
              /\ In(x, "handler") \/ In(x, "retry") => n + 1 <= stray + Cardinality(Lost)

LEMMA ChargeStays ==
    ASSUME CorpusTypeOK, CorpusTypeOK', CorpusMoves, NEW y \in Executors, Charged(y),
           exec'[y] = exec[y], RunOf(y) \in Runs, mail'[RunOf(y)] = mail[RunOf(y)]
    PROVE  Charged(y)'
<1> DEFINE n == mail[RunOf(y)].retries
<1>1. RunOf(y)' = RunOf(y) /\ Open(y)' = Open(y)
  BY DEF RunOf, Open, Judging, In
<1>2. Lost \subseteq Lost' /\ stray <= stray' /\ Lost' \subseteq Assays
      /\ stray + Cardinality(Lost) <= stray' + Cardinality(Lost')
  BY FundsGrow DEF Lost
<1>3. /\ Cardinality(Lost \ Open(y)) <= Cardinality(Lost' \ Open(y))
      /\ Cardinality(Lost \ Open(y)) \in Nat /\ Cardinality(Lost' \ Open(y)) \in Nat
      /\ Cardinality(Lost) \in Nat /\ Cardinality(Lost') \in Nat
  BY <1>2, Smaller
<1>4. n \in Nat /\ stray \in Nat /\ stray' \in Nat
  BY Numbers, CorpusTypeFields, CorpusBoundAssumption DEF CorpusTypeOK
<1>5. Looping(y) => n <= stray' + Cardinality(Lost' \ Open(y))
  BY <1>2, <1>3, <1>4 DEF Charged
<1>6. In(y, "handler") \/ In(y, "retry") => n + 1 <= stray' + Cardinality(Lost')
  BY <1>2, <1>3, <1>4 DEF Charged
<1> QED
  BY <1>1, <1>5, <1>6 DEF Charged, Looping, In

LEMMA WorkCharges ==
    ASSUME CorpusTypeOK, Cascade, NEW x \in Executors, RunOf(x) \in Runs, Works(x), Charged(x),
           Place(x), mail[RunOf(x)].retries <= stray + Cardinality(Lost)
    PROVE  Charged(x)'
<1> DEFINE r == RunOf(x)
           n == mail[r].retries
<1>0. /\ stray \in Nat /\ Lost \subseteq Assays /\ Cardinality(Lost) \in Nat /\ n \in Nat
      /\ Cardinality(Lost \ Open(x)) \in Nat
      /\ Cardinality(Lost \ Open(x)) <= Cardinality(Lost)
  BY Numbers
<1>1. CASE Started(x) \/ NotFound(x) \/ Finished(x) \/ Emitted(x) \/ Returned(x) \/ Dropped(x)
  BY <1>1 DEF Started, NotFound, Finished, Emitted, Returned, Dropped, Goes, Leaves, Charged,
     Looping, In
<1>2. CASE Loaded(x)
  <2>1. /\ exec'[x].pc = "next" /\ RunOf(x)' = r /\ mail' = mail /\ baseline' = baseline
        /\ stray' = stray /\ exec'[x].left = Here(r)
    BY <1>2 DEF Loaded, Quiet, Fine, RunOf
  <2>2. Open(x)' = Here(r)
    BY <2>1 DEF Open, Judging, In
  <2>3. Lost' = Lost /\ Lost \ Here(r) = Lost
    BY <2>1 DEF Lost, Cascade, Here
  <2> QED
    BY <2>1, <2>2, <2>3 DEF Charged, Looping, In
<1>3. ASSUME NEW a \in Assays, Picked(x, a) PROVE Charged(x)'
  <2>1. /\ exec'[x].pc = "judge" /\ RunOf(x)' = r /\ mail' = mail /\ baseline' = baseline
        /\ stray' = stray /\ exec[x].pc = "next" /\ a \in exec[x].left
        /\ exec'[x].left = exec[x].left \ {a} /\ exec'[x].now = a
    BY <1>3 DEF Picked, Quiet, Fine, RunOf, In
  <2>2. Open(x)' = Open(x) /\ Lost' = Lost
    BY <2>1 DEF Open, Judging, In, Lost
  <2> QED
    BY <2>1, <2>2 DEF Charged, Looping, In
<1>4. ASSUME NEW v \in Verdict, Ruled(x, v) PROVE Charged(x)'
  <2>1. /\ exec'[x].pc = "next" /\ RunOf(x)' = r /\ mail' = mail /\ stray' = stray
        /\ exec[x].pc = "judge" /\ exec'[x].left = exec[x].left
    BY <1>4 DEF Ruled, Fine, RunOf, In
  <2>2. Lost' = Lost
    <3>1. exec[x].now \in Assays
      BY <2>1 DEF Place, In
    <3> QED
      BY <1>4, <3>1, CorpusSetsAssumption DEF Ruled, Quiet, Lost
  <2>3. Open(x)' \subseteq Open(x)
    BY <2>1 DEF Open, Judging, In
  <2>4. n <= stray + Cardinality(Lost \ Open(x))
    BY <2>1 DEF Charged, Looping, In
  <2>5. /\ Cardinality(Lost \ Open(x)) <= Cardinality(Lost \ Open(x)')
        /\ Cardinality(Lost \ Open(x)') \in Nat
    <3>1. Lost \ Open(x) \subseteq Lost \ Open(x)' /\ Lost \ Open(x)' \subseteq Assays
      BY <1>0, <2>3
    <3> QED
      BY <3>1, Smaller
  <2>6. n <= stray + Cardinality(Lost \ Open(x)')
    BY <1>0, <2>4, <2>5
  <2> QED
    BY <2>1, <2>2, <2>6 DEF Charged, Looping, In
<1>5. CASE Tripped(x)
  <2>1. /\ exec'[x].pc \in {"handler", "retry"} /\ RunOf(x)' = r /\ mail' = mail
        /\ stray' = stray /\ baseline' = baseline /\ Looping(x)
    BY <1>5 DEF Tripped, Goes, Quiet, Fine, RunOf
  <2>2. PICK a \in Open(x) : baseline[a] = Gone \/ member[r][a] = "gone"
    BY <1>5 DEF Tripped
  <2>3. a \in Assays
    BY SlotFields DEF Open, Judging
  <2>4. a \in Lost \ (Lost \ Open(x))
    BY <2>2, <2>3 DEF Cascade, Lost
  <2>5. Cardinality(Lost \ Open(x)) + 1 <= Cardinality(Lost)
    BY <1>0, <2>4, Smaller
  <2>6. n <= stray + Cardinality(Lost \ Open(x))
    BY <2>1 DEF Charged
  <2>7. Lost' = Lost
    BY <2>1 DEF Lost
  <2>8. n + 1 <= stray + Cardinality(Lost)
    BY <1>0, <2>5, <2>6
  <2> QED
    BY <2>1, <2>7, <2>8 DEF Charged, Looping, In
<1>6. CASE Handled(x)
  <2>1. /\ exec'[x].pc = "retry" /\ RunOf(x)' = r /\ mail' = mail /\ stray' = stray
        /\ baseline' = baseline /\ exec[x].pc = "handler"
    BY <1>6 DEF Handled, Goes, Quiet, Fine, RunOf, In
  <2>2. Lost' = Lost
    BY <2>1 DEF Lost
  <2> QED
    BY <2>1, <2>2 DEF Charged, Looping, In
<1>7. CASE Erred(x)
  <2>1. /\ exec'[x].pc \in {"handler", "retry"} /\ RunOf(x)' = r /\ mail' = mail
        /\ stray' = stray + 1 /\ baseline' = baseline
    BY <1>7 DEF Erred, Goes, Quiet, RunOf
  <2>2. Lost' = Lost
    BY <2>1 DEF Lost
  <2>3. n + 1 <= stray + 1 + Cardinality(Lost)
    BY <1>0
  <2> QED
    BY <2>1, <2>2, <2>3 DEF Charged, Looping, In
<1> QED
  BY <1>1, <1>2, <1>3, <1>4, <1>5, <1>6, <1>7 DEF Works

LEMMA PaidKept ==
    ASSUME CorpusTypeOK, CorpusTypeOK', CorpusMoves, Custody, Cascade, Paid,
           \A x \in Executors : Busy(x) => Place(x)
    PROVE  Paid'
<1>0. /\ stray \in Nat /\ Cardinality(Lost) \in Nat
      /\ stray' \in Nat /\ Cardinality(Lost') \in Nat
      /\ stray + Cardinality(Lost) <= stray' + Cardinality(Lost')
  <2>1. Lost' \subseteq Assays
    BY DEF Lost
  <2>2. Cardinality(Lost') \in Nat
    BY <2>1, Smaller
  <2> QED
    BY <2>2, Numbers, FundsGrow, CorpusBoundAssumption DEF CorpusTypeOK
<1>1. ASSUME NEW r \in Runs PROVE mail'[r].retries <= stray' + Cardinality(Lost')
  <2>0. mail[r].retries \in Nat /\ mail[r].retries <= stray + Cardinality(Lost)
    BY Numbers DEF Paid
  <2>1. CASE mail'[r].retries = mail[r].retries
    BY <1>0, <2>0, <2>1
  <2>2. ASSUME NEW x \in Executors, RunOf(x) = r, Returned(x)
        PROVE  mail'[r].retries <= stray' + Cardinality(Lost')
    <3>1. /\ In(x, "retry")
          /\ mail'[r].retries \in {mail[r].retries, mail[r].retries + 1}
      BY <2>2 DEF Returned
    <3>2. mail[r].retries + 1 <= stray + Cardinality(Lost)
      BY <2>2, <3>1 DEF Paid
    <3> QED
      BY <1>0, <2>0, <3>1, <3>2
  <2>3. ASSUME NEW q \in Runs, Created(q), OnlyRun(q) PROVE mail'[r].retries = mail[r].retries
    BY <2>3 DEF Created, OnlyRun
  <2>4. ASSUME NEW a \in Assays, Patched(a) \/ Deleted(a) PROVE mail'[r].retries = mail[r].retries
    BY <2>4 DEF Patched, Deleted
  <2>5. ASSUME NEW x \in Executors, NEW q \in Runs, Took(x, q), OnlyRun(q)
        PROVE  mail'[r].retries = mail[r].retries
    BY <2>5 DEF Took, OnlyRun
  <2>6. ASSUME NEW x \in Executors, RunOf(x) \in Runs, OnlyRun(RunOf(x)), Works(x),
               ~(RunOf(x) = r /\ Returned(x))
        PROVE  mail'[r].retries = mail[r].retries
    <3>1. CASE RunOf(x) # r
      BY <2>6, <3>1 DEF OnlyRun
    <3>2. CASE RunOf(x) = r
      BY <2>6, <3>2 DEF Works, Started, Loaded, NotFound, Tripped, Finished, Emitted, Handled,
         Erred, Dropped, Picked, Ruled
    <3> QED
      BY <3>1, <3>2
  <2> QED
    BY <2>1, <2>2, <2>3, <2>4, <2>5, <2>6 DEF CorpusMoves, ExecMoves
<1>2. ASSUME NEW y \in Executors PROVE Charged(y)'
  <2>0. Charged(y)
    BY DEF Paid, Charged
  <2>1. CASE ~(Busy(y)')
    BY <2>1 DEF Busy, Charged, Looping, In
  <2>2. ASSUME Busy(y), exec'[y] = exec[y], mail'[RunOf(y)] = mail[RunOf(y)] PROVE Charged(y)'
    BY <2>0, <2>2, ChargeStays DEF Custody
  <2>3. ASSUME NEW r \in Runs, Created(r), OnlyRun(r), Busy(y)' PROVE Charged(y)'
    <3>1. exec' = exec
      BY <2>3 DEF Created
    <3>2. Busy(y) /\ RunOf(y) # r /\ RunOf(y) \in Runs
      BY <2>3, <3>1 DEF Created, Custody, Busy, In
    <3> QED
      BY <2>2, <2>3, <3>1, <3>2 DEF OnlyRun
  <2>4. ASSUME NEW a \in Assays, Patched(a) \/ Deleted(a), Busy(y)' PROVE Charged(y)'
    <3>1. exec' = exec /\ mail' = mail
      BY <2>4 DEF Patched, Deleted
    <3>2. Busy(y)
      BY <2>4, <3>1 DEF Busy, In
    <3> QED
      BY <2>2, <3>1, <3>2
  <2>5. ASSUME NEW x \in Executors, x # y, ExecMoves(x), Busy(y)' PROVE Charged(y)'
    <3>1. Busy(y)
      BY <2>5 DEF ExecMoves, OnlySlot, Busy, In
    <3> QED
      BY <2>2, <2>5, <3>1, Alone DEF ExecMoves
  <2>6. ASSUME NEW r \in Runs, Took(y, r) PROVE Charged(y)'
    BY <2>6 DEF Took, Charged, Looping, In
  <2>7. ASSUME RunOf(y) \in Runs, Works(y) PROVE Charged(y)'
    <3>1. Place(y) /\ mail[RunOf(y)].retries <= stray + Cardinality(Lost)
      BY <2>7, WorkFields DEF Paid
    <3> QED
      BY <2>0, <2>7, <3>1, WorkCharges
  <2> QED
    BY <2>1, <2>3, <2>4, <2>5, <2>6, <2>7 DEF CorpusMoves, ExecMoves
<1> QED
  BY <1>1, <1>2 DEF Paid, Charged

LEMMA TellingStays ==
    ASSUME CorpusTypeOK, CorpusTypeOK', CorpusMoves, NEW r \in Runs, Told(r),
           mail'[r].at = mail[r].at,
           mail[r].at = "over" => run'[r] = run[r]
    PROVE  Told(r)'
<1>1. /\ stray \in Nat /\ Cardinality(Lost) \in Nat /\ RunRetries \in Nat
      /\ stray' \in Nat
      /\ stray + Cardinality(Lost) <= stray' + Cardinality(Lost')
  BY Numbers, FundsGrow, CorpusBoundAssumption DEF CorpusTypeOK
<1>2. Cardinality(Lost') \in Nat
  <2>1. Lost' \subseteq Assays
    BY DEF Lost
  <2> QED
    BY <2>1, Smaller
<1>3. RunRetries < stray + Cardinality(Lost) => RunRetries < stray' + Cardinality(Lost')
  BY <1>1, <1>2
<1> QED
  BY <1>3 DEF Told, EventFor

LEMMA ToldKept ==
    ASSUME CorpusTypeOK, CorpusTypeOK', CorpusMoves, Custody, Paid, NEW r \in Runs, Told(r),
           \A x \in Executors : Busy(x) => Place(x)
    PROVE  Told(r)'
<1>1. ASSUME NEW q \in Runs, Created(q), OnlyRun(q) PROVE Told(r)'
  <2>1. CASE q = r
    BY <1>1, <2>1 DEF Created, Custody, Told
  <2>2. CASE q # r
    BY <1>1, <2>2, TellingStays DEF OnlyRun
  <2> QED
    BY <2>1, <2>2
<1>2. ASSUME NEW a \in Assays, Patched(a) \/ Deleted(a) PROVE Told(r)'
  BY <1>2, TellingStays DEF Patched, Deleted
<1>3. ASSUME NEW x \in Executors, NEW q \in Runs, Took(x, q), OnlyRun(q) PROVE Told(r)'
  <2>1. CASE q = r
    BY <1>3, <2>1 DEF Took, Told
  <2>2. CASE q # r
    BY <1>3, <2>2, TellingStays DEF OnlyRun
  <2> QED
    BY <2>1, <2>2
<1>4. ASSUME NEW x \in Executors, RunOf(x) \in Runs, OnlyRun(RunOf(x)), Works(x) PROVE Told(r)'
  <2>0. Busy(x) /\ Place(x) /\ mail[RunOf(x)].at = "held"
    BY <1>4, WorkFields DEF Custody
  <2>1. CASE RunOf(x) # r
    BY <1>4, <2>1, TellingStays DEF OnlyRun
  <2>2. CASE RunOf(x) = r /\ mail' = mail
    BY <2>0, <2>2 DEF Told
  <2>3. CASE RunOf(x) = r /\ Emitted(x)
    BY <2>0, <2>3 DEF Emitted, Place, Told, EventFor
  <2>4. CASE RunOf(x) = r /\ Returned(x)
    <3>1. /\ stray' = stray /\ baseline' = baseline /\ In(x, "retry")
          /\ mail'[r].at = "over" => mail[r].retries >= RunRetries
      BY <2>4 DEF Returned, Fine, Quiet
    <3>2. mail[r].retries + 1 <= stray + Cardinality(Lost)
      BY <2>4, <3>1 DEF Paid
    <3>3. Lost' = Lost
      BY <3>1 DEF Lost
    <3>4. mail'[r].at = "over" => RunRetries < stray + Cardinality(Lost)
      BY <3>1, <3>2, Numbers
    <3> QED
      BY <3>1, <3>3, <3>4 DEF Told
  <2>5. CASE RunOf(x) = r /\ Dropped(x)
    BY <2>5 DEF Dropped, Told
  <2>6. mail' = mail \/ Emitted(x) \/ Returned(x) \/ Dropped(x)
    BY <1>4 DEF Works, Started, Loaded, NotFound, Tripped, Finished, Handled, Erred, Picked, Ruled
  <2> QED
    BY <2>1, <2>2, <2>3, <2>4, <2>5, <2>6
<1> QED
  BY <1>1, <1>2, <1>3, <1>4 DEF CorpusMoves, ExecMoves
-----------------------------------------------------------------------------
(* The theorems. *)

LEMMA CorpusInvInit == CorpusInit => CorpusInv
<1> SUFFICES ASSUME CorpusInit PROVE CorpusInv
  OBVIOUS
<1>1. CorpusTypeOK
  <2>1. run \in [Runs -> RunRow]
    BY DEF CorpusInit, NewRun, RunRow
  <2>2. mail \in [Runs -> Mail]
    BY CorpusBoundAssumption DEF CorpusInit, Mail
  <2>3. exec \in [Executors -> ExecSlot]
    BY IdleExecType DEF CorpusInit
  <2>4. /\ baseline \in [Assays -> Outputs \union {Unset, Gone}]
        /\ member \in [Runs -> [Assays -> MemberRow]]
        /\ boots \in [Assays -> Nat]
        /\ edits \in 0 .. MaxEdits /\ stray \in 0 .. MaxRunFaults
    BY CorpusBoundAssumption DEF CorpusInit, MemberRow
  <2> QED
    BY <2>1, <2>2, <2>3, <2>4 DEF CorpusTypeOK
<1>2. \A x \in Executors : exec[x].pc = "idle"
  BY IdleExecType DEF CorpusInit
<1>3. Custody
  BY <1>2 DEF CorpusInit, NewRun, Custody, Busy, In
<1>4. Cascade
  BY CorpusSetsAssumption DEF CorpusInit, Cascade
<1>5. \A x \in Executors : ~Busy(x)
  BY <1>2 DEF Busy, In
<1>6. \A r \in Runs : Truthful(r) /\ Told(r)
  BY DEF CorpusInit, NewRun, Truthful, Told
<1>7. ASSUME NEW a \in Assays PROVE Settling(a)
  <2>1. Booting(a) = {} /\ Booting(a) \subseteq Executors
    BY <1>2 DEF Booting, In
  <2>2. Cardinality(Booting(a)) <= Cardinality(Executors) /\ Cardinality(Booting(a)) \in Nat
        /\ Cardinality(Executors) \in Nat
    BY <2>1, Fewer
  <2>3. boots[a] = 0
    BY DEF CorpusInit
  <2> QED
    BY <2>2, <2>3 DEF Settling
<1>8. Paid
  <2>1. \A r \in Runs : mail[r].retries = 0
    BY DEF CorpusInit
  <2>2. stray \in Nat /\ Cardinality(Lost) \in Nat
    BY <1>1, Numbers
  <2>3. \A x \in Executors : ~Looping(x) /\ ~In(x, "handler") /\ ~In(x, "retry")
    BY <1>2 DEF Looping, In
  <2> QED
    BY <2>1, <2>2, <2>3 DEF Paid
<1> QED
  BY <1>1, <1>3, <1>4, <1>5, <1>6, <1>7, <1>8 DEF CorpusInv

LEMMA CorpusInvIdle ==
    ASSUME CorpusInv, UNCHANGED corpusVars
    PROVE  CorpusInv'
<1> USE DEF corpusVars
<1>1. CorpusTypeOK' /\ Custody' /\ Cascade'
  BY DEF CorpusInv, CorpusTypeOK, Custody, Cascade, Busy, In, RunOf
<1>2. \A x \in Executors : Busy(x)' => Place(x)'
  <2>1. ASSUME NEW x \in Executors, Busy(x)' PROVE Place(x)'
    <3>1. Place(x)
      BY <2>1 DEF CorpusInv, Busy, In
    <3> QED
      BY <3>1, PlaceStays
  <2> QED
    BY <2>1
<1>3. Lost' = Lost /\ \A x \in Executors : Open(x)' = Open(x) /\ RunOf(x)' = RunOf(x)
  BY DEF Lost, Open, Judging, In, RunOf
<1>4. \A r \in Runs : Truthful(r)' /\ Told(r)'
  <2>1. ASSUME NEW r \in Runs PROVE Truthful(r)'
    BY TruthStays DEF CorpusInv
  <2>2. ASSUME NEW r \in Runs PROVE Told(r)'
    BY <1>3 DEF CorpusInv, Told
  <2> QED
    BY <2>1, <2>2
<1>5. \A a \in Assays : Settling(a)'
  BY DEF CorpusInv, Settling, Booting, In
<1>6. Paid'
  BY <1>3 DEF CorpusInv, Paid, Looping, In
<1> QED
  BY <1>1, <1>2, <1>4, <1>5, <1>6 DEF CorpusInv

LEMMA CorpusInvStep == CorpusInv /\ [CorpusNext]_corpusVars => CorpusInv'
<1> SUFFICES ASSUME CorpusInv, [CorpusNext]_corpusVars PROVE CorpusInv'
  OBVIOUS
<1>1. CASE CorpusNext
  <2>1. Placed
    BY DEF CorpusInv, Custody, Placed, Place, Busy, In
  <2>2. CorpusMoves
    BY <1>1, <2>1, CorpusStepMoves DEF CorpusInv
  <2>3. CorpusTypeOK'
    BY <1>1, <2>2, CorpusTypesKept DEF CorpusInv
  <2>4. Custody' /\ Cascade'
    BY <2>2, CustodyKept, CascadeKept DEF CorpusInv
  <2>5. \A x \in Executors : Busy(x)' => Place(x)'
    BY <2>2, PlaceKept DEF CorpusInv
  <2>6. \A r \in Runs : Truthful(r)' /\ Told(r)'
    BY <2>2, <2>3, TruthKept, ToldKept DEF CorpusInv
  <2>7. \A a \in Assays : Settling(a)'
    BY <2>2, SettlingKept DEF CorpusInv
  <2>8. Paid'
    BY <2>2, <2>3, PaidKept DEF CorpusInv
  <2> QED
    BY <2>3, <2>4, <2>5, <2>6, <2>7, <2>8 DEF CorpusInv
<1>2. CASE UNCHANGED corpusVars
  BY <1>2, CorpusInvIdle
<1> QED
  BY <1>1, <1>2

THEOREM CorpusInvariance == CorpusSpec => []CorpusInv
BY CorpusInvInit, CorpusInvStep, PTL DEF CorpusSpec

\* Assays, runs, their rows, messages and slots keep their types.
THEOREM CorpusTypeCorrect == CorpusSpec => []CorpusTypeOK
<1>1. CorpusInv => CorpusTypeOK
  BY DEF CorpusInv
<1> QED
  BY <1>1, CorpusInvariance, PTL

\* A run passes only when every assay that it still has passed, and fails only because
\* of an assay: the verdict, its counts and the rows are committed apart, and agree.
THEOREM VerdictAlwaysMatches == CorpusSpec => []VerdictMatchesMembers
<1>1. CorpusInv => VerdictMatchesMembers
  BY DEF CorpusInv, Truthful, Bad, VerdictMatchesMembers
<1> QED
  BY <1>1, CorpusInvariance, PTL

\* A run that has left the broker has ended, and the last event about it says how, as
\* long as there were no more faults and deletions than retries.
THEOREM EndedRunAlwaysAnnounced == CorpusSpec => []EndedRunIsAnnounced
<1>1. ASSUME CorpusInv, NEW r \in Runs, mail[r].at = "over",
             stray + Cardinality({a \in Assays : baseline[a] = Gone}) <= RunRetries
      PROVE  run[r].status \in Ended /\ run[r].event = EventFor(run[r].status)
  <2>1. stray + Cardinality(Lost) <= RunRetries
    BY <1>1 DEF Lost
  <2>2. stray \in Nat /\ Cardinality(Lost) \in Nat /\ RunRetries \in Nat
    BY <1>1, Numbers DEF CorpusInv
  <2>3. ~(RunRetries < stray + Cardinality(Lost))
    BY <2>1, <2>2
  <2>4. Told(r)
    BY <1>1 DEF CorpusInv
  <2> QED
    BY <1>1, <2>3, <2>4 DEF Told
<1>2. CorpusInv => EndedRunIsAnnounced
  BY <1>1 DEF EndedRunIsAnnounced
<1> QED
  BY <1>2, CorpusInvariance, PTL

\* Since a client last chose an assay's baseline, no more runs have written it than can
\* have been at work on it together.
THEOREM BaselineAlwaysSettles == CorpusSpec => []BaselineSettles
<1>1. ASSUME CorpusInv, NEW a \in Assays PROVE boots[a] <= Cardinality(Executors)
  <2>1. boots[a] + Cardinality(Booting(a)) <= Cardinality(Executors)
    BY <1>1 DEF CorpusInv, Settling
  <2>2. boots[a] \in Nat
    BY <1>1, CorpusTypeFields DEF CorpusInv
  <2>3. Cardinality(Booting(a)) \in Nat /\ Cardinality(Executors) \in Nat
    BY Fewer DEF Booting
  <2> QED
    BY <2>1, <2>2, <2>3
<1>2. CorpusInv => BaselineSettles
  BY <1>1 DEF BaselineSettles
<1> QED
  BY <1>2, CorpusInvariance, PTL
-----------------------------------------------------------------------------
(* CorpusRun implements RunContract. *)

\* What a step may do to the run r as its client sees it.
Obeys(r) == Promise(r)!Next \/ UNCHANGED Promise(r)!vars

\* A run whose row and message stay shows nothing.
LEMMA RunStutters ==
    ASSUME NEW r, run'[r] = run[r], mail'[r] = mail[r]
    PROVE  Obeys(r)
BY DEF Obeys, Promise!vars

\* If only the row and the message of q change, what is to be shown is q's part.  q is a
\* constant here: RunOf(x) may be another run after the step.
LEMMA OthersStutter ==
    ASSUME CorpusTypeOK, NEW q \in Runs, NEW row, NEW m,
           run' = [run EXCEPT ![q] = row], mail' = [mail EXCEPT ![q] = m],
           run'[q] = row /\ mail'[q] = m => Obeys(q)
    PROVE  \A r \in Runs : Obeys(r)
<1>1. /\ run'[q] = row /\ mail'[q] = m
      /\ \A r \in Runs \ {q} : run'[r] = run[r] /\ mail'[r] = mail[r]
  BY CorpusTypeFields
<1>2. ASSUME NEW r \in Runs \ {q} PROVE Obeys(r)
  BY <1>1, <1>2, RunStutters
<1> QED
  BY <1>1, <1>2

\* A row or a message that is replaced by itself.
LEMMA SamePlace ==
    ASSUME CorpusTypeOK, NEW q \in Runs
    PROVE  /\ run = [run EXCEPT ![q] = run[q]]
           /\ mail = [mail EXCEPT ![q] = mail[q]]
           /\ run[q] \in RunRow /\ mail[q] \in Mail
BY CorpusTypeFields

\* A step that changes only q's row, or only its message.
LEMMA RowObeys ==
    ASSUME CorpusTypeOK, NEW q \in Runs, NEW row, run' = [run EXCEPT ![q] = row],
           UNCHANGED mail,
           run'[q] = row /\ mail'[q] = mail[q] => Obeys(q)
    PROVE  \A r \in Runs : Obeys(r)
BY SamePlace, OthersStutter

LEMMA MailObeys ==
    ASSUME CorpusTypeOK, NEW q \in Runs, NEW m, mail' = [mail EXCEPT ![q] = m],
           UNCHANGED run,
           run'[q] = run[q] /\ mail'[q] = m => Obeys(q)
    PROVE  \A r \in Runs : Obeys(r)
BY SamePlace, OthersStutter

\* What clients do shows only in the run they create: it hides assays and baselines.
LEMMA ClientObeys ==
    ASSUME CorpusInv, ClientStep, NEW r \in Runs
    PROVE  Obeys(r)
<1>1. CASE \E q \in Runs : CreateRun(q)
  <2> PICK q \in Runs : CreateRun(q)
    BY <1>1
  <2> DEFINE row == [run[q] EXCEPT !.status = "pending"]
             m == IF mail' = mail THEN mail[q] ELSE [mail[q] EXCEPT !.at = "queued"]
  <2>0. CorpusTypeOK /\ run[q] \in RunRow /\ mail[q] \in Mail
    BY SamePlace DEF CorpusInv
  <2>1. /\ row.status = "pending" /\ row.passes = run[q].passes /\ row.fails = run[q].fails
        /\ row.cert = run[q].cert /\ row.event = run[q].event
    BY <2>0 DEF RunRow
  <2>2. m.at \in {"queued", mail[q].at} /\ m.retries = mail[q].retries
    BY <2>0 DEF Mail
  <2>3. run' = [run EXCEPT ![q] = row]
    BY DEF CreateRun
  <2>4. mail' = [mail EXCEPT ![q] = m]
    BY <2>0, SamePlace DEF CreateRun
  <2>5. run[q].status = "new"
    BY DEF CreateRun
  <2> HIDE DEF row, m
  <2>6. run'[q] = row /\ mail'[q] = m => Obeys(q)
    BY <2>1, <2>2, <2>5 DEF Obeys, Promise!Next, Promise!Create
  <2> QED
    BY <2>0, <2>3, <2>4, <2>6, OthersStutter
<1>2. CASE ~ \E q \in Runs : CreateRun(q)
  <2>1. UNCHANGED <<run, mail>>
    BY <1>2 DEF ClientStep, DeleteAssay, PatchExpectations
  <2> QED
    BY <2>1, RunStutters
<1> QED
  BY <1>1, <1>2

\* Marking a run that has no verdict as an ERROR, with or without its event.
LEMMA AbortObeys ==
    ASSUME CorpusTypeOK, NEW q \in Runs, mail[q].at = "held", run[q].status # "new",
           run[q].status \notin Ended, NEW e \in {run[q].event, "failed"},
           run' = [run EXCEPT ![q] = [@ EXCEPT !.status = "error", !.event = e]],
           UNCHANGED mail
    PROVE  \A r \in Runs : Obeys(r)
<1> DEFINE row == [run[q] EXCEPT !.status = "error", !.event = e]
<1>0. run[q] \in RunRow
  BY SamePlace
<1>1. /\ row.status = "error" /\ row.passes = run[q].passes /\ row.fails = run[q].fails
      /\ row.cert = run[q].cert /\ row.event = e
  BY <1>0 DEF RunRow
<1>2. run[q].status \in {"pending", "processing"}
  BY <1>0 DEF RunRow
<1>3. run' = [run EXCEPT ![q] = row]
  OBVIOUS
<1> HIDE DEF row
<1>4. run'[q] = row /\ mail'[q] = mail[q] => Obeys(q)
  BY <1>1, <1>2 DEF Obeys, Promise!Next, Promise!Abort
<1> QED
  BY <1>3, <1>4, RowObeys

\* Telling of a run that has ended, at the end of its attempt or before a commit fails.
LEMMA AnnounceObeys ==
    ASSUME CorpusTypeOK, NEW q \in Runs, mail[q].at = "held", run[q].status \in Ended,
           NEW at \in {"held", "over"},
           run' = [run EXCEPT ![q] = [@ EXCEPT !.event = EventFor(run[q].status)]],
           mail' = [mail EXCEPT ![q] = [@ EXCEPT !.at = at]]
    PROVE  \A r \in Runs : Obeys(r)
<1> DEFINE row == [run[q] EXCEPT !.event = EventFor(run[q].status)]
           m == [mail[q] EXCEPT !.at = at]
<1>0. run[q] \in RunRow /\ mail[q] \in Mail
  BY SamePlace
<1>1. /\ row.status = run[q].status /\ row.passes = run[q].passes
      /\ row.fails = run[q].fails /\ row.cert = run[q].cert
      /\ row.event = EventFor(run[q].status)
  BY <1>0 DEF RunRow
<1>2. m.at = at /\ m.retries = mail[q].retries
  BY <1>0 DEF Mail
<1>3. run' = [run EXCEPT ![q] = row] /\ mail' = [mail EXCEPT ![q] = m]
  OBVIOUS
<1> HIDE DEF row, m
<1>4. run'[q] = row /\ mail'[q] = m => Obeys(q)
  BY <1>1, <1>2 DEF Obeys, Promise!Next, Promise!Announce, Promise!Ended, Promise!EventFor,
                    Ended, EventFor
<1> QED
  BY <1>3, <1>4, OthersStutter

\* An attempt that ends without a word.
LEMMA EndObeys ==
    ASSUME CorpusTypeOK, NEW x \in Executors, NEW q \in Runs, q = RunOf(x), mail[q].at = "held",
           NEW m, EndAttempt(x, m),
           \/ m.retries = mail[q].retries /\ m.at \in {"queued", "cut"}
           \/ /\ m.retries = mail[q].retries + 1 /\ m.at = "queued"
              /\ mail[q].retries < RunRetries
           \/ m.retries = mail[q].retries /\ m.at = "over" /\ m.retries = RunRetries
    PROVE  \A r \in Runs : Obeys(r)
<1>0. UNCHANGED run /\ mail' = [mail EXCEPT ![q] = m]
  BY DEF EndAttempt
<1>1. ASSUME run'[q] = run[q], mail'[q] = m PROVE Obeys(q)
  <2>1. CASE m.retries = mail[q].retries /\ m.at \in {"queued", "cut"}
    BY <1>1, <2>1 DEF Obeys, Promise!Next, Promise!Pass
  <2>2. CASE /\ m.retries = mail[q].retries + 1 /\ m.at = "queued"
             /\ mail[q].retries < RunRetries
    BY <1>1, <2>2 DEF Obeys, Promise!Next, Promise!Retry
  <2>3. CASE m.retries = mail[q].retries /\ m.at = "over" /\ m.retries = RunRetries
    BY <1>1, <2>3 DEF Obeys, Promise!Next, Promise!Pass, Promise!GiveUp
  <2> QED
    BY <2>1, <2>2, <2>3
<1> QED
  BY <1>0, <1>1, MailObeys

\* What a slot that is executing the run q does.
LEMMA WorkObeys ==
    ASSUME CorpusInv, NEW x \in Executors, Busy(x), NEW q \in Runs, q = RunOf(x),
           ExecStep(x) \/ ExecFault(x)
    PROVE  \A r \in Runs : Obeys(r)
<1>0. CorpusTypeOK /\ Place(x)
  BY DEF CorpusInv
<1>1. /\ mail[q].at = "held" /\ run[q].status # "new"
      /\ run[q] \in RunRow /\ mail[q] \in Mail /\ mail[q].retries \in 0 .. RunRetries
  BY <1>0, SamePlace, RowFields DEF CorpusInv, Custody
<1>2. UNCHANGED <<run, mail>> => \A r \in Runs : Obeys(r)
  BY RunStutters
<1>3. ~ \E r \in Runs : Receive(x, r)
  BY DEF Receive, Busy
<1>4. CASE StartRun(x)
  <2> DEFINE row == [run[q] EXCEPT !.status = "processing"]
  <2>1. /\ row.status = "processing" /\ row.passes = run[q].passes
        /\ row.fails = run[q].fails /\ row.cert = run[q].cert /\ row.event = run[q].event
    BY <1>1 DEF RunRow
  <2>2. run' = [run EXCEPT ![q] = row] /\ UNCHANGED mail
    BY <1>4 DEF StartRun
  <2> HIDE DEF row
  <2>3. run'[q] = row /\ mail'[q] = mail[q] => Obeys(q)
    BY <1>1, <2>1 DEF Obeys, Promise!Next, Promise!Begin
  <2> QED
    BY <1>0, <1>1, <2>2, <2>3, RowObeys
<1>5. CASE LoadRun(x)
  <2>0. run[q].status = "processing"
    BY <1>0, <1>5 DEF LoadRun, In, Place
  <2>1. CASE UNCHANGED run
    BY <1>2, <1>5, <2>1 DEF LoadRun
  <2>2. CASE run' = [run EXCEPT ![q].status = "error"]
    <3>1. [run[q] EXCEPT !.status = "error", !.event = run[q].event]
             = [run[q] EXCEPT !.status = "error"]
      BY <1>1, <2>0 DEF RunRow
    <3>2. run' = [run EXCEPT ![q] = [@ EXCEPT !.status = "error", !.event = run[q].event]]
      BY <2>2, <3>1
    <3> QED
      BY <1>0, <1>1, <1>5, <2>0, <3>2, AbortObeys DEF LoadRun, Ended
  <2> QED
    BY <1>5, <2>1, <2>2 DEF LoadRun
<1>6. CASE NextAssay(x)
  BY <1>2, <1>6 DEF NextAssay
<1>7. CASE JudgeError(x) \/ \E o \in Outputs : JudgeDiff(x, o) \/ Bootstrap(x, o)
  BY <1>2, <1>7 DEF JudgeError, JudgeDiff, Bootstrap
<1>8. CASE FinalizeRun(x)
  <2> DEFINE p == exec[x].passes
             f == exec[x].fails
             s == IF f = 0 THEN "passed" ELSE "failed"
             c == IF f = 0 /\ p > 0 THEN 1 ELSE run[q].cert
             row == [run[q] EXCEPT !.passes = p, !.fails = f, !.status = s, !.cert = c]
  <2>0. run[q].status = "processing" /\ p \in Nat /\ f \in Nat
    BY <1>0, <1>8, SlotFields DEF FinalizeRun, In, Place, Looping
  <2>1. run' = [run EXCEPT ![q] = row] /\ UNCHANGED mail
    BY <1>8 DEF FinalizeRun
  <2> HIDE DEF p, f, s, c
  <2>2. /\ row.status = s /\ row.passes = p /\ row.fails = f
        /\ row.cert = c /\ row.event = run[q].event
    BY <1>1, <2>0 DEF RunRow
  <2> HIDE DEF row
  <2>3. ASSUME run'[q] = row, mail'[q] = mail[q] PROVE Obeys(q)
    BY <1>1, <2>0, <2>2, <2>3 DEF Obeys, Promise!Next, Promise!Decide, s, c
  <2> QED
    BY <1>0, <1>1, <2>0, <2>1, <2>3, RowObeys
<1>9. CASE EmitRunEvent(x)
  <2>0. run[q].status \in Ended
    BY <1>0, <1>9 DEF EmitRunEvent, In, Place
  <2>1. /\ run' = [run EXCEPT ![q] = [@ EXCEPT !.event = EventFor(run[q].status)]]
        /\ mail' = [mail EXCEPT ![q] = [@ EXCEPT !.at = "over"]]
    BY <1>9 DEF EmitRunEvent
  <2> QED
    BY <1>0, <1>1, <2>0, <2>1, AnnounceObeys
<1>10. CASE HandleError(x)
  <2>1. CASE run[q].status \in Ended
    BY <1>2, <1>10, <2>1 DEF HandleError
  <2>2. CASE run[q].status \notin Ended
    <3>1. run' = [run EXCEPT ![q] = [@ EXCEPT !.status = "error", !.event = "failed"]]
      BY <1>10, <2>2 DEF HandleError
    <3> QED
      BY <1>0, <1>1, <1>10, <2>2, <3>1, AbortObeys DEF HandleError
  <2> QED
    BY <2>1, <2>2
<1>11. CASE RetryRun(x) \/ GiveUpRun(x) \/ ExecutorDies(x) \/ ExecutorIsCut(x)
  <2>1. CASE RetryRun(x)
    BY <1>0, <1>1, <2>1, EndObeys DEF RetryRun
  <2>2. CASE GiveUpRun(x)
    <3>1. mail[q].retries = RunRetries
      BY <1>1, <2>2, CorpusBoundAssumption DEF GiveUpRun
    <3> QED
      BY <1>0, <1>1, <2>2, <3>1, EndObeys DEF GiveUpRun
  <2>3. ASSUME NEW at \in {"queued", "cut"}, EndAttempt(x, [mail[q] EXCEPT !.at = at])
        PROVE  \A r \in Runs : Obeys(r)
    <3> DEFINE m == [mail[q] EXCEPT !.at = at]
    <3>1. m.at = at /\ m.retries = mail[q].retries
      BY <1>1 DEF Mail
    <3>2. EndAttempt(x, m)
      BY <2>3
    <3> HIDE DEF m
    <3> QED
      BY <1>0, <1>1, <3>1, <3>2, EndObeys
  <2>4. CASE ExecutorDies(x) \/ ExecutorIsCut(x)
    BY <2>3, <2>4 DEF ExecutorDies, ExecutorIsCut
  <2> QED
    BY <1>11, <2>1, <2>2, <2>4
<1>12. CASE RunRaises(x)
  BY <1>2, <1>12 DEF RunRaises
<1>13. CASE CorpusCommitFails(x)
  <2>1. CASE UNCHANGED run
    BY <1>2, <1>13, <2>1 DEF CorpusCommitFails
  <2>2. CASE /\ In(x, "event")
             /\ run' = [run EXCEPT ![q].event = EventFor(run[q].status)]
    <3>0. run[q].status \in Ended
      BY <1>0, <2>2 DEF Busy, In, Place
    <3>1. [mail[q] EXCEPT !.at = "held"] = mail[q]
      BY <1>1, <3>0 DEF Mail
    <3>2. mail' = [mail EXCEPT ![q] = [@ EXCEPT !.at = "held"]]
      BY <1>0, <1>1, <1>13, <3>0, <3>1, SamePlace DEF CorpusCommitFails
    <3>3. run' = [run EXCEPT ![q] = [@ EXCEPT !.event = EventFor(run[q].status)]]
      BY <2>2
    <3> QED
      BY <1>0, <1>1, <3>0, <3>2, <3>3, AnnounceObeys
  <2> QED
    BY <1>13, <2>1, <2>2 DEF CorpusCommitFails
<1>14. CASE HandlerFailsToo(x)
  <2>0. UNCHANGED mail
    BY <1>14 DEF HandlerFailsToo, In
  <2>1. CASE UNCHANGED run
    BY <1>2, <2>0, <2>1
  <2>2. CASE /\ run[q].status \notin Ended
             /\ run' = [run EXCEPT ![q].status = "error"]
    <3>1. [run[q] EXCEPT !.status = "error", !.event = run[q].event]
             = [run[q] EXCEPT !.status = "error"]
      BY <1>1, <2>0 DEF RunRow
    <3>2. run' = [run EXCEPT ![q] = [@ EXCEPT !.status = "error", !.event = run[q].event]]
      BY <2>2, <3>1
    <3> QED
      BY <1>0, <1>1, <2>0, <2>2, <3>2, AbortObeys
  <2> QED
    BY <1>14, <2>1, <2>2 DEF HandlerFailsToo
<1> QED
  BY <1>3, <1>4, <1>5, <1>6, <1>7, <1>8, <1>9, <1>10, <1>11, <1>12, <1>13, <1>14
     DEF ExecStep, ExecFault

\* An idle slot can only receive a run.
LEMMA ExecObeys ==
    ASSUME CorpusInv, NEW x \in Executors, ExecStep(x) \/ ExecFault(x)
    PROVE  \A r \in Runs : Obeys(r)
<1>0. CorpusTypeOK
  BY DEF CorpusInv
<1>1. CASE Busy(x)
  <2> PICK q \in Runs : q = RunOf(x)
    BY <1>1 DEF CorpusInv, Custody
  <2> QED
    BY <1>1, WorkObeys
<1>2. CASE ~Busy(x)
  <2>1. PICK q \in Runs : Receive(x, q)
    BY <1>2 DEF ExecStep, ExecFault, Busy, In, StartRun, LoadRun, NextAssay, JudgeError,
                JudgeDiff, Bootstrap, FinalizeRun, EmitRunEvent, HandleError, RetryRun,
                GiveUpRun, RunRaises, CorpusCommitFails, HandlerFailsToo, ExecutorDies,
                ExecutorIsCut
  <2> DEFINE m == [mail[q] EXCEPT !.at = "held"]
  <2>2. m.at = "held" /\ m.retries = mail[q].retries
    BY <1>0, SamePlace DEF Mail
  <2>3. mail' = [mail EXCEPT ![q] = m] /\ UNCHANGED run /\ mail[q].at = "queued"
    BY <2>1 DEF Receive
  <2> HIDE DEF m
  <2>4. run'[q] = run[q] /\ mail'[q] = m => Obeys(q)
    BY <2>2, <2>3 DEF Obeys, Promise!Next, Promise!Pass
  <2> QED
    BY <1>0, <2>3, <2>4, MailObeys
<1> QED
  BY <1>1, <1>2

\* For any runs, shared assays, edits, retries and faults: an attempt that is started
\* over, a deletion that trips it and a handler that runs late keep each run within what
\* its client may rely on (RunContract).
THEOREM RunImplementation == CorpusSpec => ImplementsRunContract
<1>1. CorpusInit => \A r \in Runs : Promise(r)!Init
  BY DEF CorpusInit, NewRun, Promise!Init
<1>2. CorpusInv /\ [CorpusNext]_corpusVars
        => [\A r \in Runs : Promise(r)!Next \/ UNCHANGED Promise(r)!vars]_corpusVars
  BY ClientObeys, ExecObeys DEF CorpusNext, Obeys
<1> QED
  BY <1>1, <1>2, CorpusInvariance, PTL DEF CorpusSpec, ImplementsRunContract
=============================================================================
