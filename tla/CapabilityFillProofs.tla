------------------------- MODULE CapabilityFillProofs -------------------------
(***************************************************************************)
(* Proofs about CapabilityFill for any capabilities, requests, task slots  *)
(* and faults.                                                             *)
(***************************************************************************)
EXTENDS CapabilityFill, FiniteSetTheorems, TLAPS

Request == [pc : {"idle", "save", "queue", "undo"}, todo : SUBSET Capabilities, seen : Column]
FillTask == [pc : {"idle", "work", "ack"}, of : {{}} \union {{c} : c \in Capabilities},
             seen : Column]

\* What a column tells the viewer is there, is in the database.
Backed(col) == \A c \in col.ready \ Imported : stored[c] > 0

\* The column and every copy of it in a session.
CopiesBacked == /\ Backed(column)
                /\ \A k \in Clients : Backed(client[k].seen)
                /\ \A w \in Workers : Backed(worker[w].seen)

\* The workers that may yet store a fill of c.
Filling(c) == {w \in Workers : worker[w].pc = "work" /\ worker[w].of = {c}}

\* A message is asked for once and stored at most once, unless a crash sends it back.
Balanced(c) == /\ IsFiniteSet(Filling(c))
               /\ stored[c] + queued[c] + Cardinality(Filling(c)) <= asked[c] + crashes

FillInv == TypeOK /\ CopiesBacked /\ \A c \in Capabilities : Balanced(c)
-----------------------------------------------------------------------------
(* Columns and sessions. *)

LEMMA ColumnFields ==
    ASSUME NEW col \in Column
    PROVE  /\ col.ready \in SUBSET Capabilities
           /\ col.fill \in [Capabilities -> {"none", "pending", "failed"}]
BY DEF Column

LEMMA WithFillType ==
    ASSUME NEW col \in Column, NEW S, NEW s \in {"none", "pending", "failed"}
    PROVE  WithFill(col, S, s) \in Column /\ WithFill(col, S, s).ready = col.ready
BY DEF WithFill, Column

LEMMA FreshType == Fresh \in Column /\ Fresh.ready = Imported
BY ImportAssumption DEF Fresh, NoFill, Column

LEMMA TypeFields ==
    ASSUME TypeOK
    PROVE  /\ column \in Column
           /\ client \in [Clients -> Request]
           /\ worker \in [Workers -> FillTask]
           /\ \A k \in Clients : client[k].seen \in Column /\ client[k].todo \subseteq Capabilities
           /\ \A w \in Workers : worker[w].seen \in Column
BY DEF TypeOK, Request, FillTask

LEMMA WrittenType ==
    ASSUME TypeOK, NEW loaded, NEW new \in Column
    PROVE  /\ Written(loaded, new) \in Column
           /\ Written(loaded, new).ready \in {column.ready, new.ready}
BY TypeFields DEF Written

\* k's request goes on: its todo and what it has loaded change, and nobody else's.
Continues(k) == /\ client' \in [Clients -> Request]
                /\ \A i \in Clients \ {k} : client'[i] = client[i]
                /\ client'[k].pc = "idle" <=> client'[k].todo = {}
                /\ client'[k].seen \in {client[k].seen, column, Fresh}

LEMMA AskContinues ==
    ASSUME TypeOK, NEW k \in Clients, NEW S \in Asks, Ask(k, S)
    PROVE  Continues(k)
<1>0. client \in [Clients -> Request] /\ column \in Column
  BY TypeFields
<1>1. PICK todo \in SUBSET Capabilities :
          /\ todo # {}
          /\ client' = [client EXCEPT ![k] = [pc |-> "save", todo |-> todo, seen |-> column]]
  BY AskAssumption DEF Ask
<1> DEFINE e == [pc |-> "save", todo |-> todo, seen |-> column]
<1>2. e \in Request /\ e.pc = "save" /\ e.todo = todo /\ e.seen = column
  BY <1>0 DEF Request
<1>3. client' = [client EXCEPT ![k] = e]
  BY <1>1
<1> HIDE DEF e
<1> QED
  BY <1>0, <1>1, <1>2, <1>3 DEF Continues

LEMMA SaveContinues ==
    ASSUME TypeOK, NEW k \in Clients, Save(k)
    PROVE  Continues(k)
<1>0. client \in [Clients -> Request] /\ client[k].todo # {}
  BY TypeFields DEF TypeOK, Save
<1> DEFINE e == [client[k] EXCEPT !.pc = "queue"]
<1>1. e \in Request /\ e.pc = "queue" /\ e.todo = client[k].todo /\ e.seen = client[k].seen
  BY <1>0 DEF Request
<1>2. client' = [client EXCEPT ![k] = e]
  BY DEF Save
<1> HIDE DEF e
<1> QED
  BY <1>0, <1>1, <1>2 DEF Continues

LEMMA DropContinues ==
    ASSUME TypeOK, NEW k \in Clients, NEW c \in Capabilities, Drop(k, c)
    PROVE  Continues(k)
<1>0. client \in [Clients -> Request] /\ client[k].todo \subseteq Capabilities
  BY TypeFields
<1> DEFINE rest == client[k].todo \ {c}
           e == [client[k] EXCEPT !.pc = "queue", !.todo = rest]
<1>1. rest \in SUBSET Capabilities
  BY <1>0
<1>2. e \in Request /\ e.pc = "queue" /\ e.todo = rest /\ e.seen = client[k].seen
  <2> HIDE DEF rest
  <2> QED
    BY <1>0, <1>1 DEF Request
<1>3. client' = [client EXCEPT ![k] = IF rest = {} THEN IdleClient ELSE e]
  BY <1>0 DEF Drop
<1>4. /\ IdleClient \in Request /\ IdleClient.pc = "idle" /\ IdleClient.todo = {}
      /\ IdleClient.seen = Fresh
  BY FreshType DEF IdleClient, Request
<1> HIDE DEF e, rest
<1>5. CASE rest = {}
  BY <1>0, <1>3, <1>4, <1>5 DEF Continues
<1>6. CASE rest # {}
  BY <1>0, <1>2, <1>3, <1>6 DEF Continues
<1> QED
  BY <1>5, <1>6

LEMMA QueueFailsContinues ==
    ASSUME TypeOK, NEW k \in Clients, QueueFails(k)
    PROVE  Continues(k)
<1>0. client \in [Clients -> Request] /\ client[k].todo # {} /\ column \in Column
  BY TypeFields DEF TypeOK, QueueFails
<1> DEFINE e == [client[k] EXCEPT !.pc = "undo", !.seen = column]
<1>1. e \in Request /\ e.pc = "undo" /\ e.todo = client[k].todo /\ e.seen = column
  BY <1>0 DEF Request
<1>2. client' = [client EXCEPT ![k] = e]
  BY <1>0 DEF QueueFails, Request
<1> HIDE DEF e
<1> QED
  BY <1>0, <1>1, <1>2 DEF Continues

\* w's task begins, has come to its end, or is over.
Begins(w, c) == /\ worker[w].pc = "idle" /\ worker'[w].pc = "work" /\ worker'[w].of = {c}
                /\ worker'[w].seen = column
Ends(w) == /\ worker[w].pc = "work" /\ worker'[w].pc = "ack" /\ worker'[w].of = worker[w].of
           /\ worker'[w].seen = worker[w].seen
Idles(w) == worker'[w] = IdleWorker

Works(w) == /\ worker' \in [Workers -> FillTask]
            /\ \A v \in Workers \ {w} : worker'[v] = worker[v]

LEMMA StartWorks ==
    ASSUME TypeOK, NEW w \in Workers, NEW c \in Capabilities, Start(w, c)
    PROVE  Works(w) /\ Begins(w, c)
<1>0. worker \in [Workers -> FillTask] /\ column \in Column
  BY TypeFields
<1> DEFINE e == [pc |-> "work", of |-> {c}, seen |-> column]
<1>1. e \in FillTask /\ e.pc = "work" /\ e.of = {c} /\ e.seen = column
  BY <1>0 DEF FillTask
<1>2. worker' = [worker EXCEPT ![w] = e] /\ worker[w].pc = "idle"
  BY DEF Start
<1> HIDE DEF e
<1> QED
  BY <1>0, <1>1, <1>2 DEF Works, Begins

LEMMA EndWorks ==
    ASSUME TypeOK, NEW w \in Workers, worker[w].pc = "work", End(w)
    PROVE  Works(w) /\ Ends(w)
<1>0. worker \in [Workers -> FillTask]
  BY TypeFields
<1> DEFINE e == [worker[w] EXCEPT !.pc = "ack"]
<1>1. e \in FillTask /\ e.pc = "ack" /\ e.of = worker[w].of /\ e.seen = worker[w].seen
  BY <1>0 DEF FillTask
<1>2. worker' = [worker EXCEPT ![w] = e]
  BY DEF End
<1> HIDE DEF e
<1> QED
  BY <1>0, <1>1, <1>2 DEF Works, Ends

LEMMA IdleWorks ==
    ASSUME TypeOK, NEW w \in Workers, worker' = [worker EXCEPT ![w] = IdleWorker]
    PROVE  Works(w) /\ Idles(w)
<1>0. worker \in [Workers -> FillTask] /\ IdleWorker \in FillTask
  BY TypeFields, FreshType DEF IdleWorker, FillTask
<1> QED
  BY <1>0 DEF Works, Idles

LEMMA FillOf ==
    ASSUME TypeOK, NEW w \in Workers, NEW c \in Capabilities, c \in worker[w].of
    PROVE  worker[w].of = {c}
BY TypeFields DEF FillTask
-----------------------------------------------------------------------------
(* What a step does. *)

Requested(k) == /\ Continues(k)
                /\ UNCHANGED <<worker, stored, crashes>>
                /\ column' \in Column
                /\ column'.ready \in {column.ready, client[k].seen.ready}
                /\ \/ UNCHANGED <<queued, asked>>
                   \/ \E c \in Capabilities : /\ queued' = [queued EXCEPT ![c] = queued[c] + 1]
                                              /\ asked' = [asked EXCEPT ![c] = asked[c] + 1]

Begun(w, c) == /\ Works(w) /\ Begins(w, c)
               /\ queued[c] > 0
               /\ queued' = [queued EXCEPT ![c] = queued[c] - 1]
               /\ UNCHANGED <<client, column, stored, asked, crashes>>

\* The fill of c ends; n times its findings are committed.
Ended(w, c, n) == /\ Works(w) /\ Ends(w) /\ worker[w].of = {c}
                  /\ stored' = [stored EXCEPT ![c] = stored[c] + n]
                  /\ column' \in Column
                  /\ \/ column'.ready \in {column.ready, worker[w].seen.ready}
                     \/ n = 1 /\ column'.ready = worker[w].seen.ready \union {c}
                  /\ UNCHANGED <<client, queued, asked, crashes>>

Forgotten(w) == /\ Works(w) /\ Idles(w)
                /\ UNCHANGED <<client, column, stored, queued, asked, crashes>>

Crashed(w) == /\ Works(w) /\ Idles(w)
              /\ crashes' = crashes + 1
              /\ queued' = [c \in Capabilities |-> queued[c] + IF c \in worker[w].of THEN 1 ELSE 0]
              /\ UNCHANGED <<client, column, stored, asked>>

WorkerMoves(w) == \/ \E c \in Capabilities : Begun(w, c)
                  \/ \E c \in Capabilities : \E n \in 0 .. 1 : Ended(w, c, n)
                  \/ Forgotten(w) \/ Crashed(w)

Moves == \/ \E k \in Clients : Requested(k)
         \/ \E w \in Workers : WorkerMoves(w)

LEMMA FinishEnds ==
    ASSUME TypeOK, NEW w \in Workers, NEW c \in Capabilities, Finish(w, c)
    PROVE  Ended(w, c, 1)
<1> DEFINE seen == worker[w].seen
           base == WithFill(seen, {c}, "none")
           new == [base EXCEPT !.ready = seen.ready \union {c}]
<1>1. Works(w) /\ Ends(w) /\ worker[w].of = {c}
  BY EndWorks, FillOf DEF Finish
<1>2. seen \in Column /\ base \in Column /\ base.ready = seen.ready
  BY TypeFields, WithFillType
<1>3. new \in Column /\ new.ready = seen.ready \union {c}
  <2> HIDE DEF base, seen
  <2> QED
    BY <1>2 DEF Column
<1>4. column' = column \/ column' = new
  <2>1. new = [base EXCEPT !.ready = @ \union {c}]
    BY <1>2
  <2> QED
    BY <2>1 DEF Finish
<1>5. /\ stored' = [stored EXCEPT ![c] = stored[c] + 1]
      /\ UNCHANGED <<client, queued, asked, crashes>>
  BY DEF Finish
<1>6. column \in Column
  BY TypeFields
<1> HIDE DEF new
<1> QED
  BY <1>1, <1>3, <1>4, <1>5, <1>6 DEF Ended

LEMMA FailEnds ==
    ASSUME TypeOK, NEW w \in Workers, NEW c \in Capabilities, NEW b \in 0 .. 1,
           Fails(w, c, b) \/ CommitFails(w, c)
    PROVE  \E n \in 0 .. 1 : Ended(w, c, n)
<1>1. Works(w) /\ Ends(w) /\ worker[w].of = {c}
  BY EndWorks, FillOf DEF Fails, CommitFails
<1>2. /\ worker[w].seen \in Column /\ column \in Column
      /\ stored = [stored EXCEPT ![c] = stored[c] + 0]
  BY TypeFields DEF TypeOK
<1>3. CASE Fails(w, c, b)
  <2> DEFINE new == WithFill(worker[w].seen, {c}, "failed")
  <2>1. new \in Column /\ new.ready = worker[w].seen.ready
    BY <1>2, WithFillType
  <2>2. column' = Written(Touched(worker[w].seen, c, "failed"), new)
    BY <1>3 DEF Fails
  <2> HIDE DEF new
  <2>3. column' \in Column /\ column'.ready \in {column.ready, worker[w].seen.ready}
    BY <2>1, <2>2, WrittenType
  <2>4. Ended(w, c, b)
    BY <1>1, <1>3, <2>3 DEF Ended, Fails
  <2> QED
    BY <2>4
<1>4. CASE CommitFails(w, c)
  <2> DEFINE new == WithFill(column, {c}, "failed")
  <2>1. new \in Column /\ new.ready = column.ready
    BY <1>2, WithFillType
  <2>2. column' = Written(Touched(column, c, "failed"), new)
    BY <1>4 DEF CommitFails
  <2> HIDE DEF new
  <2>3. column' \in Column /\ column'.ready = column.ready
    BY <2>1, <2>2, WrittenType
  <2>4. Ended(w, c, 0)
    BY <1>1, <1>2, <1>4, <2>3 DEF Ended, CommitFails
  <2> QED
    BY <2>4
<1> QED
  BY <1>3, <1>4

LEMMA RequestMoves ==
    ASSUME TypeOK, NEW k \in Clients,
           ClientStep(k) \/ QueueFails(k) \/ \E S \in Asks : Ask(k, S)
    PROVE  Requested(k)
<1>0. column \in Column /\ client[k].seen \in Column
  BY TypeFields
<1>1. ASSUME NEW S \in Asks, Ask(k, S) PROVE Requested(k)
  BY <1>0, <1>1, AskContinues DEF Ask, Requested
<1>2. CASE Save(k)
  <2>1. column' \in Column /\ column'.ready = client[k].seen.ready
    BY <1>0, <1>2, WithFillType DEF Save
  <2> QED
    BY <1>2, <2>1, SaveContinues DEF Save, Requested
<1>3. ASSUME NEW c \in Capabilities, Queue(k, c) PROVE Requested(k)
  BY <1>0, <1>3, DropContinues DEF Queue, Requested
<1>4. ASSUME NEW c \in Capabilities, Undo(k, c) PROVE Requested(k)
  <2> DEFINE new == WithFill(client[k].seen, {c}, "failed")
  <2>1. new \in Column /\ new.ready = client[k].seen.ready
    BY <1>0, WithFillType
  <2>2. column' = Written(client[k].seen, new)
    BY <1>4 DEF Undo
  <2> HIDE DEF new
  <2>3. column' \in Column /\ column'.ready \in {column.ready, client[k].seen.ready}
    BY <2>1, <2>2, WrittenType
  <2> QED
    BY <1>4, <2>3, DropContinues DEF Undo, Requested
<1>5. CASE QueueFails(k)
  BY <1>0, <1>5, QueueFailsContinues DEF QueueFails, Requested
<1> QED
  BY <1>1, <1>2, <1>3, <1>4, <1>5 DEF ClientStep

LEMMA StepMoves ==
    ASSUME TypeOK, Next
    PROVE  Moves
<1>1. ASSUME NEW k \in Clients, ClientStep(k) \/ QueueFails(k) \/ \E S \in Asks : Ask(k, S)
      PROVE  Moves
  BY <1>1, RequestMoves DEF Moves, WorkerMoves
<1>2. ASSUME NEW w \in Workers, NEW c \in Capabilities, Start(w, c) PROVE Moves
  <2>1. Begun(w, c)
    BY <1>2, StartWorks DEF Start, Begun
  <2> QED
    BY <2>1 DEF Moves, WorkerMoves
<1>3. ASSUME NEW w \in Workers, NEW c \in Capabilities, Finish(w, c) PROVE Moves
  <2>1. Ended(w, c, 1) /\ 1 \in 0 .. 1
    BY <1>3, FinishEnds
  <2>2. \E n \in 0 .. 1 : Ended(w, c, n)
    BY <2>1
  <2> QED
    BY <2>2 DEF Moves, WorkerMoves
<1>4. ASSUME NEW w \in Workers, NEW c \in Capabilities,
             CommitFails(w, c) \/ \E b \in 0 .. 1 : Fails(w, c, b)
      PROVE  Moves
  <2>1. \E n \in 0 .. 1 : Ended(w, c, n)
    BY <1>4, FailEnds
  <2> QED
    BY <2>1 DEF Moves, WorkerMoves
<1>5. ASSUME NEW w \in Workers, Ack(w) \/ HardTimeout(w) PROVE Moves
  <2>1. Forgotten(w)
    BY <1>5, IdleWorks DEF Ack, HardTimeout, Forgotten
  <2> QED
    BY <2>1 DEF Moves, WorkerMoves
<1>6. ASSUME NEW w \in Workers, Crash(w) PROVE Moves
  <2>1. Crashed(w)
    BY <1>6, IdleWorks DEF Crash, Crashed
  <2> QED
    BY <2>1 DEF Moves, WorkerMoves
<1> QED
  BY <1>1, <1>2, <1>3, <1>4, <1>5, <1>6 DEF Next, WorkerStep, FaultStep
-----------------------------------------------------------------------------
(* Types. *)

LEMMA Counters ==
    ASSUME TypeOK, Next
    PROVE  /\ requests' \in 0 .. MaxRequests
           /\ crashes' \in 0 .. faults'
           /\ faults' \in 0 .. MaxFaults
<1>0. /\ requests \in 0 .. MaxRequests /\ crashes \in 0 .. faults /\ faults \in 0 .. MaxFaults
      /\ MaxRequests \in Nat /\ MaxFaults \in Nat
  BY CapabilityBounds DEF TypeOK
<1>1. requests' = requests \/ (requests < MaxRequests /\ requests' = requests + 1)
  BY DEF Next, ClientStep, WorkerStep, FaultStep, Ask, Save, Queue, QueueFails, Undo, Start, Finish,
         Fails, CommitFails, Ack, Crash, HardTimeout
<1>2. \/ faults' = faults /\ crashes' = crashes
      \/ faults < MaxFaults /\ faults' = faults + 1 /\ crashes' \in {crashes, crashes + 1}
  BY DEF Next, ClientStep, WorkerStep, FaultStep, Ask, Save, Queue, QueueFails, Undo, Start, Finish,
         Fails, CommitFails, Ack, Crash, HardTimeout, Fault
<1> QED
  BY <1>0, <1>1, <1>2

LEMMA TypesKept ==
    ASSUME TypeOK, Next
    PROVE  TypeOK'
<1>0. /\ column \in Column
      /\ client \in [Clients -> Request]
      /\ worker \in [Workers -> FillTask]
      /\ \A k \in Clients : client[k].pc = "idle" <=> client[k].todo = {}
      /\ queued \in [Capabilities -> Nat]
      /\ stored \in [Capabilities -> Nat]
      /\ asked \in [Capabilities -> Nat]
  BY TypeFields DEF TypeOK
<1> DEFINE Goal == /\ column' \in Column
                   /\ client' \in [Clients -> Request]
                   /\ worker' \in [Workers -> FillTask]
                   /\ \A k \in Clients : client'[k].pc = "idle" <=> client'[k].todo = {}
                   /\ queued' \in [Capabilities -> Nat]
                   /\ stored' \in [Capabilities -> Nat]
                   /\ asked' \in [Capabilities -> Nat]
<1>1. ASSUME NEW k \in Clients, Requested(k) PROVE Goal
  BY <1>0, <1>1 DEF Requested, Continues
<1>2. ASSUME NEW w \in Workers, NEW c \in Capabilities, Begun(w, c) PROVE Goal
  BY <1>0, <1>2 DEF Begun, Works
<1>3. ASSUME NEW w \in Workers, NEW c \in Capabilities, NEW n \in 0 .. 1, Ended(w, c, n)
      PROVE  Goal
  BY <1>0, <1>3 DEF Ended, Works
<1>4. ASSUME NEW w \in Workers, Forgotten(w) PROVE Goal
  BY <1>0, <1>4 DEF Forgotten, Works
<1>5. ASSUME NEW w \in Workers, Crashed(w) PROVE Goal
  BY <1>0, <1>5 DEF Crashed, Works
<1>6. Goal
  BY <1>1, <1>2, <1>3, <1>4, <1>5, StepMoves DEF Moves, WorkerMoves
<1> QED
  BY <1>6, Counters DEF TypeOK, Request, FillTask
-----------------------------------------------------------------------------
(* What the viewer is told. *)

LEMMA BackedKept ==
    ASSUME TypeOK, CopiesBacked, Moves
    PROVE  CopiesBacked'
<1>0. /\ stored \in [Capabilities -> Nat]
      /\ column.ready \subseteq Capabilities
      /\ \A k \in Clients : client[k].seen.ready \subseteq Capabilities
      /\ \A w \in Workers : worker[w].seen.ready \subseteq Capabilities
  BY TypeFields DEF TypeOK, Column
<1>1. Fresh.ready = Imported
  BY FreshType
<1>2. ASSUME NEW k \in Clients, Requested(k) PROVE CopiesBacked'
  <2>1. \A i \in Clients : \/ client'[i].seen = client[i].seen
                           \/ client'[i].seen \in {column, Fresh}
    BY <1>2 DEF Requested, Continues
  <2> QED
    BY <1>1, <1>2, <2>1 DEF Requested, CopiesBacked, Backed
<1>3. ASSUME NEW w \in Workers, NEW c \in Capabilities, Begun(w, c) PROVE CopiesBacked'
  <2>1. \A v \in Workers : worker'[v].seen \in {worker[v].seen, column}
    BY <1>3 DEF Begun, Works, Begins
  <2> QED
    BY <1>3, <2>1 DEF Begun, CopiesBacked, Backed
<1>4. ASSUME NEW w \in Workers, NEW c \in Capabilities, NEW n \in 0 .. 1, Ended(w, c, n)
      PROVE  CopiesBacked'
  <2>1. \A v \in Workers : worker'[v].seen = worker[v].seen
    BY <1>4 DEF Ended, Works, Ends
  <2>2. /\ \A d \in Capabilities : stored[d] > 0 => stored'[d] > 0
        /\ n = 1 => stored'[c] > 0
    BY <1>0, <1>4 DEF Ended
  <2>3. Backed(column)'
    BY <1>0, <1>4, <2>2 DEF Ended, CopiesBacked, Backed
  <2>4. client' = client
    BY <1>4 DEF Ended
  <2> QED
    BY <1>0, <2>1, <2>2, <2>3, <2>4 DEF CopiesBacked, Backed
<1>5. ASSUME NEW w \in Workers, Forgotten(w) \/ Crashed(w) PROVE CopiesBacked'
  <2>1. \A v \in Workers : worker'[v].seen \in {worker[v].seen, Fresh}
    BY <1>5 DEF Forgotten, Crashed, Works, Idles, IdleWorker
  <2> QED
    BY <1>1, <1>5, <2>1 DEF Forgotten, Crashed, CopiesBacked, Backed
<1> QED
  BY <1>2, <1>3, <1>4, <1>5 DEF Moves, WorkerMoves
-----------------------------------------------------------------------------
(* How often findings are stored. *)

LEMMA Sizes ==
    ASSUME NEW S, IsFiniteSet(S), NEW x
    PROVE  /\ Cardinality(S) \in Nat
           /\ IsFiniteSet(S \union {x})
           /\ IsFiniteSet(S \ {x})
           /\ x \notin S => Cardinality(S \union {x}) = Cardinality(S) + 1
           /\ x \in S => Cardinality(S \ {x}) = Cardinality(S) - 1
           /\ x \notin S => S \ {x} = S
BY FS_AddElement, FS_RemoveElement, FS_CardinalityType

LEMMA FillingMoves ==
    ASSUME NEW w \in Workers, Works(w), NEW c
    PROVE  Filling(c)' = IF worker'[w].pc = "work" /\ worker'[w].of = {c}
                         THEN Filling(c) \union {w} ELSE Filling(c) \ {w}
BY DEF Works, Filling

LEMMA BalanceKept ==
    ASSUME TypeOK, NEW c \in Capabilities, Balanced(c), Moves
    PROVE  Balanced(c)'
<1>0. /\ stored \in [Capabilities -> Nat] /\ queued \in [Capabilities -> Nat]
      /\ asked \in [Capabilities -> Nat]
      /\ stored[c] \in Nat /\ queued[c] \in Nat /\ asked[c] \in Nat /\ crashes \in Nat
  BY DEF TypeOK
<1>1. /\ IsFiniteSet(Filling(c)) /\ Cardinality(Filling(c)) \in Nat
      /\ stored[c] + queued[c] + Cardinality(Filling(c)) <= asked[c] + crashes
  BY Sizes DEF Balanced
<1>2. ASSUME NEW k \in Clients, Requested(k) PROVE Balanced(c)'
  <2>1. Filling(c)' = Filling(c)
    BY <1>2 DEF Requested, Filling
  <2>2. /\ stored' = stored /\ crashes' = crashes
        /\ \/ queued'[c] = queued[c] /\ asked'[c] = asked[c]
           \/ queued'[c] = queued[c] + 1 /\ asked'[c] = asked[c] + 1
    BY <1>0, <1>2 DEF Requested
  <2> QED
    BY <1>0, <1>1, <2>1, <2>2 DEF Balanced
<1>3. ASSUME NEW w \in Workers, NEW d \in Capabilities, Begun(w, d) PROVE Balanced(c)'
  <2>1. w \notin Filling(c)
    BY <1>3 DEF Begun, Begins, Filling
  <2>2. Filling(c)' = IF d = c THEN Filling(c) \union {w} ELSE Filling(c) \ {w}
    BY <1>3, FillingMoves DEF Begun, Begins
  <2>3. /\ IsFiniteSet(Filling(c)')
        /\ Cardinality(Filling(c)') = Cardinality(Filling(c)) + IF d = c THEN 1 ELSE 0
    <3> DEFINE F == Filling(c)
    <3>1. /\ IsFiniteSet(F \union {w}) /\ Cardinality(F \union {w}) = Cardinality(F) + 1
          /\ F \ {w} = F /\ Cardinality(F) \in Nat
      BY <1>1, <2>1, Sizes
    <3> QED
      BY <1>1, <2>2, <3>1
  <2>4. queued'[c] = queued[c] - IF d = c THEN 1 ELSE 0
    BY <1>0, <1>3 DEF Begun
  <2>5. stored' = stored /\ asked' = asked /\ crashes' = crashes
    BY <1>3 DEF Begun
  <2> QED
    BY <1>0, <1>1, <2>3, <2>4, <2>5 DEF Balanced
<1>4. ASSUME NEW w \in Workers, NEW d \in Capabilities, NEW n \in 0 .. 1, Ended(w, d, n)
      PROVE  Balanced(c)'
  <2>1. w \in Filling(c) <=> d = c
    BY <1>4 DEF Ended, Ends, Filling
  <2>2. Filling(c)' = Filling(c) \ {w}
    BY <1>4, FillingMoves DEF Ended, Ends
  <2>3. /\ IsFiniteSet(Filling(c)')
        /\ Cardinality(Filling(c)') = Cardinality(Filling(c)) - IF d = c THEN 1 ELSE 0
    <3> DEFINE F == Filling(c)
    <3>1. /\ IsFiniteSet(F \ {w}) /\ Cardinality(F) \in Nat
          /\ w \in F => Cardinality(F \ {w}) = Cardinality(F) - 1
          /\ w \notin F => F \ {w} = F
      BY <1>1, Sizes
    <3>2. CASE d = c
      BY <2>1, <2>2, <3>1, <3>2
    <3>3. CASE d # c
      <4>1. Filling(c)' = F
        BY <2>1, <2>2, <3>1, <3>3
      <4>2. Cardinality(F) = Cardinality(F) - IF d = c THEN 1 ELSE 0
        BY <1>1, <3>3
      <4> QED
        BY <1>1, <4>1, <4>2
    <3> QED
      BY <3>2, <3>3
  <2>4. stored'[c] = IF d = c THEN stored[c] + n ELSE stored[c]
    BY <1>0, <1>4 DEF Ended
  <2>5. queued' = queued /\ asked' = asked /\ crashes' = crashes /\ n \in 0 .. 1
    BY <1>4 DEF Ended
  <2> QED
    BY <1>0, <1>1, <2>3, <2>4, <2>5 DEF Balanced
<1>5. ASSUME NEW w \in Workers, Forgotten(w) \/ Crashed(w) PROVE Balanced(c)'
  <2>1. Works(w) /\ worker'[w].pc = "idle"
    BY <1>5 DEF Forgotten, Crashed, Idles, IdleWorker
  <2>2. Filling(c)' = Filling(c) \ {w}
    BY <2>1, FillingMoves
  <2>3. IsFiniteSet(Filling(c)') /\ Cardinality(Filling(c)') <= Cardinality(Filling(c))
                                /\ Cardinality(Filling(c)') \in Nat
    BY <1>1, <2>2, FS_Subset, FS_CardinalityType
  <2>4. /\ stored' = stored /\ asked' = asked
        /\ \/ queued'[c] = queued[c] /\ crashes' = crashes
           \/ queued'[c] \in {queued[c], queued[c] + 1} /\ crashes' = crashes + 1
    BY <1>0, <1>5 DEF Forgotten, Crashed
  <2> QED
    BY <1>0, <1>1, <2>3, <2>4 DEF Balanced
<1> QED
  BY <1>2, <1>3, <1>4, <1>5 DEF Moves, WorkerMoves
-----------------------------------------------------------------------------
(* The theorems. *)

LEMMA FillInvInit == Init => FillInv
<1> SUFFICES ASSUME Init PROVE FillInv
  OBVIOUS
<1>0. Fresh \in Column /\ Fresh.ready = Imported
  BY FreshType
<1>1. TypeOK
  <2>1. /\ client \in [Clients -> Request]
        /\ \A k \in Clients : client[k].pc = "idle" <=> client[k].todo = {}
    BY <1>0 DEF Init, IdleClient, Request
  <2>2. worker \in [Workers -> FillTask]
    BY <1>0 DEF Init, IdleWorker, FillTask
  <2>3. /\ column \in Column /\ queued \in [Capabilities -> Nat]
        /\ stored \in [Capabilities -> Nat] /\ asked \in [Capabilities -> Nat]
    BY <1>0 DEF Init
  <2>4. /\ requests \in 0 .. MaxRequests /\ crashes \in 0 .. faults
        /\ faults \in 0 .. MaxFaults
    BY CapabilityBounds DEF Init
  <2> QED
    BY <2>1, <2>2, <2>3, <2>4 DEF TypeOK, Request, FillTask
<1>2. CopiesBacked
  BY <1>0 DEF Init, IdleClient, IdleWorker, CopiesBacked, Backed
<1>3. ASSUME NEW c \in Capabilities PROVE Balanced(c)
  <2>1. Filling(c) = {}
    BY DEF Init, IdleWorker, Filling
  <2> QED
    BY <2>1, FS_EmptySet DEF Init, Balanced
<1> QED
  BY <1>1, <1>2, <1>3 DEF FillInv

LEMMA FillInvStep == FillInv /\ [Next]_vars => FillInv'
<1> SUFFICES ASSUME FillInv, [Next]_vars PROVE FillInv'
  OBVIOUS
<1>1. CASE Next
  <2>1. TypeOK /\ CopiesBacked /\ Moves /\ \A c \in Capabilities : Balanced(c)
    BY <1>1, StepMoves DEF FillInv
  <2> QED
    BY <1>1, <2>1, TypesKept, BackedKept, BalanceKept DEF FillInv
<1>2. CASE UNCHANGED vars
  BY <1>2 DEF vars, FillInv, TypeOK, CopiesBacked, Backed, Balanced, Filling
<1> QED
  BY <1>1, <1>2

THEOREM FillInvariance == Spec => []FillInv
BY FillInvInit, FillInvStep, PTL DEF Spec

\* Everything has its type; a request that is at work has something left to queue.
THEOREM FillTypeCorrect == Spec => []TypeOK
<1>1. FillInv => TypeOK
  BY DEF FillInv
<1> QED
  BY <1>1, FillInvariance, PTL

\* However many sessions overwrite the column, what it says is there is there.
THEOREM AvailableAlwaysBacked == Spec => []AvailableIsBacked
<1>1. FillInv => AvailableIsBacked
  BY DEF FillInv, CopiesBacked, Backed, AvailableIsBacked
<1> QED
  BY <1>1, FillInvariance, PTL

\* A fill is stored once for each time it was queued, and once more for a crash.
THEOREM DuplicatesAlwaysBounded == Spec => []DuplicatesAreBounded
<1>1. ASSUME FillInv, NEW c \in Capabilities PROVE stored[c] <= asked[c] + crashes
  <2>1. stored[c] \in Nat /\ queued[c] \in Nat /\ asked[c] \in Nat /\ crashes \in Nat
    BY <1>1 DEF FillInv, TypeOK
  <2>2. /\ IsFiniteSet(Filling(c))
        /\ stored[c] + queued[c] + Cardinality(Filling(c)) <= asked[c] + crashes
    BY <1>1 DEF FillInv, Balanced
  <2>3. Cardinality(Filling(c)) \in Nat
    BY <2>2, FS_CardinalityType
  <2> QED
    BY <2>1, <2>2, <2>3
<1>2. FillInv => DuplicatesAreBounded
  BY <1>1 DEF DuplicatesAreBounded
<1> QED
  BY <1>2, FillInvariance, PTL
=============================================================================
