---------------------------- MODULE AiAuditProofs ----------------------------
(***************************************************************************)
(* Proofs about AiAudit for any number of jobs, slots, tags and units, any *)
(* quota and cap, and any faults.                                          *)
(***************************************************************************)
EXTENDS AiAudit, FiniteSetTheorems, TLAPS

\* A tag has one holder, whose pass is that of the message; a slot without one
\* serves a forced audit; and whoever works has a job.
Holding ==
    /\ \A v, w \in Auditors :
          auditor[v].tag = auditor[w].tag /\ auditor[v].tag \in AuditTags => v = w
    /\ \A w \in Auditors : auditor[w].tag \in AuditTags =>
          /\ inbox[auditor[w].tag].job = auditor[w].job
          /\ inbox[auditor[w].tag].kind = auditor[w].kind
          /\ auditor[w].job \in Audited
    /\ \A w \in Auditors : auditor[w].pc # "idle" => auditor[w].job \in Audited
    /\ \A w \in Auditors : auditor[w].tag \notin AuditTags => auditor[w].kind = "audit"
    /\ \A t \in AuditTags : inbox[t] = FreeRequest \/ inbox[t].job \in Audited

TypeInv == AuditTypeOK /\ Holding

\* Slot w goes to p with its message, at unit u with the answers g.
Went(w, p, u, g) ==
    /\ auditor' \in [Auditors -> AuditSlot]
    /\ \A v \in Auditors \ {w} : auditor'[v] = auditor[v]
    /\ auditor'[w].tag = auditor[w].tag
    /\ auditor'[w].job = auditor[w].job
    /\ auditor'[w].kind = auditor[w].kind
    /\ auditor'[w].pc = p
    /\ auditor'[w].unit = u
    /\ auditor'[w].got = g

\* Slot w becomes idle.
Rested(w) ==
    /\ auditor' \in [Auditors -> AuditSlot]
    /\ \A v \in Auditors \ {w} : auditor'[v] = auditor[v]
    /\ auditor'[w] = IdleAuditor
-----------------------------------------------------------------------------
(* How a slot moves. *)

LEMMA SlotFields ==
    ASSUME AuditTypeOK, NEW w \in Auditors
    PROVE  /\ auditor[w] \in AuditSlot
           /\ auditor[w].tag \in AuditTags \union {NoAuditTag}
           /\ auditor[w].job \in Audited \union {NoAudit}
           /\ auditor[w].kind \in Kinds
           /\ auditor[w].pc \in AuditSteps \union {"idle"}
           /\ auditor[w].unit \in 1 .. Units
           /\ auditor[w].got \in SUBSET (1 .. Units)
BY DEF AuditTypeOK, AuditSlot

LEMMA IdleType == IdleAuditor \in AuditSlot
BY AuditBoundAssumption DEF IdleAuditor, AuditSlot, Kinds

LEMMA StepMoves ==
    ASSUME AuditTypeOK, NEW w \in Auditors, NEW p \in AuditSteps, Step(w, p)
    PROVE  Went(w, p, auditor[w].unit, auditor[w].got)
BY SlotFields DEF Step, AuditTypeOK, AuditSlot, Went

LEMMA FinishMoves ==
    ASSUME AuditTypeOK, NEW w \in Auditors, Finish(w)
    PROVE  Went(w, "ack", auditor[w].unit, {})
<1> DEFINE e == [auditor[w] EXCEPT !.pc = "ack", !.got = {}]
<1>1. auditor[w] \in AuditSlot
  BY SlotFields
<1>2. e \in AuditSlot /\ e.pc = "ack" /\ e.got = {} /\ e.unit = auditor[w].unit
  BY <1>1 DEF AuditSlot, AuditSteps
<1>3. e.tag = auditor[w].tag /\ e.job = auditor[w].job /\ e.kind = auditor[w].kind
  BY <1>1 DEF AuditSlot
<1>4. auditor' = [auditor EXCEPT ![w] = e]
  BY DEF Finish
<1> HIDE DEF e
<1> QED
  BY <1>2, <1>3, <1>4 DEF AuditTypeOK, Went

LEMMA NextMoves ==
    ASSUME AuditTypeOK, NEW w \in Auditors, NEW g \in SUBSET (1 .. Units), NextUnit(w, g)
    PROVE  \/ auditor[w].unit = Units /\ Went(w, "commit", Units, g)
           \/ /\ auditor[w].unit + 1 \in 1 .. Units
              /\ Went(w, "unit", auditor[w].unit + 1, g)
<1> DEFINE s == auditor[w]
<1>1. s \in AuditSlot /\ s.unit \in 1 .. Units
  BY SlotFields
<1>2. CASE s.unit = Units
  <2> DEFINE e == [s EXCEPT !.pc = "commit", !.got = g]
  <2>1. auditor' = [auditor EXCEPT ![w] = e]
    BY <1>2, AuditBoundAssumption DEF NextUnit
  <2>2. e \in AuditSlot /\ e.pc = "commit" /\ e.got = g /\ e.unit = Units
    BY <1>1, <1>2 DEF AuditSlot, AuditSteps
  <2>3. e.tag = s.tag /\ e.job = s.job /\ e.kind = s.kind
    BY <1>1 DEF AuditSlot
  <2> HIDE DEF e
  <2>4. Went(w, "commit", Units, g)
    BY <2>1, <2>2, <2>3 DEF AuditTypeOK, Went
  <2> QED
    BY <1>2, <2>4
<1>3. CASE s.unit # Units
  <2> DEFINE e == [s EXCEPT !.pc = "unit", !.unit = s.unit + 1, !.got = g]
  <2>1. auditor' = [auditor EXCEPT ![w] = e]
    BY <1>3 DEF NextUnit
  <2>2. s.unit + 1 \in 1 .. Units
    BY <1>1, <1>3, AuditBoundAssumption
  <2>3. e \in AuditSlot /\ e.pc = "unit" /\ e.got = g /\ e.unit = s.unit + 1
    BY <1>1, <2>2 DEF AuditSlot, AuditSteps
  <2>4. e.tag = s.tag /\ e.job = s.job /\ e.kind = s.kind
    BY <1>1 DEF AuditSlot
  <2> HIDE DEF e
  <2>5. Went(w, "unit", s.unit + 1, g)
    BY <2>1, <2>3, <2>4 DEF AuditTypeOK, Went
  <2> QED
    BY <2>2, <2>5
<1> QED
  BY <1>2, <1>3

LEMMA RestMoves ==
    ASSUME AuditTypeOK, NEW w \in Auditors, Rest(w)
    PROVE  Rested(w)
BY IdleType DEF Rest, AuditTypeOK, Rested
-----------------------------------------------------------------------------
(* Holding survives every kind of step. *)

LEMMA WentHolds ==
    ASSUME TypeInv, NEW w \in Auditors, NEW p \in AuditSteps, NEW u, NEW g,
           auditor[w].pc # "idle", Went(w, p, u, g), inbox' = inbox
    PROVE  Holding'
BY DEF TypeInv, Holding, Went

LEMMA RestedHolds ==
    ASSUME TypeInv, NEW w \in Auditors, Rested(w), inbox' = inbox
    PROVE  Holding'
<1>1. auditor'[w].tag = NoAuditTag /\ auditor'[w].pc = "idle" /\ auditor'[w].kind = "audit"
  BY DEF Rested, IdleAuditor
<1> QED
  BY <1>1, AuditSetsAssumption DEF TypeInv, Holding, Rested

\* A new message goes under a tag nobody holds.
LEMMA DelayHolds ==
    ASSUME TypeInv, NEW j \in Audited, NEW k \in Kinds, Delay(j, k), auditor' = auditor
    PROVE  /\ inbox' \in [AuditTags -> Request]
           /\ Holding'
           /\ \A t \in AuditTags : inbox[t] = FreeRequest \/ inbox'[t] = inbox[t]
           /\ \E t \in AuditTags : inbox'[t].job = j /\ inbox'[t].kind = k
<1>1. PICK t \in AuditTags :
          /\ inbox[t] = FreeRequest
          /\ inbox' = [inbox EXCEPT ![t] = [job |-> j, kind |-> k, first |-> "unset"]]
  BY DEF Delay
<1>2. inbox' \in [AuditTags -> Request]
  BY <1>1 DEF TypeInv, AuditTypeOK, Request, Attempt
<1>3. inbox[t].job \notin Audited
  BY <1>1, AuditSetsAssumption DEF FreeRequest
<1>4. \A s \in AuditTags : s # t => inbox'[s] = inbox[s]
  BY <1>1 DEF TypeInv, AuditTypeOK
<1>5. inbox'[t].job = j /\ inbox'[t].kind = k
  BY <1>1 DEF TypeInv, AuditTypeOK
<1>6. \A w \in Auditors : auditor[w].tag \in AuditTags => auditor[w].tag # t
  BY <1>3 DEF TypeInv, Holding
<1>7. Holding'
  BY <1>4, <1>5, <1>6 DEF TypeInv, Holding
<1> QED
  BY <1>1, <1>2, <1>4, <1>5, <1>7

\* The message under a tag only gets older.
LEMMA OlderHolds ==
    ASSUME TypeInv, NEW t, t \in AuditTags => inbox[t].job \in Audited,
           NEW f \in Attempt, inbox' = [inbox EXCEPT ![t].first = f],
           \/ auditor' = auditor
           \/ \E w \in Auditors : Rested(w)
    PROVE  /\ inbox' \in [AuditTags -> Request]
           /\ Holding'
           /\ \A s \in AuditTags : inbox'[s].job = inbox[s].job /\ inbox'[s].kind = inbox[s].kind
<1>1. inbox' \in [AuditTags -> Request]
  <2> SUFFICES ASSUME NEW s \in AuditTags
               PROVE  inbox'[s] \in Request
    BY DEF TypeInv, AuditTypeOK
  <2>1. inbox[s] \in Request
    BY DEF TypeInv, AuditTypeOK
  <2>2. CASE s # t
    BY <2>1, <2>2 DEF TypeInv, AuditTypeOK
  <2>3. CASE s = t
    <3>1. inbox'[s] = [inbox[s] EXCEPT !.first = f]
      BY <2>3 DEF TypeInv, AuditTypeOK
    <3> QED
      BY <2>1, <3>1 DEF Request
  <2> QED
    BY <2>2, <2>3
<1>2. \A s \in AuditTags : /\ inbox'[s].job = inbox[s].job
                           /\ inbox'[s].kind = inbox[s].kind
                           /\ s # t => inbox'[s] = inbox[s]
  BY DEF TypeInv, AuditTypeOK, Request
<1>3. \A s \in AuditTags : inbox'[s] = FreeRequest \/ inbox'[s].job \in Audited
  BY <1>2 DEF TypeInv, Holding
<1>4. CASE auditor' = auditor
  <2>1. \A w \in Auditors : auditor'[w].tag \in AuditTags =>
            /\ inbox'[auditor'[w].tag].job = auditor'[w].job
            /\ inbox'[auditor'[w].tag].kind = auditor'[w].kind
            /\ auditor'[w].job \in Audited
    BY <1>2, <1>4 DEF TypeInv, Holding
  <2>2. /\ \A v, w \in Auditors :
              auditor'[v].tag = auditor'[w].tag /\ auditor'[v].tag \in AuditTags => v = w
        /\ \A w \in Auditors : auditor'[w].pc # "idle" => auditor'[w].job \in Audited
        /\ \A w \in Auditors : auditor'[w].tag \notin AuditTags => auditor'[w].kind = "audit"
    BY <1>4 DEF TypeInv, Holding
  <2> QED
    BY <1>1, <1>2, <1>3, <2>1, <2>2 DEF Holding
<1>5. ASSUME NEW w \in Auditors, Rested(w)
      PROVE  Holding'
  <2>1. auditor'[w].tag = NoAuditTag /\ auditor'[w].pc = "idle" /\ auditor'[w].kind = "audit"
    BY <1>5 DEF Rested, IdleAuditor
  <2> QED
    BY <1>2, <1>3, <1>5, <2>1, AuditSetsAssumption DEF TypeInv, Holding, Rested
<1> QED
  BY <1>1, <1>2, <1>4, <1>5

\* A message that is done with goes, and its holder rests.
LEMMA FreeHolds ==
    ASSUME TypeInv, NEW w \in Auditors, Rested(w),
           inbox' = [t \in AuditTags |-> IF t = auditor[w].tag THEN FreeRequest ELSE inbox[t]]
    PROVE  inbox' \in [AuditTags -> Request] /\ Holding'
<1>1. FreeRequest \in Request
  BY DEF FreeRequest, Request, Kinds, Attempt
<1>2. inbox' \in [AuditTags -> Request]
  BY <1>1 DEF TypeInv, AuditTypeOK
<1>3. auditor'[w].tag = NoAuditTag /\ auditor'[w].pc = "idle" /\ auditor'[w].kind = "audit"
  BY DEF Rested, IdleAuditor
<1>4. \A v \in Auditors : auditor'[v].tag \in AuditTags =>
          /\ v # w
          /\ auditor'[v] = auditor[v]
          /\ inbox'[auditor[v].tag] = inbox[auditor[v].tag]
  BY <1>3, AuditSetsAssumption DEF TypeInv, Holding, Rested
<1>5. \A t \in AuditTags : inbox'[t] = FreeRequest \/ inbox'[t].job \in Audited
  BY DEF TypeInv, Holding
<1>6. /\ \A v \in Auditors : auditor'[v].pc # "idle" => auditor'[v].job \in Audited
      /\ \A v \in Auditors : auditor'[v].tag \notin AuditTags => auditor'[v].kind = "audit"
  BY <1>3 DEF TypeInv, Holding, Rested
<1>7. \A u, v \in Auditors :
          auditor'[u].tag = auditor'[v].tag /\ auditor'[u].tag \in AuditTags => u = v
  BY <1>4 DEF TypeInv, Holding
<1>8. \A v \in Auditors : auditor'[v].tag \in AuditTags =>
          /\ inbox'[auditor'[v].tag].job = auditor'[v].job
          /\ inbox'[auditor'[v].tag].kind = auditor'[v].kind
          /\ auditor'[v].job \in Audited
  BY <1>4 DEF TypeInv, Holding
<1> QED
  BY <1>2, <1>5, <1>6, <1>7, <1>8 DEF Holding

\* A slot that starts to work.
LEMMA StartHolds ==
    ASSUME TypeInv, NEW w \in Auditors, NEW e \in AuditSlot, e.job \in Audited,
           auditor' = [auditor EXCEPT ![w] = e], inbox' = inbox,
           \/ /\ e.tag \in AuditTags
              /\ \A v \in Auditors : auditor[v].tag # e.tag
              /\ inbox[e.tag].job = e.job /\ inbox[e.tag].kind = e.kind
           \/ e.tag \notin AuditTags /\ e.kind = "audit"
    PROVE  auditor' \in [Auditors -> AuditSlot] /\ Holding'
<1>1. /\ auditor' \in [Auditors -> AuditSlot]
      /\ auditor'[w] = e
      /\ \A v \in Auditors \ {w} : auditor'[v] = auditor[v]
  BY DEF TypeInv, AuditTypeOK
<1> QED
  BY <1>1 DEF TypeInv, Holding

LEMMA ExcuseType ==
    ASSUME TypeInv, NEW w \in Auditors, auditor[w].pc # "idle", Excuse(w)
    PROVE  excused' \subseteq Pass
<1>1. PassOf(w) \in Pass
  BY SlotFields DEF TypeInv, Holding, PassOf, Pass
<1> QED
  BY <1>1 DEF TypeInv, AuditTypeOK, Excuse

LEMMA MishapType ==
    ASSUME AuditTypeOK, NEW kind, Mishap(kind)
    PROVE  mishaps' \in 0 .. MaxAuditFaults /\ mishaps' = mishaps + 1
BY AuditBoundAssumption DEF AuditTypeOK, Mishap

LEMMA DrainNextType ==
    ASSUME AuditTypeOK, NEW j, DrainNext(j)
    PROVE  drain' \in [pc : {"off", "send", "delete"}, job : Audited \union {NoAudit},
                       todo : SUBSET Audited]
BY DEF AuditTypeOK, DrainNext
-----------------------------------------------------------------------------
(* Type correctness. *)

\* A slot that goes on and changes nothing but excuses and faults keeps the types.
LEMMA GoOnType ==
    ASSUME TypeInv, NEW w \in Auditors, NEW p \in AuditSteps, NEW u, NEW g,
           auditor[w].pc # "idle", Went(w, p, u, g),
           \/ excused' = excused
           \/ Excuse(w),
           \/ mishaps' = mishaps
           \/ \E kind \in AuditFaults : Mishap(kind),
           UNCHANGED <<asked, inbox, rerun, drain>>,
           verdict' \in [Audited -> [1 .. Units -> {"none", "answered", "pending_retry"}]],
           text' \in [Audited -> SUBSET (1 .. Units)],
           notes' \in [Audited \X Subjects -> Nat],
           spent' \in Nat
    PROVE  TypeInv'
<1>1. excused' \subseteq Pass
  BY ExcuseType DEF TypeInv, AuditTypeOK
<1>2. mishaps' \in 0 .. MaxAuditFaults
  BY MishapType DEF TypeInv, AuditTypeOK
<1>3. Holding'
  BY WentHolds
<1>4. auditor' \in [Auditors -> AuditSlot]
  BY DEF Went
<1> QED
  BY <1>1, <1>2, <1>3, <1>4 DEF TypeInv, AuditTypeOK

LEMMA AskType ==
    ASSUME TypeInv, NEW j \in Audited, NEW k \in Kinds, Ask(j, k)
    PROVE  TypeInv'
<1>1. inbox' \in [AuditTags -> Request] /\ Holding'
  BY DelayHolds DEF Ask
<1>2. asked' \subseteq Pass
  BY DEF Ask, TypeInv, AuditTypeOK, Pass
<1> QED
  BY <1>1, <1>2 DEF Ask, TypeInv, AuditTypeOK

LEMMA DrainType ==
    ASSUME TypeInv, DrainStep \/ (\E j \in Audited : DrainSkips(j)) \/ DrainDies
    PROVE  TypeInv'
<1>1. CASE DrainScan
  BY <1>1 DEF DrainScan, TypeInv, AuditTypeOK, Holding
<1>2. CASE DrainDelete
  <2>1. drain' \in [pc : {"off", "send", "delete"}, job : Audited \union {NoAudit},
                    todo : SUBSET Audited]
    BY <1>2, DrainNextType DEF DrainDelete, TypeInv
  <2>2. Holding'
    BY <1>2 DEF DrainDelete, TypeInv, Holding
  <2> QED
    BY <1>2, <2>1, <2>2 DEF DrainDelete, TypeInv, AuditTypeOK
<1>3. ASSUME NEW j \in Audited, DrainSend(j)
      PROVE  TypeInv'
  <2>1. inbox' \in [AuditTags -> Request] /\ Holding'
    BY <1>3, DelayHolds DEF DrainSend, Kinds
  <2>2. drain' \in [pc : {"off", "send", "delete"}, job : Audited \union {NoAudit},
                    todo : SUBSET Audited]
    BY <1>3 DEF DrainSend, TypeInv, AuditTypeOK
  <2> QED
    BY <1>3, <2>1, <2>2 DEF DrainSend, TypeInv, AuditTypeOK
<1>4. ASSUME NEW j \in Audited, DrainSkips(j)
      PROVE  TypeInv'
  <2>1. drain' \in [pc : {"off", "send", "delete"}, job : Audited \union {NoAudit},
                    todo : SUBSET Audited]
    BY <1>4, DrainNextType DEF DrainSkips, TypeInv
  <2>2. mishaps' \in 0 .. MaxAuditFaults
    BY <1>4, MishapType DEF DrainSkips, TypeInv
  <2>3. Holding'
    BY <1>4 DEF DrainSkips, TypeInv, Holding
  <2> QED
    BY <1>4, <2>1, <2>2, <2>3 DEF DrainSkips, TypeInv, AuditTypeOK
<1>5. CASE DrainDies
  <2>1. mishaps' \in 0 .. MaxAuditFaults
    BY <1>5, MishapType DEF DrainDies, TypeInv
  <2>2. Holding'
    BY <1>5 DEF DrainDies, TypeInv, Holding
  <2>3. drain' \in [pc : {"off", "send", "delete"}, job : Audited \union {NoAudit},
                    todo : SUBSET Audited]
    BY <1>5 DEF DrainDies
  <2> QED
    BY <1>5, <2>1, <2>2, <2>3 DEF DrainDies, TypeInv, AuditTypeOK
<1> QED
  BY <1>1, <1>2, <1>3, <1>4, <1>5 DEF DrainStep

LEMMA StartType ==
    ASSUME TypeInv, NEW w \in Auditors,
           (\E t \in AuditTags : Take(w, t)) \/ (\E j \in Audited : Rerun(w, j))
    PROVE  TypeInv'
<1>1. ASSUME NEW t \in AuditTags, Take(w, t)
      PROVE  TypeInv'
  <2> DEFINE e == [IdleAuditor EXCEPT !.tag = t, !.job = inbox[t].job,
                                      !.kind = inbox[t].kind, !.pc = "gate"]
  <2>1. inbox[t] \in Request /\ inbox[t].job \in Audited /\ inbox[t].kind \in Kinds
    BY <1>1 DEF Take, TypeInv, AuditTypeOK, Holding, Request
  <2>2. e \in AuditSlot /\ e.tag = t /\ e.job = inbox[t].job /\ e.kind = inbox[t].kind
    BY <2>1, IdleType DEF IdleAuditor, AuditSlot, AuditSteps
  <2>3. auditor' = [auditor EXCEPT ![w] = e]
    BY <1>1 DEF Take
  <2> HIDE DEF e
  <2>4. inbox' = inbox /\ \A v \in Auditors : auditor[v].tag # t
    BY <1>1 DEF Take, Taken
  <2>5. auditor' \in [Auditors -> AuditSlot] /\ Holding'
    BY <2>1, <2>2, <2>3, <2>4, StartHolds
  <2> QED
    BY <1>1, <2>5 DEF Take, TypeInv, AuditTypeOK
<1>2. ASSUME NEW j \in Audited, Rerun(w, j)
      PROVE  TypeInv'
  <2> DEFINE e == [IdleAuditor EXCEPT !.job = j, !.pc = "gate"]
  <2>1. e \in AuditSlot /\ e.tag = NoAuditTag /\ e.job = j /\ e.kind = "audit"
    BY IdleType DEF IdleAuditor, AuditSlot, AuditSteps
  <2>2. auditor' = [auditor EXCEPT ![w] = e]
    BY <1>2 DEF Rerun
  <2> HIDE DEF e
  <2>3. auditor' \in [Auditors -> AuditSlot] /\ Holding'
    BY <1>2, <2>1, <2>2, AuditSetsAssumption, StartHolds DEF Rerun
  <2> QED
    BY <1>2, <2>3 DEF Rerun, TypeInv, AuditTypeOK
<1> QED
  BY <1>1, <1>2

\* What a slot does with its pass is one of four things: it goes on, it gives its
\* message back older, it frees it, or it just rests.
LEMMA PassMoves ==
    ASSUME TypeInv, NEW w \in Auditors, PassStep(w) \/ PassException(w) \/ PassFault(w)
    PROVE  /\ auditor[w].pc # "idle"
           /\ UNCHANGED <<asked, rerun, drain>>
           /\ \/ /\ inbox' = inbox
                 /\ \E p \in AuditSteps, u \in 1 .. Units, g \in SUBSET (1 .. Units) :
                       Went(w, p, u, g)
              \/ Rested(w) /\ inbox' = inbox
              \/ Rested(w) /\ FinishPass(w)
              \/ Rested(w) /\ RetryLater(w)
<1>0. AuditTypeOK
  BY DEF TypeInv
<1>1. ASSUME NEW p \in AuditSteps, Step(w, p)
      PROVE  Went(w, p, auditor[w].unit, auditor[w].got)
  BY <1>0, <1>1, StepMoves
<1>2. ASSUME Finish(w)
      PROVE  Went(w, "ack", auditor[w].unit, {})
  BY <1>0, <1>2, FinishMoves
<1>3. ASSUME NEW g \in SUBSET (1 .. Units), NextUnit(w, g)
      PROVE  \E p \in AuditSteps, u \in 1 .. Units, h \in SUBSET (1 .. Units) : Went(w, p, u, h)
  <2>1. CASE auditor[w].unit = Units /\ Went(w, "commit", Units, g)
    <3>1. "commit" \in AuditSteps /\ Units \in 1 .. Units
      BY AuditBoundAssumption DEF AuditSteps
    <3> QED
      BY <2>1, <3>1
  <2>2. CASE auditor[w].unit + 1 \in 1 .. Units /\ Went(w, "unit", auditor[w].unit + 1, g)
    <3>1. "unit" \in AuditSteps
      BY DEF AuditSteps
    <3> QED
      BY <2>2, <3>1
  <2> QED
    BY <1>0, <1>3, <2>1, <2>2, NextMoves
<1>4. ASSUME Rest(w)
      PROVE  Rested(w)
  BY <1>0, <1>4, RestMoves
<1>5. auditor[w].unit \in 1 .. Units /\ auditor[w].got \in SUBSET (1 .. Units)
  BY <1>0, SlotFields
<1>6. (auditor[w].got \union {auditor[w].unit}) \in SUBSET (1 .. Units)
  BY <1>5
<1>7. {"gate", "look", "insert", "unit", "call", "commit", "mark", "marking", "ack"} = AuditSteps
  BY DEF AuditSteps
<1> DEFINE Goal == /\ auditor[w].pc # "idle"
                   /\ UNCHANGED <<asked, rerun, drain>>
                   /\ \/ /\ inbox' = inbox
                         /\ \E p \in AuditSteps, u \in 1 .. Units, g \in SUBSET (1 .. Units) :
                               Went(w, p, u, g)
                      \/ Rested(w) /\ inbox' = inbox
                      \/ Rested(w) /\ FinishPass(w)
                      \/ Rested(w) /\ RetryLater(w)
<1>g. ASSUME Gate(w) PROVE Goal
  BY <1>1, <1>5, <1>7, <1>g DEF Gate, Doing
<1>l. ASSUME Look(w) PROVE Goal
  BY <1>1, <1>5, <1>7, <1>l DEF Look, Doing
<1>i. ASSUME Insert(w) PROVE Goal
  BY <1>2, <1>5, <1>7, <1>i DEF Insert, Doing
<1>c. ASSUME CheckCap(w) PROVE Goal
  BY <1>1, <1>3, <1>5, <1>7, <1>c DEF CheckCap, Doing
<1>a. ASSUME CallAnswers(w) PROVE Goal
  BY <1>3, <1>6, <1>a DEF CallAnswers, Doing
<1>f. ASSUME CallFails(w) PROVE Goal
  BY <1>3, <1>5, <1>f DEF CallFails, Doing
<1>o. ASSUME Commit(w) PROVE Goal
  BY <1>2, <1>5, <1>7, <1>o DEF Commit, Doing
<1>m. ASSUME MarkLoad(w) PROVE Goal
  <2> DEFINE silent == {u \in 1 .. Units : verdict[auditor[w].job][u] = "none"}
             p == IF silent = {} THEN "ack" ELSE "marking"
             e == [auditor[w] EXCEPT !.pc = p, !.got = silent]
  <2>1. auditor[w] \in AuditSlot /\ p \in AuditSteps /\ silent \in SUBSET (1 .. Units)
    BY <1>0, SlotFields DEF AuditSteps
  <2>2. auditor' = [auditor EXCEPT ![w] = e]
    BY <1>m DEF MarkLoad
  <2> HIDE DEF p, silent
  <2>3. e \in AuditSlot /\ e.pc = p /\ e.got = silent /\ e.unit = auditor[w].unit
    BY <2>1 DEF AuditSlot
  <2>4. e.tag = auditor[w].tag /\ e.job = auditor[w].job /\ e.kind = auditor[w].kind
    BY <2>1 DEF AuditSlot
  <2> HIDE DEF e
  <2>5. Went(w, p, auditor[w].unit, silent)
    BY <1>0, <2>2, <2>3, <2>4 DEF AuditTypeOK, Went
  <2> QED
    BY <1>5, <1>m, <2>1, <2>5 DEF MarkLoad, Doing
<1>n. ASSUME MarkCommit(w) PROVE Goal
  BY <1>2, <1>5, <1>7, <1>n DEF MarkCommit, Doing
<1>p. ASSUME FinishPass(w) PROVE Goal
  BY <1>4, <1>p DEF FinishPass, Doing
<1>r. ASSUME RetryLater(w) PROVE Goal
  BY <1>4, <1>r DEF RetryLater, PassRaises
<1>s. ASSUME StopTrying(w) PROVE Goal
  BY <1>1, <1>2, <1>5, <1>7, <1>s DEF StopTrying, PassRaises
<1>t. ASSUME RerunFails(w) PROVE Goal
  BY <1>4, <1>t DEF RerunFails, PassRaises
<1>h. ASSUME HandlerFails(w) PROVE Goal
  BY <1>2, <1>5, <1>7, <1>h DEF HandlerFails, PassRaises
<1>u. ASSUME FailsOpen(w) PROVE Goal
  BY <1>1, <1>5, <1>7, <1>u DEF FailsOpen, Doing
<1>v. ASSUME ChargeFails(w) PROVE Goal
  BY <1>3, <1>6, <1>v DEF ChargeFails, Doing
<1>w. ASSUME InsertFails(w) PROVE Goal
  BY <1>2, <1>5, <1>7, <1>w DEF InsertFails, Doing
<1>x. ASSUME Dies(w) PROVE Goal
  BY <1>4, <1>x DEF Dies, Doing
<1>y. ASSUME IsCut(w) PROVE Goal
  BY <1>2, <1>5, <1>7, <1>y DEF IsCut, Doing
<1> HIDE DEF Goal
<1>q. Goal
  BY Zenon, <1>g, <1>l, <1>i, <1>c, <1>a, <1>f, <1>o, <1>m, <1>n, <1>p, <1>r, <1>s, <1>t, <1>h,
     <1>u, <1>v, <1>w, <1>x, <1>y DEF PassStep, PassException, PassFault
<1> QED
  BY <1>q DEF Goal

LEMMA PassData ==
    ASSUME TypeInv, NEW w \in Auditors, PassStep(w) \/ PassException(w) \/ PassFault(w)
    PROVE  /\ verdict' \in [Audited -> [1 .. Units -> {"none", "answered", "pending_retry"}]]
           /\ text' \in [Audited -> SUBSET (1 .. Units)]
           /\ notes' \in [Audited \X Subjects -> Nat]
           /\ spent' \in Nat
           /\ excused' \subseteq Pass
           /\ mishaps' \in 0 .. MaxAuditFaults
<1>1. /\ verdict \in [Audited -> [1 .. Units -> {"none", "answered", "pending_retry"}]]
      /\ text \in [Audited -> SUBSET (1 .. Units)]
      /\ notes \in [Audited \X Subjects -> Nat]
      /\ spent \in Nat
      /\ excused \subseteq Pass
      /\ mishaps \in 0 .. MaxAuditFaults
      /\ auditor[w].got \in SUBSET (1 .. Units)
  BY SlotFields DEF TypeInv, AuditTypeOK
<1>2. /\ auditor[w].pc # "idle"
      /\ Excuse(w) => excused' \subseteq Pass
  BY PassMoves, ExcuseType
<1>3. \A kind : Mishap(kind) => mishaps' \in 0 .. MaxAuditFaults
  BY MishapType DEF TypeInv
<1>4. verdict' \in [Audited -> [1 .. Units -> {"none", "answered", "pending_retry"}]]
  <2>1. CASE Commit(w)
    <3> DEFINE j == auditor[w].job
               new == [u \in 1 .. Units |-> IF u \in auditor[w].got THEN "answered" ELSE verdict[j][u]]
    <3>1. verdict' = verdict \/ verdict' = [verdict EXCEPT ![j] = new]
      BY <2>1 DEF Commit
    <3>2. j \in Audited => new \in [1 .. Units -> {"none", "answered", "pending_retry"}]
      BY <1>1
    <3> HIDE DEF new
    <3> QED
      BY <1>1, <3>1, <3>2
  <2>2. CASE MarkCommit(w)
    BY <1>1, <2>2 DEF MarkCommit
  <2>3. CASE verdict' = verdict
    BY <1>1, <2>3
  <2>4. Commit(w) \/ MarkCommit(w) \/ verdict' = verdict
    BY Zenon DEF PassStep, PassException, PassFault, Gate, Look, Insert, CheckCap, CallAnswers,
       CallFails, MarkLoad, FinishPass, RetryLater, StopTrying, RerunFails, HandlerFails,
       FailsOpen, ChargeFails, InsertFails, Dies, IsCut
  <2> QED
    BY <2>1, <2>2, <2>3, <2>4
<1>5. text' \in [Audited -> SUBSET (1 .. Units)]
  <2>1. CASE Commit(w)
    <3>1. text' = text \/ text' = [text EXCEPT ![auditor[w].job] = auditor[w].got]
      BY <2>1 DEF Commit
    <3> QED
      BY <1>1, <3>1
  <2>2. CASE text' = text
    BY <1>1, <2>2
  <2>3. Commit(w) \/ text' = text
    BY Zenon DEF PassStep, PassException, PassFault, Gate, Look, Insert, CheckCap, CallAnswers,
       CallFails, MarkLoad, MarkCommit, FinishPass, RetryLater, StopTrying, RerunFails,
       HandlerFails, FailsOpen, ChargeFails, InsertFails, Dies, IsCut
  <2> QED
    BY <2>1, <2>2, <2>3
<1>6. notes' \in [Audited \X Subjects -> Nat] /\ spent' \in Nat
  <2>1. CASE Insert(w)
    <3>1. notes' = [notes EXCEPT ![NoteOf(w)] = notes[NoteOf(w)] + 1] /\ spent' = spent
      BY <2>1 DEF Insert
    <3>2. \A n \in Audited \X Subjects : notes'[n] \in Nat
      BY <1>1, <3>1
    <3>3. notes' \in [Audited \X Subjects -> Nat]
      BY <1>1, <3>1, <3>2
    <3> QED
      BY <1>1, <3>1, <3>3
  <2>2. CASE CallAnswers(w)
    BY <1>1, <2>2 DEF CallAnswers
  <2>3. CASE notes' = notes /\ spent' = spent
    BY <1>1, <2>3
  <2>4. Insert(w) \/ CallAnswers(w) \/ (notes' = notes /\ spent' = spent)
    BY Zenon DEF PassStep, PassException, PassFault, Gate, Look, CheckCap, Commit,
       CallFails, MarkLoad, MarkCommit, FinishPass, RetryLater, StopTrying, RerunFails,
       HandlerFails, FailsOpen, ChargeFails, InsertFails, Dies, IsCut
  <2> QED
    BY <2>1, <2>2, <2>3, <2>4
<1>7. excused' = excused \/ Excuse(w)
  BY Zenon DEF PassStep, PassException, PassFault, Gate, Look, Insert, CheckCap, CallAnswers,
     CallFails, Commit, MarkLoad, MarkCommit, FinishPass, RetryLater, StopTrying, RerunFails,
     HandlerFails, FailsOpen, ChargeFails, InsertFails, Dies, IsCut
<1>8. mishaps' = mishaps \/ \E kind : Mishap(kind)
  BY Zenon DEF PassStep, PassException, PassFault, Gate, Look, Insert, CheckCap, CallAnswers,
     CallFails, Commit, MarkLoad, MarkCommit, FinishPass, RetryLater, StopTrying, RerunFails,
     HandlerFails, FailsOpen, ChargeFails, InsertFails, Dies, IsCut
<1> QED
  BY <1>1, <1>2, <1>3, <1>4, <1>5, <1>6, <1>7, <1>8

LEMMA PassType ==
    ASSUME TypeInv, NEW w \in Auditors, PassStep(w) \/ PassException(w) \/ PassFault(w)
    PROVE  TypeInv'
<1>1. /\ auditor[w].pc # "idle"
      /\ UNCHANGED <<asked, rerun, drain>>
  BY PassMoves
<1>2. inbox' \in [AuditTags -> Request] /\ auditor' \in [Auditors -> AuditSlot] /\ Holding'
  <2>1. CASE inbox' = inbox /\ \E p \in AuditSteps, u \in 1 .. Units, g \in SUBSET (1 .. Units) :
                                   Went(w, p, u, g)
    <3>1. PICK p \in AuditSteps, u \in 1 .. Units, g \in SUBSET (1 .. Units) : Went(w, p, u, g)
      BY <2>1
    <3>2. Holding'
      BY <1>1, <2>1, <3>1, WentHolds
    <3> QED
      BY <2>1, <3>1, <3>2 DEF Went, TypeInv, AuditTypeOK
  <2>2. CASE Rested(w) /\ inbox' = inbox
    BY <2>2, RestedHolds DEF Rested, TypeInv, AuditTypeOK
  <2>3. CASE Rested(w) /\ FinishPass(w)
    BY <2>3, FreeHolds DEF FinishPass, Rested
  <2>4. CASE Rested(w) /\ RetryLater(w)
    <3>1. inbox' = [inbox EXCEPT ![auditor[w].tag].first = "set"]
      BY <2>4 DEF RetryLater
    <3>2. auditor[w].tag \in AuditTags => inbox[auditor[w].tag].job \in Audited
      BY DEF TypeInv, Holding
    <3>3. "set" \in Attempt
      BY DEF Attempt
    <3>4. inbox' \in [AuditTags -> Request] /\ Holding'
      BY <2>4, <3>1, <3>2, <3>3, OlderHolds
    <3> QED
      BY <2>4, <3>4 DEF Rested
  <2> QED
    BY <2>1, <2>2, <2>3, <2>4, PassMoves
<1> QED
  BY <1>1, <1>2, PassData DEF TypeInv, AuditTypeOK

LEMMA DayType ==
    ASSUME TypeInv, NEW t \in AuditTags, DayPasses(t)
    PROVE  TypeInv'
<1>1. inbox[t].job \in Audited
  BY DEF DayPasses, TypeInv, Holding, FreeRequest
<1>2. "old" \in Attempt
  BY DEF Attempt
<1>3. inbox' \in [AuditTags -> Request] /\ Holding'
  BY <1>1, <1>2, OlderHolds DEF DayPasses
<1> QED
  BY <1>3 DEF DayPasses, TypeInv, AuditTypeOK

LEMMA InitType == AuditInit => TypeInv
<1> SUFFICES ASSUME AuditInit
             PROVE  TypeInv
  OBVIOUS
<1>1. FreeRequest \in Request
  BY DEF FreeRequest, Request, Kinds, Attempt
<1>2. /\ IdleAuditor.tag = NoAuditTag
      /\ IdleAuditor.pc = "idle"
      /\ IdleAuditor.kind = "audit"
  BY DEF IdleAuditor
<1>3. AuditTypeOK
  BY <1>1, IdleType, AuditSetsAssumption, AuditBoundAssumption
     DEF AuditInit, AuditTypeOK, Pass, Kinds
<1>4. Holding
  BY <1>2, AuditSetsAssumption DEF AuditInit, Holding
<1> QED
  BY <1>3, <1>4 DEF TypeInv

LEMMA NextType ==
    ASSUME TypeInv, [AuditNext]_auditVars
    PROVE  TypeInv'
<1>1. CASE UNCHANGED auditVars
  BY <1>1 DEF auditVars, TypeInv, AuditTypeOK, Holding
<1>2. CASE \E j \in Audited, k \in Kinds : Ask(j, k)
  BY <1>2, AskType
<1>3. CASE DrainStep \/ (\E j \in Audited : DrainSkips(j)) \/ DrainDies
  BY <1>3, DrainType
<1>4. CASE \E w \in Auditors : \/ \E t \in AuditTags : Take(w, t)
                               \/ \E j \in Audited : Rerun(w, j)
  BY <1>4, StartType
<1>5. CASE \E w \in Auditors : PassStep(w) \/ PassException(w) \/ PassFault(w)
  BY <1>5, PassType
<1>6. CASE \E t \in AuditTags : DayPasses(t)
  BY <1>6, DayType
<1> QED
  BY <1>1, <1>2, <1>3, <1>4, <1>5, <1>6 DEF AuditNext

\* Every reachable state of the AI passes is well-typed, whatever fails and
\* however often it is retried.
THEOREM AuditTypeCorrect == AuditSpec => []AuditTypeOK
<1>1. TypeInv => AuditTypeOK
  BY DEF TypeInv
<1>2. TypeInv /\ [AuditNext]_auditVars => TypeInv'
  BY NextType
<1> QED
  BY <1>1, <1>2, InitType, PTL DEF AuditSpec
-----------------------------------------------------------------------------
(* No pass is dropped: a pass is either with a message, on the way to one, or *)
(* done, and a slot that is about to ack knows that its pass is done.         *)

Settled(j, k) == IF k = "audit" THEN \A u \in 1 .. Units : verdict[j][u] # "none"
                                ELSE text[j] = 1 .. Units
Done(j, k) == <<j, k>> \in excused \/ Settled(j, k)
Sent(j, k) == \E t \in AuditTags : inbox[t].job = j /\ inbox[t].kind = k

\* What a slot knows about its pass.
SlotInv(w) ==
    auditor[w].tag \in AuditTags =>
        /\ auditor[w].pc = "gate" => auditor[w].unit = 1
        /\ auditor[w].pc \in {"look", "insert"} => PassOf(w) \in excused
        /\ auditor[w].pc \in {"unit", "call"} =>
               PassOf(w) \in excused \/ 1 .. (auditor[w].unit - 1) \subseteq auditor[w].got
        /\ auditor[w].pc = "commit" => PassOf(w) \in excused \/ auditor[w].got = 1 .. Units
        /\ auditor[w].pc \in {"mark", "marking"} => auditor[w].kind = "audit"
        /\ auditor[w].pc = "marking" => \A u \in (1 .. Units) \ auditor[w].got :
                                            verdict[auditor[w].job][u] # "none"
        /\ auditor[w].pc = "ack" => Done(auditor[w].job, auditor[w].kind)

Kept ==
    /\ \A j \in Audited, k \in Kinds :
          <<j, k>> \in asked => Sent(j, k) \/ Done(j, k) \/ (k = "audit" /\ j \in rerun)
    /\ drain.pc = "delete" => /\ drain.job \in Audited
                              /\ Sent(drain.job, "audit") \/ Done(drain.job, "audit")

DropInv == TypeInv /\ (\A w \in Auditors : SlotInv(w)) /\ Kept

\* What is done stays done, and a verdict that has come is never taken back.
Lasting ==
    /\ excused \subseteq excused'
    /\ \A j \in Audited, u \in 1 .. Units : verdict[j][u] # "none" => verdict'[j][u] # "none"
    /\ \A j \in Audited, k \in Kinds : Done(j, k) => Done(j, k)'

LEMMA PassLasts ==
    ASSUME DropInv, NEW w \in Auditors, PassStep(w) \/ PassException(w) \/ PassFault(w)
    PROVE  Lasting
<1>1. excused \subseteq excused'
  BY Zenon DEF PassStep, PassException, PassFault, Gate, Look, Insert, CheckCap, CallAnswers,
     CallFails, Commit, MarkLoad, MarkCommit, FinishPass, RetryLater, StopTrying, RerunFails,
     HandlerFails, FailsOpen, ChargeFails, InsertFails, Dies, IsCut, Excuse
<1>2. /\ auditor[w].job \in Audited
      /\ auditor[w].kind \in Kinds
      /\ auditor[w].got \in SUBSET (1 .. Units)
      /\ verdict \in [Audited -> [1 .. Units -> {"none", "answered", "pending_retry"}]]
      /\ text \in [Audited -> SUBSET (1 .. Units)]
  BY PassMoves, SlotFields DEF DropInv, TypeInv, Holding, AuditTypeOK
<1>3. CASE Commit(w) /\ auditor[w].kind = "audit"
  <2> DEFINE new == [u \in 1 .. Units |-> IF u \in auditor[w].got THEN "answered"
                                         ELSE verdict[auditor[w].job][u]]
  <2>1. verdict' = [verdict EXCEPT ![auditor[w].job] = new] /\ text' = text
    BY <1>3 DEF Commit
  <2>2. \A j \in Audited, u \in 1 .. Units : verdict[j][u] # "none" => verdict'[j][u] # "none"
    BY <1>2, <2>1
  <2> QED
    BY <1>1, <2>1, <2>2 DEF Lasting, Done, Settled
<1>4. CASE Commit(w) /\ auditor[w].kind # "audit"
  <2>1. verdict' = verdict /\ text' = [text EXCEPT ![auditor[w].job] = auditor[w].got]
    BY <1>4 DEF Commit
  <2>2. auditor[w].tag \in AuditTags
    BY <1>4 DEF DropInv, TypeInv, Holding
  <2>3. PassOf(w) \in excused \/ auditor[w].got = 1 .. Units
    BY <1>4, <2>2 DEF DropInv, SlotInv, Commit, Doing
  <2>4. ASSUME NEW j \in Audited, NEW k \in Kinds, Done(j, k)
        PROVE  Done(j, k)'
    <3>1. CASE k = "audit" \/ j # auditor[w].job
      BY <1>1, <1>2, <2>1, <2>4, <3>1 DEF Done, Settled
    <3>2. CASE k # "audit" /\ j = auditor[w].job
      <4>1. <<j, k>> = PassOf(w)
        BY <1>2, <1>4, <3>2 DEF PassOf, Kinds
      <4>2. auditor[w].got = 1 .. Units => text'[j] = 1 .. Units
        BY <1>2, <2>1, <3>2
      <4> QED
        BY <1>1, <2>3, <3>2, <4>1, <4>2 DEF Done, Settled
    <3> QED
      BY <3>1, <3>2
  <2> QED
    BY <1>1, <2>1, <2>4 DEF Lasting
<1>5. CASE MarkCommit(w)
  <2> DEFINE new == [u \in 1 .. Units |-> IF u \in auditor[w].got THEN "pending_retry"
                                         ELSE verdict[auditor[w].job][u]]
  <2>1. verdict' = [verdict EXCEPT ![auditor[w].job] = new] /\ text' = text
    BY <1>5 DEF MarkCommit
  <2>2. \A j \in Audited, u \in 1 .. Units : verdict[j][u] # "none" => verdict'[j][u] # "none"
    BY <1>2, <2>1
  <2> QED
    BY <1>1, <2>1, <2>2 DEF Lasting, Done, Settled
<1>6. CASE verdict' = verdict /\ text' = text
  BY <1>1, <1>6 DEF Lasting, Done, Settled
<1>7. Commit(w) \/ MarkCommit(w) \/ (verdict' = verdict /\ text' = text)
  BY Zenon DEF PassStep, PassException, PassFault, Gate, Look, Insert, CheckCap, CallAnswers,
     CallFails, MarkLoad, FinishPass, RetryLater, StopTrying, RerunFails, HandlerFails,
     FailsOpen, ChargeFails, InsertFails, Dies, IsCut
<1> QED
  BY <1>3, <1>4, <1>5, <1>6, <1>7

\* A slot that did not move still knows what it knew.
LEMMA StillKnown ==
    ASSUME DropInv, Lasting, NEW v \in Auditors, auditor'[v] = auditor[v]
    PROVE  SlotInv(v)'
<1>1. CASE auditor[v].tag \notin AuditTags
  BY <1>1 DEF SlotInv
<1>2. CASE auditor[v].tag \in AuditTags
  <2>1. SlotInv(v) /\ auditor[v].job \in Audited /\ auditor[v].kind \in Kinds
    BY <1>2, SlotFields DEF DropInv, TypeInv, Holding
  <2>2. PassOf(v)' = PassOf(v)
    BY DEF PassOf
  <2> QED
    BY <1>2, <2>1, <2>2 DEF SlotInv, Lasting
<1> QED
  BY <1>1, <1>2

\* A slot that goes on with its message knows what it has to at its new place.
LEMMA PassKnows ==
    ASSUME DropInv, NEW w \in Auditors, PassStep(w) \/ PassException(w) \/ PassFault(w)
    PROVE  SlotInv(w)'
<1>0. AuditTypeOK /\ Lasting
  BY PassLasts DEF DropInv, TypeInv
<1> SUFFICES ASSUME auditor'[w].tag \in AuditTags
             PROVE  SlotInv(w)'
  BY DEF SlotInv
<1>1. ~Rested(w)
  BY AuditSetsAssumption DEF Rested, IdleAuditor
<1>2. /\ auditor[w].job \in Audited
      /\ auditor[w].kind \in Kinds
      /\ auditor[w].unit \in 1 .. Units
      /\ auditor[w].got \in SUBSET (1 .. Units)
  BY PassMoves, SlotFields DEF DropInv, TypeInv, Holding
<1>3. /\ auditor'[w].tag = auditor[w].tag
      /\ auditor'[w].job = auditor[w].job
      /\ auditor'[w].kind = auditor[w].kind
      /\ PassOf(w)' = PassOf(w)
      /\ auditor[w].tag \in AuditTags
  BY <1>1, PassMoves DEF DropInv, Went, PassOf
<1>4. /\ SlotInv(w)
      /\ ~Forced(w)
  BY <1>3, AuditSetsAssumption DEF DropInv, Forced
<1>5. ASSUME Excuse(w)
      PROVE  PassOf(w)' \in excused'
  BY <1>3, <1>4, <1>5 DEF Excuse
<1>6. ASSUME NEW p \in AuditSteps, Step(w, p)
      PROVE  Went(w, p, auditor[w].unit, auditor[w].got)
  BY <1>0, <1>6, StepMoves
<1>7. ASSUME Finish(w), PassOf(w)' \in excused' \/ Settled(auditor[w].job, auditor[w].kind)'
      PROVE  SlotInv(w)'
  <2>1. Went(w, "ack", auditor[w].unit, {})
    BY <1>0, <1>7, FinishMoves
  <2> QED
    BY <1>3, <1>7, <2>1 DEF SlotInv, Went, Done, PassOf
<1>8. ASSUME PassOf(w)' \in excused', auditor'[w].pc \in {"look", "insert", "unit", "call", "commit", "ack"}
      PROVE  SlotInv(w)'
  BY <1>8 DEF SlotInv, Done, PassOf
<1>9. ASSUME NEW g \in SUBSET (1 .. Units), NextUnit(w, g),
             1 .. auditor[w].unit \subseteq g \/ PassOf(w)' \in excused'
      PROVE  SlotInv(w)'
  <2>1. CASE auditor[w].unit = Units /\ Went(w, "commit", Units, g)
    <3>1. g = 1 .. Units \/ PassOf(w)' \in excused'
      BY <1>9, <2>1
    <3> QED
      BY <1>9, <2>1, <3>1 DEF SlotInv, Went
  <2>2. CASE auditor[w].unit + 1 \in 1 .. Units /\ Went(w, "unit", auditor[w].unit + 1, g)
    <3>1. (auditor[w].unit + 1) - 1 = auditor[w].unit
      BY <1>2
    <3> QED
      BY <1>9, <2>2, <3>1 DEF SlotInv, Went
  <2> QED
    BY <1>0, <1>9, <2>1, <2>2, NextMoves
<1>10. {"look", "insert", "unit", "call", "ack", "mark"} \subseteq AuditSteps
  BY DEF AuditSteps
<1>11. PassOf(w) \in excused => PassOf(w)' \in excused'
  BY <1>0, <1>3 DEF Lasting
<1>g. ASSUME Gate(w) PROVE SlotInv(w)'
  <2>1. CASE Step(w, "look") /\ Excuse(w)
    BY <1>5, <1>6, <1>8, <1>10, <2>1 DEF Went
  <2>2. CASE Step(w, "unit")
    <3>1. auditor'[w].pc = "unit" /\ auditor'[w].unit = 1
      BY <1>3, <1>4, <1>6, <1>10, <1>g, <2>2 DEF Went, SlotInv, Gate, Doing
    <3> QED
      BY <3>1 DEF SlotInv
  <2> QED
    BY <1>g, <2>1, <2>2 DEF Gate
<1>l. ASSUME Look(w) PROVE SlotInv(w)'
  <2>1. PassOf(w)' \in excused'
    BY <1>3, <1>4, <1>11, <1>l DEF SlotInv, Look, Doing
  <2>2. auditor'[w].pc \in {"ack", "insert"}
    BY <1>6, <1>10, <1>l DEF Look, Went
  <2> QED
    BY <1>8, <2>1, <2>2
<1>i. ASSUME Insert(w) \/ InsertFails(w) PROVE SlotInv(w)'
  <2>1. PassOf(w)' \in excused'
    BY <1>3, <1>4, <1>11, <1>i DEF SlotInv, Insert, InsertFails, Doing
  <2> QED
    BY <1>7, <1>i, <2>1 DEF Insert, InsertFails
<1>c. ASSUME CheckCap(w) PROVE SlotInv(w)'
  <2>1. CASE Step(w, "call")
    <3>1. /\ auditor'[w].pc = "call"
          /\ auditor'[w].unit = auditor[w].unit
          /\ auditor'[w].got = auditor[w].got
      BY <1>6, <1>10, <2>1 DEF Went
    <3>2. PassOf(w)' \in excused' \/ 1 .. (auditor[w].unit - 1) \subseteq auditor[w].got
      BY <1>3, <1>4, <1>11, <1>c DEF SlotInv, CheckCap, Doing
    <3> QED
      BY <3>1, <3>2 DEF SlotInv
  <2>2. CASE NextUnit(w, auditor[w].got) /\ Excuse(w)
    BY <1>2, <1>5, <1>9, <2>2
  <2> QED
    BY <1>c, <2>1, <2>2 DEF CheckCap
<1>a. ASSUME CallAnswers(w) \/ ChargeFails(w) PROVE SlotInv(w)'
  <2> DEFINE g == auditor[w].got \union {auditor[w].unit}
  <2>1. g \in SUBSET (1 .. Units) /\ NextUnit(w, g)
    BY <1>2, <1>a DEF CallAnswers, ChargeFails
  <2>2. PassOf(w)' \in excused' \/ 1 .. (auditor[w].unit - 1) \subseteq auditor[w].got
    BY <1>3, <1>4, <1>11, <1>a DEF SlotInv, CallAnswers, ChargeFails, Doing
  <2>3. PassOf(w)' \in excused' \/ 1 .. auditor[w].unit \subseteq g
    BY <1>2, <2>2
  <2> HIDE DEF g
  <2> QED
    BY <1>9, <2>1, <2>3
<1>f. ASSUME CallFails(w) PROVE SlotInv(w)'
  BY <1>2, <1>5, <1>9, <1>f DEF CallFails
<1>o. ASSUME Commit(w) PROVE SlotInv(w)'
  <2>1. PassOf(w)' \in excused' \/ auditor[w].got = 1 .. Units
    BY <1>3, <1>4, <1>11, <1>o DEF SlotInv, Commit, Doing
  <2>2. ASSUME auditor[w].got = 1 .. Units
        PROVE  Settled(auditor[w].job, auditor[w].kind)'
    <3>1. CASE auditor[w].kind = "audit"
      <4> DEFINE new == [u \in 1 .. Units |-> IF u \in auditor[w].got THEN "answered"
                                             ELSE verdict[auditor[w].job][u]]
      <4>1. verdict' = [verdict EXCEPT ![auditor[w].job] = new]
        BY <1>o, <3>1 DEF Commit
      <4>2. \A u \in 1 .. Units : verdict'[auditor[w].job][u] = "answered"
        BY <1>0, <1>2, <2>2, <4>1 DEF AuditTypeOK
      <4> QED
        BY <1>3, <3>1, <4>2 DEF Settled
    <3>2. CASE auditor[w].kind # "audit"
      BY <1>0, <1>2, <1>3, <1>o, <2>2, <3>2 DEF AuditTypeOK, Commit, Settled
    <3> QED
      BY <3>1, <3>2
  <2> QED
    BY <1>7, <1>o, <2>1, <2>2 DEF Commit
<1>m. ASSUME MarkLoad(w) PROVE SlotInv(w)'
  <2> DEFINE silent == {u \in 1 .. Units : verdict[auditor[w].job][u] = "none"}
             p == IF silent = {} THEN "ack" ELSE "marking"
             e == [auditor[w] EXCEPT !.pc = p, !.got = silent]
  <2>1. auditor[w] \in AuditSlot /\ p \in AuditSteps /\ silent \in SUBSET (1 .. Units)
    BY <1>0, SlotFields DEF AuditSteps
  <2>2. auditor' = [auditor EXCEPT ![w] = e] /\ verdict' = verdict
    BY <1>m DEF MarkLoad
  <2>3. e.pc = p /\ e.got = silent
    <3> HIDE DEF p, silent
    <3> QED
      BY <2>1 DEF AuditSlot
  <2>4. auditor'[w].pc = p /\ auditor'[w].got = silent
    <3> HIDE DEF e
    <3> QED
      BY <1>0, <2>2, <2>3 DEF AuditTypeOK
  <2>5. auditor[w].kind = "audit"
    BY <1>3, <1>4, <1>m DEF SlotInv, MarkLoad, Doing
  <2>6. \A u \in (1 .. Units) \ silent : verdict'[auditor[w].job][u] # "none"
    BY <2>2
  <2>7. CASE silent = {}
    BY <1>3, <2>4, <2>5, <2>6, <2>7 DEF SlotInv, Done, Settled
  <2>8. CASE silent # {}
    <3> HIDE DEF silent
    <3> QED
      BY <1>3, <2>4, <2>5, <2>6, <2>8 DEF SlotInv
  <2> QED
    BY <2>7, <2>8
<1>n. ASSUME MarkCommit(w) PROVE SlotInv(w)'
  <2> DEFINE new == [u \in 1 .. Units |-> IF u \in auditor[w].got THEN "pending_retry"
                                         ELSE verdict[auditor[w].job][u]]
  <2>1. verdict' = [verdict EXCEPT ![auditor[w].job] = new]
    BY <1>n DEF MarkCommit
  <2>2. /\ auditor[w].kind = "audit"
        /\ \A u \in (1 .. Units) \ auditor[w].got : verdict[auditor[w].job][u] # "none"
    BY <1>3, <1>4, <1>n DEF SlotInv, MarkCommit, Doing
  <2>3. \A u \in 1 .. Units : verdict'[auditor[w].job][u] # "none"
    BY <1>0, <1>2, <2>1, <2>2 DEF AuditTypeOK
  <2> QED
    BY <1>3, <1>7, <1>n, <2>2, <2>3 DEF MarkCommit, Settled
<1>s. ASSUME StopTrying(w) PROVE SlotInv(w)'
  <2>1. CASE auditor[w].kind = "audit" /\ Step(w, "mark")
    BY <1>3, <1>6, <1>10, <2>1 DEF Went, SlotInv
  <2>2. CASE Finish(w) /\ Excuse(w)
    BY <1>5, <1>7, <2>2
  <2> QED
    BY <1>s, <2>1, <2>2 DEF StopTrying
<1>h. ASSUME HandlerFails(w) \/ IsCut(w) PROVE SlotInv(w)'
  BY <1>5, <1>7, <1>h DEF HandlerFails, IsCut
<1>u. ASSUME FailsOpen(w) PROVE SlotInv(w)'
  <2>1. /\ auditor'[w].pc = IF Doing(w, "gate") THEN "unit" ELSE "call"
        /\ auditor'[w].unit = auditor[w].unit
        /\ auditor'[w].got = auditor[w].got
    BY <1>6, <1>10, <1>u DEF FailsOpen, Went
  <2>2. CASE Doing(w, "gate")
    <3>1. auditor[w].unit = 1
      BY <1>3, <1>4, <2>2 DEF SlotInv, Doing
    <3> QED
      BY <2>1, <2>2, <3>1 DEF SlotInv
  <2>3. CASE ~Doing(w, "gate")
    <3>1. PassOf(w)' \in excused' \/ 1 .. (auditor[w].unit - 1) \subseteq auditor[w].got
      BY <1>3, <1>4, <1>11, <1>u, <2>3 DEF SlotInv, FailsOpen, Doing
    <3> QED
      BY <2>1, <2>3, <3>1 DEF SlotInv
  <2> QED
    BY <2>2, <2>3
<1>r. ASSUME FinishPass(w) \/ RetryLater(w) \/ RerunFails(w) \/ Dies(w) PROVE SlotInv(w)'
  BY <1>0, <1>1, <1>r, RestMoves DEF FinishPass, RetryLater, RerunFails, Dies
<1> QED
  BY Zenon, <1>g, <1>l, <1>i, <1>c, <1>a, <1>f, <1>o, <1>m, <1>n, <1>s, <1>h, <1>u, <1>r
     DEF PassStep, PassException, PassFault

\* Passes that have a message keep it until they are done.
LEMMA PassKept ==
    ASSUME DropInv, NEW w \in Auditors, PassStep(w) \/ PassException(w) \/ PassFault(w)
    PROVE  Kept'
<1>1. Lasting /\ UNCHANGED <<asked, rerun, drain>>
  BY PassLasts, PassMoves DEF DropInv
<1>2. ASSUME NEW j \in Audited, NEW k \in Kinds, Sent(j, k) \/ Done(j, k)
      PROVE  Sent(j, k)' \/ Done(j, k)'
  <2>1. CASE Done(j, k)
    BY <1>1, <2>1 DEF Lasting
  <2>2. CASE Sent(j, k) /\ inbox' = inbox
    BY <2>2 DEF Sent
  <2>3. CASE Sent(j, k) /\ RetryLater(w)
    BY <2>3 DEF RetryLater, Sent, DropInv, TypeInv, AuditTypeOK, Request
  <2>4. CASE Sent(j, k) /\ FinishPass(w)
    <3>1. PICK t \in AuditTags : inbox[t].job = j /\ inbox[t].kind = k
      BY <2>4 DEF Sent
    <3>2. CASE t = auditor[w].tag
      <4>1. auditor[w].job = j /\ auditor[w].kind = k
        BY <3>1, <3>2 DEF DropInv, TypeInv, Holding
      <4>2. Done(j, k)
        BY <2>4, <3>2, <4>1 DEF DropInv, SlotInv, FinishPass, Doing
      <4> QED
        BY <1>1, <4>2 DEF Lasting
    <3>3. CASE t # auditor[w].tag
      BY <2>4, <3>1, <3>3 DEF FinishPass, Sent
    <3> QED
      BY <3>2, <3>3
  <2> QED
    BY <1>2, <2>1, <2>2, <2>3, <2>4, PassMoves DEF DropInv
<1>3. "audit" \in Kinds
  BY DEF Kinds
<1> QED
  BY <1>1, <1>2, <1>3 DEF DropInv, Kept

LEMMA PassDrops ==
    ASSUME DropInv, NEW w \in Auditors, PassStep(w) \/ PassException(w) \/ PassFault(w)
    PROVE  DropInv'
<1>1. TypeInv' /\ Lasting
  BY PassType, PassLasts DEF DropInv
<1>2. \A v \in Auditors \ {w} : auditor'[v] = auditor[v]
  BY PassMoves DEF DropInv, Went, Rested
<1>3. \A v \in Auditors : SlotInv(v)'
  BY <1>1, <1>2, PassKnows, StillKnown
<1> QED
  BY <1>1, <1>3, PassKept DEF DropInv

\* Nothing else touches what a pass has done, or a slot's pass.
LEMMA OtherDrops ==
    ASSUME DropInv, TypeInv', UNCHANGED <<verdict, text, excused, auditor>>, Kept'
    PROVE  DropInv'
<1>1. Lasting
  BY DEF Lasting, Done, Settled
<1>2. \A v \in Auditors : SlotInv(v)'
  BY <1>1, StillKnown
<1> QED
  BY <1>2 DEF DropInv

LEMMA SentStays ==
    ASSUME TypeInv, \A t \in AuditTags : \/ inbox[t] = FreeRequest
                                        \/ /\ inbox'[t].job = inbox[t].job
                                           /\ inbox'[t].kind = inbox[t].kind,
           NEW j \in Audited, NEW k \in Kinds, Sent(j, k)
    PROVE  Sent(j, k)'
BY AuditSetsAssumption DEF Sent, FreeRequest

LEMMA AskDrops ==
    ASSUME DropInv, NEW j \in Audited, NEW k \in Kinds, Ask(j, k)
    PROVE  DropInv'
<1>1. Delay(j, k) /\ auditor' = auditor /\ TypeInv
  BY DEF Ask, DropInv
<1>2. /\ Sent(j, k)'
      /\ \A t \in AuditTags : inbox[t] = FreeRequest \/ inbox'[t] = inbox[t]
  BY <1>1, DelayHolds DEF Sent
<1>3. \A i \in Audited, h \in Kinds : Sent(i, h) => Sent(i, h)'
  BY <1>1, <1>2, SentStays
<1>4. \A i \in Audited, h \in Kinds : Done(i, h) => Done(i, h)'
  BY DEF Ask, Done, Settled
<1>5. "audit" \in Kinds
  BY DEF Kinds
<1>6. Kept'
  BY <1>2, <1>3, <1>4, <1>5 DEF DropInv, Kept, Ask
<1> QED
  BY <1>1, <1>6, AskType, OtherDrops DEF Ask

LEMMA DrainDrops ==
    ASSUME DropInv, DrainStep \/ (\E j \in Audited : DrainSkips(j)) \/ DrainDies
    PROVE  DropInv'
<1>0. "audit" \in Kinds /\ TypeInv /\ TypeInv'
  BY DrainType DEF Kinds, DropInv
<1>1. UNCHANGED <<verdict, text, excused, auditor, asked>>
  BY Zenon DEF DrainStep, DrainScan, DrainDelete, DrainSend, DrainSkips, DrainDies
<1>2. \A i \in Audited, h \in Kinds : Done(i, h) => Done(i, h)'
  BY <1>1 DEF Done, Settled
<1>3. ASSUME DrainScan
      PROVE  Kept'
  BY <1>0, <1>1, <1>2, <1>3 DEF DrainScan, DropInv, Kept, Sent
<1>4. ASSUME DrainDelete
      PROVE  Kept'
  <2>1. \A i \in Audited, h \in Kinds : Sent(i, h) => Sent(i, h)'
    BY <1>4 DEF DrainDelete, Sent
  <2>2. drain'.pc # "delete"
    BY <1>4 DEF DrainDelete, DrainNext
  <2>3. /\ rerun' = rerun \ {drain.job}
        /\ drain.job \in Audited
        /\ Sent(drain.job, "audit") \/ Done(drain.job, "audit")
    BY <1>4 DEF DrainDelete, DropInv, Kept
  <2> QED
    BY <1>0, <1>1, <1>2, <2>1, <2>2, <2>3 DEF DropInv, Kept
<1>5. ASSUME NEW j \in Audited, DrainSend(j)
      PROVE  Kept'
  <2>1. /\ Sent(j, "audit")'
        /\ \A t \in AuditTags : inbox[t] = FreeRequest \/ inbox'[t] = inbox[t]
    BY <1>0, <1>1, <1>5, DelayHolds DEF DrainSend, Sent
  <2>2. \A i \in Audited, h \in Kinds : Sent(i, h) => Sent(i, h)'
    BY <1>0, <2>1, SentStays
  <2>3. drain'.job = j /\ rerun' = rerun
    BY <1>5 DEF DrainSend, DropInv, TypeInv, AuditTypeOK
  <2> QED
    BY <1>1, <1>2, <2>1, <2>2, <2>3 DEF DropInv, Kept
<1>6. ASSUME (\E j \in Audited : DrainSkips(j)) \/ DrainDies
      PROVE  Kept'
  <2>1. inbox' = inbox /\ rerun' = rerun
    BY <1>6 DEF DrainSkips, DrainDies
  <2>2. drain'.pc # "delete"
    BY <1>6 DEF DrainSkips, DrainDies, DrainNext
  <2>3. \A i \in Audited, h \in Kinds : Sent(i, h) => Sent(i, h)'
    BY <2>1 DEF Sent
  <2> QED
    BY <1>1, <1>2, <2>1, <2>2, <2>3 DEF DropInv, Kept
<1>7. Kept'
  BY <1>3, <1>4, <1>5, <1>6 DEF DrainStep
<1> QED
  BY <1>0, <1>1, <1>7, OtherDrops

LEMMA StartDrops ==
    ASSUME DropInv, NEW w \in Auditors,
           (\E t \in AuditTags : Take(w, t)) \/ (\E j \in Audited : Rerun(w, j))
    PROVE  DropInv'
<1>1. UNCHANGED <<verdict, text, notes, asked, inbox, spent, rerun, drain, excused, mishaps>>
  BY DEF Take, Rerun
<1>2. Lasting /\ TypeInv'
  BY <1>1, StartType DEF DropInv, Lasting, Done, Settled
<1>3. /\ auditor'[w].pc = "gate" /\ auditor'[w].unit = 1
      /\ \A v \in Auditors \ {w} : auditor'[v] = auditor[v]
  <2>1. auditor \in [Auditors -> AuditSlot]
    BY DEF DropInv, TypeInv, AuditTypeOK
  <2>2. CASE \E t \in AuditTags : Take(w, t)
    BY <2>1, <2>2 DEF Take, IdleAuditor
  <2>3. CASE \E j \in Audited : Rerun(w, j)
    BY <2>1, <2>3 DEF Rerun, IdleAuditor
  <2> QED
    BY <2>2, <2>3
<1>4. SlotInv(w)'
  BY <1>3 DEF SlotInv
<1>5. \A v \in Auditors : SlotInv(v)'
  BY <1>2, <1>3, <1>4, StillKnown
<1>6. Kept'
  BY <1>1 DEF DropInv, Kept, Sent, Done, Settled
<1> QED
  BY <1>2, <1>5, <1>6 DEF DropInv

LEMMA DayDrops ==
    ASSUME DropInv, NEW t \in AuditTags, DayPasses(t)
    PROVE  DropInv'
<1>1. UNCHANGED <<verdict, text, asked, auditor, rerun, drain, excused>>
  BY DEF DayPasses
<1>2. \A s \in AuditTags : inbox'[s].job = inbox[s].job /\ inbox'[s].kind = inbox[s].kind
  BY DEF DayPasses, DropInv, TypeInv, AuditTypeOK, Request
<1>3. \A i, h : Sent(i, h) => Sent(i, h)'
  BY <1>2 DEF Sent
<1>4. \A i, h : Done(i, h) => Done(i, h)'
  BY <1>1 DEF Done, Settled
<1>5. Kept'
  BY <1>1, <1>3, <1>4 DEF DropInv, Kept
<1> QED
  BY <1>1, <1>5, DayType, OtherDrops DEF DropInv

LEMMA InitDrops == AuditInit => DropInv
<1> SUFFICES ASSUME AuditInit
             PROVE  DropInv
  OBVIOUS
<1>1. IdleAuditor.tag = NoAuditTag
  BY DEF IdleAuditor
<1>2. \A w \in Auditors : SlotInv(w)
  BY <1>1, AuditSetsAssumption DEF AuditInit, SlotInv
<1>3. Kept
  BY DEF AuditInit, Kept
<1> QED
  BY <1>2, <1>3, InitType DEF DropInv

LEMMA NextDrops ==
    ASSUME DropInv, [AuditNext]_auditVars
    PROVE  DropInv'
<1>1. CASE UNCHANGED auditVars
  <2>1. Kept'
    BY <1>1 DEF auditVars, DropInv, Kept, Sent, Done, Settled
  <2>2. TypeInv'
    BY NextType DEF DropInv
  <2> QED
    BY <1>1, <2>1, <2>2, OtherDrops DEF auditVars
<1>2. CASE \E j \in Audited, k \in Kinds : Ask(j, k)
  BY <1>2, AskDrops
<1>3. CASE DrainStep \/ (\E j \in Audited : DrainSkips(j)) \/ DrainDies
  BY <1>3, DrainDrops
<1>4. CASE \E w \in Auditors : \/ \E t \in AuditTags : Take(w, t)
                               \/ \E j \in Audited : Rerun(w, j)
  BY <1>4, StartDrops
<1>5. CASE \E w \in Auditors : PassStep(w) \/ PassException(w) \/ PassFault(w)
  BY <1>5, PassDrops
<1>6. CASE \E t \in AuditTags : DayPasses(t)
  BY <1>6, DayDrops
<1> QED
  BY <1>1, <1>2, <1>3, <1>4, <1>5, <1>6 DEF AuditNext

\* No requested pass is ever lost without a reason: retries, crashes, the ceiling of
\* 24 hours and the drain of the rerun queue all leave it queued, to be drained, done
\* or excused by a failed call or a gate.
THEOREM NoPassIsDroppedHolds == AuditSpec => []NoPassIsDropped
<1>1. DropInv => NoPassIsDropped
  <2> SUFFICES ASSUME DropInv, NEW j \in Audited, NEW k \in Kinds,
                      <<j, k>> \in asked, Over(j, k), <<j, k>> \notin excused
               PROVE  IF k = "audit" THEN \A u \in 1 .. Units : verdict[j][u] # "none"
                                     ELSE text[j] = 1 .. Units
    BY DEF NoPassIsDropped
  <2>1. ~Sent(j, k)
    BY DEF Over, Sent
  <2>2. ~(k = "audit" /\ j \in rerun)
    BY DEF Over
  <2>3. Done(j, k)
    BY <2>1, <2>2 DEF DropInv, Kept
  <2> QED
    BY <2>3 DEF Done, Settled
<1>2. DropInv /\ [AuditNext]_auditVars => DropInv'
  BY NextDrops
<1> QED
  BY <1>1, <1>2, InitDrops, PTL DEF AuditSpec
-----------------------------------------------------------------------------
(* The cost cap: a call that is under way has passed the check already, and  *)
(* each slot has at most one.                                                *)

Calling == {w \in Auditors : Doing(w, "call")}

SpendInv == TypeInv /\ spent + Cardinality(Calling) <= Cap - 1 + Cardinality(Auditors) + mishaps

LEMMA CallingCount ==
    ASSUME NEW S \in SUBSET Auditors, NEW R \in SUBSET S
    PROVE  /\ IsFiniteSet(S)
           /\ Cardinality(S) \in Nat
           /\ Cardinality(R) \in Nat
           /\ Cardinality(R) <= Cardinality(S)
           /\ Cardinality(S) <= Cardinality(Auditors)
           /\ Cardinality(Auditors) \in Nat
<1>1. IsFiniteSet(Auditors)
  BY AuditSetsAssumption
<1>2. IsFiniteSet(S) /\ Cardinality(S) <= Cardinality(Auditors)
  BY <1>1, FS_Subset
<1>3. IsFiniteSet(R) /\ Cardinality(R) <= Cardinality(S)
  BY <1>2, FS_Subset
<1> QED
  BY <1>1, <1>2, <1>3, FS_CardinalityType

LEMMA PassSpends ==
    ASSUME SpendInv, NEW w \in Auditors, PassStep(w) \/ PassException(w) \/ PassFault(w)
    PROVE  SpendInv'
<1>1. TypeInv /\ TypeInv' /\ AuditTypeOK
  BY PassType DEF SpendInv, TypeInv
<1>2. /\ spent \in Nat /\ mishaps \in Nat /\ spent' \in Nat /\ mishaps' \in Nat
      /\ Cap \in Nat /\ Cap > 0
  BY <1>1, AuditBoundAssumption DEF TypeInv, AuditTypeOK
<1>3. \A v \in Auditors \ {w} : auditor'[v] = auditor[v]
  BY <1>1, PassMoves DEF Went, Rested
<1>4. /\ Calling \in SUBSET Auditors /\ Calling' \in SUBSET Auditors
      /\ Calling' \in SUBSET (Calling \union {w})
  BY <1>3 DEF Calling, Doing
<1>5. /\ Cardinality(Calling) \in Nat /\ Cardinality(Calling') \in Nat
      /\ Cardinality(Auditors) \in Nat
      /\ Cardinality(Calling') <= Cardinality(Auditors)
      /\ IsFiniteSet(Calling)
  BY <1>4, CallingCount
<1>6. spent + Cardinality(Calling) <= Cap - 1 + Cardinality(Auditors) + mishaps
  BY DEF SpendInv
<1> DEFINE Bound == spent' + Cardinality(Calling') <= Cap - 1 + Cardinality(Auditors) + mishaps'
<1>7. mishaps' = mishaps \/ mishaps' = mishaps + 1
  BY Zenon DEF PassStep, PassException, PassFault, Gate, Look, Insert, CheckCap, CallAnswers,
     CallFails, Commit, MarkLoad, MarkCommit, FinishPass, RetryLater, StopTrying, RerunFails,
     HandlerFails, FailsOpen, ChargeFails, InsertFails, Dies, IsCut, Mishap
<1>8. \A g \in SUBSET (1 .. Units) : NextUnit(w, g) => auditor'[w].pc # "call"
  BY <1>1, NextMoves DEF Went
<1>9. auditor[w].got \in SUBSET (1 .. Units)
      /\ (auditor[w].got \union {auditor[w].unit}) \in SUBSET (1 .. Units)
  BY <1>1, SlotFields
<1>a. ASSUME CallAnswers(w) PROVE Bound
  <2>1. w \in Calling /\ spent' = spent + 1
    BY <1>a DEF CallAnswers, Calling
  <2>2. w \notin Calling'
    BY <1>8, <1>9, <1>a DEF CallAnswers, Calling, Doing
  <2>3. Calling' \subseteq Calling \ {w}
    BY <1>4, <2>2
  <2>4. Cardinality(Calling \ {w}) = Cardinality(Calling) - 1
    BY <1>5, <2>1, FS_RemoveElement
  <2>5. Cardinality(Calling') <= Cardinality(Calling \ {w})
    BY <1>4, <2>3, CallingCount
  <2> QED
    BY <1>2, <1>5, <1>6, <1>7, <2>1, <2>4, <2>5
<1>b. ASSUME CheckCap(w), spent < Cap PROVE Bound
  BY <1>2, <1>5, <1>b DEF CheckCap
<1>c. ASSUME FailsOpen(w) PROVE Bound
  <2>1. spent' = spent /\ mishaps' = mishaps + 1
    BY <1>c DEF FailsOpen, Mishap
  <2>2. /\ IsFiniteSet(Calling \union {w})
        /\ Cardinality(Calling \union {w}) <= Cardinality(Calling) + 1
    <3>1. /\ IsFiniteSet(Calling \union {w})
          /\ Cardinality(Calling \union {w}) = IF w \in Calling THEN Cardinality(Calling)
                                               ELSE Cardinality(Calling) + 1
      BY <1>5, FS_AddElement
    <3> QED
      BY <1>5, <3>1
  <2>3. Cardinality(Calling') <= Cardinality(Calling \union {w})
    BY <1>4, <2>2, FS_Subset
  <2>4. Cardinality(Calling \union {w}) \in Nat
    BY <2>2, FS_CardinalityType
  <2> QED
    BY <1>2, <1>5, <1>6, <2>1, <2>2, <2>3, <2>4
<1>d. ASSUME spent' = spent, auditor'[w].pc # "call" PROVE Bound
  <2>1. Calling' \subseteq Calling
    BY <1>4, <1>d DEF Calling, Doing
  <2>2. Cardinality(Calling') <= Cardinality(Calling)
    BY <1>4, <2>1, CallingCount
  <2> QED
    BY <1>2, <1>5, <1>6, <1>7, <1>d, <2>2
<1>e. \/ CallAnswers(w)
      \/ CheckCap(w) /\ spent < Cap
      \/ FailsOpen(w)
      \/ spent' = spent /\ auditor'[w].pc # "call"
  <2>1. \A p \in AuditSteps \ {"call"} : Step(w, p) => auditor'[w].pc # "call"
    BY <1>1, StepMoves DEF Went
  <2>2. Finish(w) => auditor'[w].pc # "call"
    BY <1>1, FinishMoves DEF Went
  <2>3. Rest(w) => auditor'[w].pc # "call"
    BY <1>1, RestMoves DEF Rested, IdleAuditor
  <2>4. {"look", "unit", "ack", "insert", "mark"} \subseteq AuditSteps \ {"call"}
    BY DEF AuditSteps
  <2>5. ASSUME CheckCap(w), ~(spent < Cap) PROVE spent' = spent /\ auditor'[w].pc # "call"
    BY <1>8, <1>9, <2>5 DEF CheckCap
  <2>6. ASSUME MarkLoad(w) PROVE spent' = spent /\ auditor'[w].pc # "call"
    <3> DEFINE g == {u \in 1 .. Units : verdict[auditor[w].job][u] = "none"}
               p == IF g = {} THEN "ack" ELSE "marking"
               e == [auditor[w] EXCEPT !.pc = p, !.got = g]
    <3>1. auditor[w] \in AuditSlot /\ p # "call" /\ g \in SUBSET (1 .. Units)
      BY <1>1, SlotFields
    <3>2. auditor' = [auditor EXCEPT ![w] = e] /\ spent' = spent
      BY <2>6 DEF MarkLoad
    <3> HIDE DEF p, g
    <3>3. e.pc = p
      BY <3>1 DEF AuditSlot
    <3> HIDE DEF e
    <3> QED
      BY <1>1, <3>1, <3>2, <3>3 DEF AuditTypeOK
  <2>g. ASSUME Gate(w) \/ Look(w) \/ StopTrying(w) PROVE spent' = spent /\ auditor'[w].pc # "call"
    BY <2>1, <2>2, <2>4, <2>g DEF Gate, Look, StopTrying
  <2>h. ASSUME CallFails(w) \/ ChargeFails(w) PROVE spent' = spent /\ auditor'[w].pc # "call"
    BY <1>8, <1>9, <2>h DEF CallFails, ChargeFails
  <2>i. ASSUME \/ Insert(w) \/ InsertFails(w) \/ Commit(w) \/ MarkCommit(w) \/ HandlerFails(w)
               \/ IsCut(w) \/ FinishPass(w) \/ RetryLater(w) \/ RerunFails(w) \/ Dies(w)
        PROVE  spent' = spent /\ auditor'[w].pc # "call"
    BY <2>2, <2>3, <2>i DEF Insert, InsertFails, Commit, MarkCommit, HandlerFails, IsCut,
       FinishPass, RetryLater, RerunFails, Dies
  <2> QED
    BY Zenon, <2>5, <2>6, <2>g, <2>h, <2>i DEF PassStep, PassException, PassFault
<1> HIDE DEF Bound
<1>f. Bound
  BY <1>a, <1>b, <1>c, <1>d, <1>e
<1> QED
  BY <1>1, <1>f DEF SpendInv, Bound

\* What is not a slot's work on its pass starts no call and adds no finding.
LEMMA OutsideSteps ==
    ASSUME TypeInv,
           \/ UNCHANGED auditVars
           \/ \E j \in Audited, k \in Kinds : Ask(j, k)
           \/ DrainStep \/ (\E j \in Audited : DrainSkips(j)) \/ DrainDies
           \/ \E w \in Auditors : \/ \E t \in AuditTags : Take(w, t)
                                  \/ \E j \in Audited : Rerun(w, j)
           \/ \E t \in AuditTags : DayPasses(t)
    PROVE  /\ UNCHANGED <<notes, spent>>
           /\ mishaps' = mishaps \/ mishaps' = mishaps + 1
           /\ \A w \in Auditors : auditor'[w] = auditor[w] \/ auditor'[w].pc = "gate"
<1>1. UNCHANGED <<notes, spent>>
  BY Zenon DEF auditVars, Ask, DrainStep, DrainScan, DrainDelete, DrainSend, DrainSkips, DrainDies,
     Take, Rerun, DayPasses
<1>2. mishaps' = mishaps \/ mishaps' = mishaps + 1
  BY Zenon DEF auditVars, Ask, DrainStep, DrainScan, DrainDelete, DrainSend, DrainSkips, DrainDies,
     Take, Rerun, DayPasses, Mishap
<1>3. auditor \in [Auditors -> AuditSlot]
  BY DEF TypeInv, AuditTypeOK
<1>4. ASSUME NEW w \in Auditors, NEW t \in AuditTags, Take(w, t)
      PROVE  \A v \in Auditors : auditor'[v] = auditor[v] \/ auditor'[v].pc = "gate"
  BY <1>3, <1>4 DEF Take, IdleAuditor
<1>5. ASSUME NEW w \in Auditors, NEW j \in Audited, Rerun(w, j)
      PROVE  \A v \in Auditors : auditor'[v] = auditor[v] \/ auditor'[v].pc = "gate"
  BY <1>3, <1>5 DEF Rerun, IdleAuditor
<1>6. \/ auditor' = auditor
      \/ \E w \in Auditors : \/ \E t \in AuditTags : Take(w, t)
                             \/ \E j \in Audited : Rerun(w, j)
  BY Zenon DEF auditVars, Ask, DrainStep, DrainScan, DrainDelete, DrainSend, DrainSkips, DrainDies,
     DayPasses
<1> QED
  BY <1>1, <1>2, <1>4, <1>5, <1>6

LEMMA NextSpends ==
    ASSUME SpendInv, [AuditNext]_auditVars
    PROVE  SpendInv'
<1>1. CASE \E w \in Auditors : PassStep(w) \/ PassException(w) \/ PassFault(w)
  BY <1>1, PassSpends
<1>2. CASE ~\E w \in Auditors : PassStep(w) \/ PassException(w) \/ PassFault(w)
  <2>1. TypeInv /\ TypeInv'
    BY NextType DEF SpendInv
  <2>2. /\ UNCHANGED spent
        /\ mishaps' = mishaps \/ mishaps' = mishaps + 1
        /\ \A w \in Auditors : auditor'[w] = auditor[w] \/ auditor'[w].pc = "gate"
    BY <1>2, <2>1, OutsideSteps DEF AuditNext
  <2>3. Calling \in SUBSET Auditors /\ Calling' \in SUBSET Calling
    BY <2>2 DEF Calling, Doing
  <2>4. /\ Cardinality(Calling') \in Nat /\ Cardinality(Calling) \in Nat
        /\ Cardinality(Auditors) \in Nat
        /\ Cardinality(Calling') <= Cardinality(Calling)
    BY <2>3, CallingCount
  <2> QED
    BY <2>1, <2>2, <2>4, AuditBoundAssumption DEF SpendInv, TypeInv, AuditTypeOK
<1> QED
  BY <1>1, <1>2

\* Passes that run side by side overspend a tenant's cost cap by no more than one call
\* each, and by one for every charge or check that failed.
THEOREM OverspendIsBoundedHolds == AuditSpec => []OverspendIsBounded
<1>1. AuditInit => SpendInv
  <2> SUFFICES ASSUME AuditInit
               PROVE  SpendInv
    OBVIOUS
  <2>1. Calling = {}
    BY DEF AuditInit, Calling, Doing, IdleAuditor
  <2>2. Cardinality(Calling) = 0 /\ Cardinality(Auditors) \in Nat
    BY <2>1, AuditSetsAssumption, FS_EmptySet, FS_CardinalityType
  <2> QED
    BY <2>2, InitType, AuditBoundAssumption DEF AuditInit, SpendInv
<1>2. SpendInv => OverspendIsBounded
  <2> SUFFICES ASSUME SpendInv
               PROVE  OverspendIsBounded
    OBVIOUS
  <2>1. Calling \in SUBSET Auditors
    BY DEF Calling
  <2>2. Cardinality(Calling) \in Nat /\ Cardinality(Auditors) \in Nat
    BY <2>1, CallingCount
  <2> QED
    BY <2>2, AuditBoundAssumption DEF SpendInv, OverspendIsBounded, TypeInv, AuditTypeOK
<1>3. SpendInv /\ [AuditNext]_auditVars => SpendInv'
  BY NextSpends
<1> QED
  BY <1>1, <1>2, <1>3, PTL DEF AuditSpec
-----------------------------------------------------------------------------
(* The gate's finding: between the look and the insert a slot can add it once. *)

Inserting(n) == {w \in Auditors : Doing(w, "insert") /\ NoteOf(w) = n}

NoteInv == /\ TypeInv
           /\ \A n \in Audited \X Subjects :
                 notes[n] + Cardinality(Inserting(n)) <= Cardinality(Auditors)

LEMMA PassNotes ==
    ASSUME NoteInv, NEW w \in Auditors, PassStep(w) \/ PassException(w) \/ PassFault(w),
           NEW n \in Audited \X Subjects
    PROVE  notes'[n] + Cardinality(Inserting(n)') <= Cardinality(Auditors)
<1>1. TypeInv /\ TypeInv' /\ AuditTypeOK
  BY PassType DEF NoteInv, TypeInv
<1>2. notes[n] \in Nat /\ notes'[n] \in Nat /\ notes \in [Audited \X Subjects -> Nat]
  BY <1>1 DEF TypeInv, AuditTypeOK
<1>3. \A v \in Auditors \ {w} : auditor'[v] = auditor[v]
  BY <1>1, PassMoves DEF Went, Rested
<1>4. /\ Inserting(n) \in SUBSET Auditors /\ Inserting(n)' \in SUBSET Auditors
      /\ Inserting(n)' \in SUBSET (Inserting(n) \union {w})
  BY <1>3 DEF Inserting, Doing, NoteOf
<1>5. /\ Cardinality(Inserting(n)) \in Nat /\ Cardinality(Inserting(n)') \in Nat
      /\ Cardinality(Auditors) \in Nat
      /\ Cardinality(Inserting(n)') <= Cardinality(Auditors)
      /\ IsFiniteSet(Inserting(n))
  BY <1>4, CallingCount
<1>6. notes[n] + Cardinality(Inserting(n)) <= Cardinality(Auditors)
  BY DEF NoteInv
<1> DEFINE Bound == notes'[n] + Cardinality(Inserting(n)') <= Cardinality(Auditors)
<1>7. \A g \in SUBSET (1 .. Units) : NextUnit(w, g) => auditor'[w].pc # "insert"
  BY <1>1, NextMoves DEF Went
<1>8. \A p \in AuditSteps : Step(w, p) => auditor'[w].pc = p
  BY <1>1, StepMoves DEF Went
<1>9. Finish(w) \/ Rest(w) => auditor'[w].pc # "insert"
  BY <1>1, FinishMoves, RestMoves DEF Went, Rested, IdleAuditor
<1>a. ASSUME auditor'[w].pc # "insert" PROVE Cardinality(Inserting(n)') <= Cardinality(Inserting(n))
  <2>1. Inserting(n)' \in SUBSET Inserting(n)
    BY <1>4, <1>a DEF Inserting, Doing
  <2> QED
    BY <1>4, <2>1, CallingCount
<1>b. ASSUME Look(w) PROVE Bound
  <2>1. notes' = notes
    BY <1>b DEF Look
  <2>2. CASE auditor'[w].pc # "insert"
    BY <1>2, <1>5, <1>6, <1>a, <2>1, <2>2
  <2>3. CASE auditor'[w].pc = "insert" /\ NoteOf(w)' # n
    <3>1. Inserting(n)' \in SUBSET Inserting(n)
      BY <1>4, <2>3 DEF Inserting, Doing
    <3>2. Cardinality(Inserting(n)') <= Cardinality(Inserting(n))
      BY <1>4, <3>1, CallingCount
    <3> QED
      BY <1>2, <1>5, <1>6, <2>1, <3>2
  <2>4. CASE auditor'[w].pc = "insert" /\ NoteOf(w)' = n
    <3>1. NoteOf(w) = n
      <4>1. auditor'[w].job = auditor[w].job /\ auditor'[w].kind = auditor[w].kind
        BY <1>1, <2>4, PassMoves DEF Went, Rested, IdleAuditor
      <4> QED
        BY <2>4, <4>1 DEF NoteOf
    <3>2. ~(notes[n] > 0)
      <4>1. {"ack", "insert"} \subseteq AuditSteps
        BY DEF AuditSteps
      <4> QED
        BY <1>8, <1>b, <2>4, <3>1, <4>1 DEF Look
    <3> QED
      BY <1>2, <1>5, <2>1, <3>2
  <2> QED
    BY <2>2, <2>3, <2>4
<1>c. ASSUME Insert(w) PROVE Bound
  <2>1. notes' = [notes EXCEPT ![NoteOf(w)] = notes[NoteOf(w)] + 1] /\ auditor'[w].pc # "insert"
    BY <1>9, <1>c DEF Insert
  <2>2. CASE NoteOf(w) = n
    <3>1. w \in Inserting(n) /\ w \notin Inserting(n)'
      BY <1>c, <2>1, <2>2 DEF Insert, Inserting, Doing
    <3>2. Cardinality(Inserting(n) \ {w}) = Cardinality(Inserting(n)) - 1
      BY <1>5, <3>1, FS_RemoveElement
    <3>3. Cardinality(Inserting(n)') <= Cardinality(Inserting(n) \ {w})
      BY <1>4, <3>1, CallingCount
    <3>4. notes'[n] = notes[n] + 1
      BY <1>2, <2>1, <2>2
    <3> QED
      BY <1>2, <1>5, <1>6, <3>2, <3>3, <3>4
  <2>3. CASE NoteOf(w) # n
    <3>1. notes'[n] = notes[n]
      BY <1>2, <2>1, <2>3
    <3> QED
      BY <1>2, <1>5, <1>6, <1>a, <2>1, <3>1
  <2> QED
    BY <2>2, <2>3
<1>d. ASSUME notes' = notes, auditor'[w].pc # "insert" PROVE Bound
  BY <1>2, <1>5, <1>6, <1>a, <1>d
<1>e. Look(w) \/ Insert(w) \/ (notes' = notes /\ auditor'[w].pc # "insert")
  <2>1. {"look", "unit", "ack", "call", "mark"} \subseteq AuditSteps \ {"insert"}
    BY DEF AuditSteps
  <2>2. auditor[w].got \in SUBSET (1 .. Units)
        /\ (auditor[w].got \union {auditor[w].unit}) \in SUBSET (1 .. Units)
    BY <1>1, SlotFields
  <2>3. ASSUME MarkLoad(w) PROVE notes' = notes /\ auditor'[w].pc # "insert"
    <3> DEFINE g == {u \in 1 .. Units : verdict[auditor[w].job][u] = "none"}
               p == IF g = {} THEN "ack" ELSE "marking"
               e == [auditor[w] EXCEPT !.pc = p, !.got = g]
    <3>1. auditor[w] \in AuditSlot /\ p # "insert" /\ g \in SUBSET (1 .. Units)
      BY <1>1, SlotFields
    <3>2. auditor' = [auditor EXCEPT ![w] = e] /\ notes' = notes
      BY <2>3 DEF MarkLoad
    <3> HIDE DEF p, g
    <3>3. e.pc = p
      BY <3>1 DEF AuditSlot
    <3> HIDE DEF e
    <3> QED
      BY <1>1, <3>1, <3>2, <3>3 DEF AuditTypeOK
  <2>g. ASSUME Gate(w) \/ StopTrying(w) \/ FailsOpen(w) PROVE notes' = notes /\ auditor'[w].pc # "insert"
    BY <1>8, <1>9, <2>1, <2>g DEF Gate, StopTrying, FailsOpen
  <2>h. ASSUME CallAnswers(w) \/ CallFails(w) \/ ChargeFails(w)
        PROVE  notes' = notes /\ auditor'[w].pc # "insert"
    BY <1>7, <2>2, <2>h DEF CallAnswers, CallFails, ChargeFails
  <2>i. ASSUME CheckCap(w) PROVE notes' = notes /\ auditor'[w].pc # "insert"
    BY <1>7, <1>8, <2>1, <2>2, <2>i DEF CheckCap
  <2>j. ASSUME \/ InsertFails(w) \/ Commit(w) \/ MarkCommit(w) \/ HandlerFails(w)
               \/ IsCut(w) \/ FinishPass(w) \/ RetryLater(w) \/ RerunFails(w) \/ Dies(w)
        PROVE  notes' = notes /\ auditor'[w].pc # "insert"
    BY <1>9, <2>j DEF InsertFails, Commit, MarkCommit, HandlerFails, IsCut,
       FinishPass, RetryLater, RerunFails, Dies
  <2> QED
    BY Zenon, <2>3, <2>g, <2>h, <2>i, <2>j DEF PassStep, PassException, PassFault
<1> HIDE DEF Bound
<1>f. Bound
  BY <1>b, <1>c, <1>d, <1>e
<1> QED
  BY <1>f DEF Bound

LEMMA NextNotes ==
    ASSUME NoteInv, [AuditNext]_auditVars
    PROVE  NoteInv'
<1>0. TypeInv /\ TypeInv'
  BY NextType DEF NoteInv
<1> SUFFICES ASSUME NEW n \in Audited \X Subjects
             PROVE  notes'[n] + Cardinality(Inserting(n)') <= Cardinality(Auditors)
  BY <1>0 DEF NoteInv
<1>1. CASE \E w \in Auditors : PassStep(w) \/ PassException(w) \/ PassFault(w)
  BY <1>1, PassNotes
<1>2. CASE ~\E w \in Auditors : PassStep(w) \/ PassException(w) \/ PassFault(w)
  <2>1. /\ UNCHANGED notes
        /\ \A w \in Auditors : auditor'[w] = auditor[w] \/ auditor'[w].pc = "gate"
    BY <1>0, <1>2, OutsideSteps DEF AuditNext
  <2>2. Inserting(n) \in SUBSET Auditors /\ Inserting(n)' \in SUBSET Inserting(n)
    BY <2>1 DEF Inserting, Doing, NoteOf
  <2>3. /\ Cardinality(Inserting(n)') \in Nat /\ Cardinality(Inserting(n)) \in Nat
        /\ Cardinality(Auditors) \in Nat
        /\ Cardinality(Inserting(n)') <= Cardinality(Inserting(n))
    BY <2>2, CallingCount
  <2>4. notes[n] \in Nat /\ notes'[n] = notes[n]
    BY <1>0, <2>1 DEF TypeInv, AuditTypeOK
  <2> QED
    BY <2>3, <2>4 DEF NoteInv
<1> QED
  BY <1>1, <1>2

\* The finding of a gate is never on a job more often than there are slots.
THEOREM NotesAreBoundedHolds == AuditSpec => []NotesAreBounded
<1>1. AuditInit => NoteInv
  <2> SUFFICES ASSUME AuditInit, NEW n \in Audited \X Subjects
               PROVE  notes[n] + Cardinality(Inserting(n)) <= Cardinality(Auditors)
    BY InitType DEF NoteInv
  <2>1. Inserting(n) = {} /\ notes[n] = 0
    BY DEF AuditInit, Inserting, Doing, IdleAuditor
  <2>2. Cardinality(Inserting(n)) = 0 /\ Cardinality(Auditors) \in Nat
    BY <2>1, AuditSetsAssumption, FS_EmptySet, FS_CardinalityType
  <2> QED
    BY <2>1, <2>2
<1>2. NoteInv => NotesAreBounded
  <2> SUFFICES ASSUME NoteInv, NEW n \in Audited \X Subjects
               PROVE  notes[n] <= Cardinality(Auditors)
    BY DEF NotesAreBounded
  <2>1. Inserting(n) \in SUBSET Auditors
    BY DEF Inserting
  <2>2. Cardinality(Inserting(n)) \in Nat /\ Cardinality(Auditors) \in Nat
    BY <2>1, CallingCount
  <2> QED
    BY <2>2 DEF NoteInv, TypeInv, AuditTypeOK
<1>3. NoteInv /\ [AuditNext]_auditVars => NoteInv'
  BY NextNotes
<1> QED
  BY <1>1, <1>2, <1>3, PTL DEF AuditSpec
=============================================================================
