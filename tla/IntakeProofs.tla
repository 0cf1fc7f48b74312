---------------------------- MODULE IntakeProofs ----------------------------
(***************************************************************************)
(* Proofs about Intake for any number of requests, files and faults, any   *)
(* limit, rate and cap.                                                    *)
(***************************************************************************)
EXTENDS Intake, FiniteSetTheorems, TLAPS

\* The numbers are given out in order, and a request that is still served holds some of
\* them.
Places ==
    /\ \A p \in Posters : post[p].pc \in {"count", "upload"} => post[p].files >= 1
    /\ \A p \in Posters : post[p].pc = "upload" => post[p].current \in 1 .. made
    /\ \A p \in Posters : post[p].held \subseteq 1 .. made /\ post[p].unqueued \subseteq post[p].held
    /\ \A i \in Numbers : i > made => job[i] = NewJob

PostTypeInv == IntakeTypeOK /\ Places

\* Request p goes to step s with its current file, f files to come, the rows h and the
\* tasks u.
Went(p, s, c, f, h, u) ==
    /\ post' \in [Posters -> PostRequest]
    /\ \A q \in Posters \ {p} : post'[q] = post[q]
    /\ post'[p].of = post[p].of
    /\ post'[p].pc = s
    /\ post'[p].current = c
    /\ post'[p].files = f
    /\ post'[p].held = h
    /\ post'[p].unqueued = u

\* Request p ends.
Ended(p) ==
    /\ post' \in [Posters -> PostRequest]
    /\ \A q \in Posters \ {p} : post'[q] = post[q]
    /\ post'[p] = IdlePoster
-----------------------------------------------------------------------------
(* How a request moves. *)

LEMMA RequestFields ==
    ASSUME IntakeTypeOK, NEW p \in Posters
    PROVE  /\ post[p] \in PostRequest
           /\ post[p].pc \in PostSteps \union {"idle"}
           /\ post[p].of \in 0 .. MaxPosts
           /\ post[p].batch \in BOOLEAN
           /\ post[p].files \in 0 .. MaxFiles
           /\ post[p].current \in Numbers \union {0}
           /\ post[p].seen \in Nat
           /\ post[p].held \in SUBSET Numbers
           /\ post[p].unqueued \in SUBSET Numbers
BY DEF IntakeTypeOK, PostRequest

LEMMA IdleRequest == IdlePoster \in PostRequest
BY PostBoundAssumption DEF IdlePoster, PostRequest

LEMMA ProceedMoves ==
    ASSUME IntakeTypeOK, NEW p \in Posters, NEW s \in PostSteps, Proceed(p, s)
    PROVE  Went(p, s, post[p].current, post[p].files, post[p].held, post[p].unqueued)
BY RequestFields DEF Proceed, IntakeTypeOK, PostRequest, Went

LEMMA HangMoves ==
    ASSUME IntakeTypeOK, NEW p \in Posters, Hang(p)
    PROVE  Ended(p)
BY IdleRequest DEF Hang, IntakeTypeOK, Ended

LEMMA SnapshotFailsMoves ==
    ASSUME IntakeTypeOK, NEW p \in Posters, SnapshotFails(p)
    PROVE  Went(p, "commit", post[p].current, post[p].files, post[p].held, post[p].unqueued)
<1> DEFINE e == [post[p] EXCEPT !.pc = "commit", !.broken = TRUE]
<1>1. e \in PostRequest /\ e.pc = "commit" /\ e.of = post[p].of
  BY RequestFields DEF PostRequest, PostSteps
<1>2. /\ e.current = post[p].current /\ e.files = post[p].files
      /\ e.held = post[p].held /\ e.unqueued = post[p].unqueued
  BY RequestFields DEF PostRequest
<1>3. post' = [post EXCEPT ![p] = e]
  BY DEF SnapshotFails
<1> HIDE DEF e
<1> QED
  BY <1>1, <1>2, <1>3 DEF IntakeTypeOK, Went

LEMMA LetInMoves ==
    ASSUME IntakeTypeOK, NEW p \in Posters, NEW n \in Nat, LetIn(p, n)
    PROVE  /\ made + 1 \in Numbers
           /\ made' = made + 1
           /\ Went(p, "upload", made + 1, post[p].files, post[p].held, post[p].unqueued)
           /\ job' \in [Numbers -> Posted]
           /\ job'[made + 1].of = post[p].of
           /\ job'[made + 1].row = job[made + 1].row
           /\ job'[made + 1].queued = job[made + 1].queued
           /\ job'[made + 1].answered = job[made + 1].answered
           /\ \A i \in Numbers : i # made + 1 => job'[i] = job[i]
<1>1. made + 1 \in Numbers
  BY PostBoundAssumption DEF LetIn, IntakeTypeOK, Numbers
<1>2. Went(p, "upload", made + 1, post[p].files, post[p].held, post[p].unqueued)
  <2> DEFINE e == [post[p] EXCEPT !.pc = "upload", !.current = made + 1, !.seen = n]
  <2>1. e \in PostRequest /\ e.pc = "upload" /\ e.current = made + 1 /\ e.of = post[p].of
    BY <1>1, RequestFields DEF PostRequest, PostSteps
  <2>2. e.files = post[p].files /\ e.held = post[p].held /\ e.unqueued = post[p].unqueued
    BY RequestFields DEF PostRequest
  <2>3. post' = [post EXCEPT ![p] = e]
    BY DEF LetIn
  <2> HIDE DEF e
  <2> QED
    BY <2>1, <2>2, <2>3 DEF IntakeTypeOK, Went
<1>3. /\ job' \in [Numbers -> Posted]
      /\ job'[made + 1].of = post[p].of
      /\ job'[made + 1].row = job[made + 1].row
      /\ job'[made + 1].queued = job[made + 1].queued
      /\ job'[made + 1].answered = job[made + 1].answered
      /\ \A i \in Numbers : i # made + 1 => job'[i] = job[i]
  <2> DEFINE e == [job[made + 1] EXCEPT !.of = post[p].of]
  <2>1. job[made + 1] \in Posted
    BY <1>1 DEF IntakeTypeOK
  <2>2. /\ e \in Posted /\ e.of = post[p].of /\ e.row = job[made + 1].row
        /\ e.queued = job[made + 1].queued /\ e.answered = job[made + 1].answered
    BY <2>1, RequestFields DEF Posted
  <2>3. job' = [job EXCEPT ![made + 1] = e]
    BY DEF LetIn
  <2> HIDE DEF e
  <2> QED
    BY <1>1, <2>2, <2>3 DEF IntakeTypeOK
<1> QED
  BY <1>1, <1>2, <1>3 DEF LetIn

LEMMA ArriveMoves ==
    ASSUME IntakeTypeOK, NEW p \in Posters, ArriveStep(p)
    PROVE  /\ posts < MaxPosts /\ posts' = posts + 1
           /\ post' \in [Posters -> PostRequest]
           /\ \A q \in Posters \ {p} : post'[q] = post[q]
           /\ post'[p].pc = "count" /\ post'[p].of = posts + 1 /\ post'[p].files >= 1
           /\ post'[p].held = {} /\ post'[p].unqueued = {}
           /\ UNCHANGED <<used, job, made, listed, notified, mails, opened, doubled, slips>>
<1>1. PICK n \in 1 .. MaxFiles, b \in BOOLEAN, imported \in BOOLEAN : Arrive(p, n, b, imported)
  <2>1. CASE \E imported \in BOOLEAN : Arrive(p, 1, FALSE, imported)
    <3>1. 1 \in 1 .. MaxFiles
      BY PostBoundAssumption
    <3> QED
      BY <2>1, <3>1, Zenon
  <2>2. CASE \E n \in 1 .. MaxFiles : Arrive(p, n, TRUE, FALSE)
    BY <2>2, Zenon
  <2> QED
    BY <2>1, <2>2 DEF ArriveStep
<1> DEFINE e == [IdlePoster EXCEPT !.pc = "count", !.of = posts + 1, !.batch = b,
                                   !.imported = imported, !.files = n]
<1>2. posts < MaxPosts /\ posts' = posts + 1 /\ posts + 1 \in 0 .. MaxPosts
  BY <1>1, PostBoundAssumption DEF Arrive, IntakeTypeOK
<1>3. e \in PostRequest
  <2>1. n \in 0 .. MaxFiles
    OBVIOUS
  <2> QED
    BY <1>2, <2>1 DEF IdlePoster, PostRequest, PostSteps
<1>4. e.pc = "count" /\ e.of = posts + 1 /\ e.files = n /\ e.held = {} /\ e.unqueued = {}
  BY DEF IdlePoster
<1>5. post' = [post EXCEPT ![p] = e]
  BY <1>1 DEF Arrive
<1> HIDE DEF e
<1>6. n >= 1
  OBVIOUS
<1> QED
  BY <1>1, <1>2, <1>3, <1>4, <1>5, <1>6 DEF IntakeTypeOK, Arrive

LEMMA AddRowMoves ==
    ASSUME PostTypeInv, NEW p \in Posters, AddRow(p)
    PROVE  \E s \in {"count", "snapshot", "commit"}, f \in 0 .. MaxFiles :
              /\ Went(p, s, post[p].current, f, post[p].held \union {post[p].current},
                      post[p].unqueued)
              /\ s = "count" => f >= 1
<1> DEFINE s == IF ~post[p].batch THEN "snapshot"
                ELSE IF post[p].files > 1 THEN "count" ELSE "commit"
           f == post[p].files - 1
           h == post[p].held \union {post[p].current}
           e == [post[p] EXCEPT !.held = h, !.files = f, !.pc = s]
<1>1. post[p].pc = "upload"
  BY DEF AddRow, Reached
<1>2. f \in 0 .. MaxFiles /\ post[p].current \in Numbers /\ (s = "count" => f >= 1)
  BY <1>1, RequestFields, PostBoundAssumption
     DEF PostTypeInv, Places, IntakeTypeOK, Numbers
<1>3. s \in {"count", "snapshot", "commit"} /\ h \in SUBSET Numbers
  BY <1>2, RequestFields DEF PostTypeInv
<1>4. post' = [post EXCEPT ![p] = e]
  BY DEF AddRow
<1> HIDE DEF s, f, h
<1>5. /\ e \in PostRequest /\ e.pc = s /\ e.files = f /\ e.held = h
      /\ e.of = post[p].of /\ e.current = post[p].current /\ e.unqueued = post[p].unqueued
  BY <1>2, <1>3, RequestFields DEF PostTypeInv, PostRequest, PostSteps
<1> HIDE DEF e
<1>6. Went(p, s, post[p].current, f, h, post[p].unqueued)
  BY <1>4, <1>5 DEF PostTypeInv, IntakeTypeOK, Went
<1> QED
  BY <1>2, <1>3, <1>6 DEF h

LEMMA CommitMoves ==
    ASSUME IntakeTypeOK, NEW p \in Posters, CommitRows(p)
    PROVE  /\ Went(p, "queue", post[p].current, post[p].files, post[p].held, post[p].held)
           /\ \E r \in {"saved", "gone"} :
                 \A i \in post[p].held : /\ job'[i].row = r
                                         /\ job'[i].of = job[i].of
                                         /\ job'[i].queued = job[i].queued
                                         /\ job'[i].answered = job[i].answered
           /\ \A i \in Numbers \ post[p].held : job'[i] = job[i]
           /\ job' \in [Numbers -> Posted]
<1>1. Went(p, "queue", post[p].current, post[p].files, post[p].held, post[p].held)
  <2> DEFINE e == [post[p] EXCEPT !.pc = "queue", !.unqueued = post[p].held]
  <2>1. e \in PostRequest /\ e.pc = "queue" /\ e.of = post[p].of /\ e.unqueued = post[p].held
    BY RequestFields DEF PostRequest, PostSteps
  <2>2. e.current = post[p].current /\ e.files = post[p].files /\ e.held = post[p].held
    BY RequestFields DEF PostRequest
  <2>3. post' = [post EXCEPT ![p] = e]
    BY DEF CommitRows
  <2> HIDE DEF e
  <2> QED
    BY <2>1, <2>2, <2>3 DEF IntakeTypeOK, Went
<1> DEFINE r == IF post[p].broken THEN "gone" ELSE "saved"
           e(i) == [job[i] EXCEPT !.row = r]
<1>2. \A i \in Numbers : /\ e(i) \in Posted /\ e(i).row = r /\ e(i).of = job[i].of
                         /\ e(i).queued = job[i].queued /\ e(i).answered = job[i].answered
  BY DEF IntakeTypeOK, Posted
<1>3. job' = [i \in Numbers |-> IF i \in post[p].held THEN e(i) ELSE job[i]]
  BY DEF CommitRows
<1>4. r \in {"saved", "gone"} /\ post[p].held \subseteq Numbers
  BY RequestFields
<1> HIDE DEF r, e
<1> QED
  BY <1>1, <1>2, <1>3, <1>4 DEF IntakeTypeOK

LEMMA QueueMoves ==
    ASSUME IntakeTypeOK, NEW p \in Posters, QueueTask(p)
    PROVE  \E i \in post[p].unqueued, s \in {"queue", "list", "warn", "answer"} :
              /\ Went(p, s, post[p].current, post[p].files, post[p].held,
                      post[p].unqueued \ {i})
              /\ s # "queue" => post[p].unqueued = {i}
              /\ job' \in [Numbers -> Posted]
              /\ job'[i].queued /\ job'[i].of = job[i].of /\ job'[i].row = job[i].row
              /\ job'[i].answered = job[i].answered
              /\ \A k \in Numbers \ {i} : job'[k] = job[k]
<1>1. PICK i \in post[p].unqueued :
          /\ job' = [job EXCEPT ![i] = [@ EXCEPT !.queued = TRUE]]
          /\ post' = [post EXCEPT ![p] = [@ EXCEPT
                 !.unqueued = post[p].unqueued \ {i},
                 !.pc = IF post[p].unqueued = {i} THEN AfterQueue(p) ELSE "queue"]]
  BY DEF QueueTask
<1> DEFINE s == IF post[p].unqueued = {i} THEN AfterQueue(p) ELSE "queue"
           e == [post[p] EXCEPT !.unqueued = post[p].unqueued \ {i}, !.pc = s]
           j == [job[i] EXCEPT !.queued = TRUE]
<1>2. s \in {"queue", "list", "warn", "answer"} /\ (s # "queue" => post[p].unqueued = {i})
  BY DEF AfterQueue, QueueTask, Reached
<1>3. i \in Numbers /\ job[i] \in Posted
  BY RequestFields DEF IntakeTypeOK
<1>4. post' = [post EXCEPT ![p] = e] /\ job' = [job EXCEPT ![i] = j]
  BY <1>1
<1> HIDE DEF s
<1>5. /\ e \in PostRequest /\ e.pc = s /\ e.unqueued = post[p].unqueued \ {i}
      /\ e.of = post[p].of /\ e.current = post[p].current /\ e.files = post[p].files
      /\ e.held = post[p].held
  BY <1>2, RequestFields DEF PostRequest, PostSteps
<1>6. j \in Posted /\ j.queued /\ j.of = job[i].of /\ j.row = job[i].row
      /\ j.answered = job[i].answered
  BY <1>3 DEF Posted
<1> HIDE DEF e, j
<1>7. Went(p, s, post[p].current, post[p].files, post[p].held, post[p].unqueued \ {i})
  BY <1>4, <1>5 DEF IntakeTypeOK, Went
<1> QED
  BY <1>2, <1>3, <1>4, <1>6, <1>7 DEF IntakeTypeOK

LEMMA AnswerMoves ==
    ASSUME IntakeTypeOK, NEW p \in Posters, AnswerPost(p)
    PROVE  /\ Ended(p)
           /\ job' \in [Numbers -> Posted]
           /\ \A i \in Numbers : /\ job'[i].of = job[i].of
                                 /\ job'[i].row = job[i].row
                                 /\ job'[i].queued = job[i].queued
           /\ \A i \in Numbers \ post[p].held : job'[i] = job[i]
<1> DEFINE e(i) == [job[i] EXCEPT !.answered = TRUE]
<1>1. \A i \in Numbers : /\ e(i) \in Posted /\ e(i).row = job[i].row /\ e(i).of = job[i].of
                         /\ e(i).queued = job[i].queued
  <2> SUFFICES ASSUME NEW i \in Numbers
               PROVE  /\ e(i) \in Posted /\ e(i).row = job[i].row /\ e(i).of = job[i].of
                      /\ e(i).queued = job[i].queued
    OBVIOUS
  <2>1. job[i] \in Posted
    BY DEF IntakeTypeOK
  <2>2. e(i) \in Posted
    BY <2>1 DEF Posted
  <2>3. e(i).row = job[i].row /\ e(i).of = job[i].of
    BY <2>1 DEF Posted
  <2>4. e(i).queued = job[i].queued
    BY <2>1 DEF Posted
  <2> QED
    BY <2>2, <2>3, <2>4
<1>2. job' = [i \in Numbers |-> IF i \in post[p].held THEN e(i) ELSE job[i]]
  BY DEF AnswerPost
<1> HIDE DEF e
<1>3. Ended(p)
  BY HangMoves DEF AnswerPost
<1>4. job' \in [Numbers -> Posted]
  BY <1>1, <1>2 DEF IntakeTypeOK
<1>5. \A i \in Numbers : job'[i].of = job[i].of /\ job'[i].row = job[i].row
  BY <1>1, <1>2
<1>6. \A i \in Numbers : job'[i].queued = job[i].queued
  BY <1>1, <1>2
<1>7. \A i \in Numbers \ post[p].held : job'[i] = job[i]
  BY <1>2
<1> QED
  BY <1>3, <1>4, <1>5, <1>6, <1>7
-----------------------------------------------------------------------------
(* Nine shapes of a step. *)

Rest == <<used, listed, notified, mails, opened, doubled>>

Arrives(p) == /\ posts < MaxPosts /\ posts' = posts + 1
              /\ post' \in [Posters -> PostRequest]
              /\ \A q \in Posters \ {p} : post'[q] = post[q]
              /\ post'[p].pc = "count" /\ post'[p].of = posts + 1 /\ post'[p].files >= 1
              /\ post'[p].held = {} /\ post'[p].unqueued = {}
              /\ UNCHANGED <<Rest, job, made, slips>>

LetsIn(p) == /\ Reached(p, "count")
             /\ made + 1 \in Numbers
             /\ made' = made + 1
             /\ Went(p, "upload", made + 1, post[p].files, post[p].held, post[p].unqueued)
             /\ job' \in [Numbers -> Posted]
             /\ job'[made + 1].of = post[p].of
             /\ job'[made + 1].row = job[made + 1].row
             /\ job'[made + 1].queued = job[made + 1].queued
             /\ job'[made + 1].answered = job[made + 1].answered
             /\ \A i \in Numbers : i # made + 1 => job'[i] = job[i]
             /\ slips' \in 0 .. MaxPostFaults
             /\ \/ used' = used + 1 /\ ~Blocked(used + 1) /\ opened' = opened
                \/ used' \in {used, used + 1} /\ opened' = opened + 1
             /\ UNCHANGED <<posts, listed, notified, mails, doubled>>

Leaves(p) == /\ Ended(p)
             /\ used' \in {used, used + 1}
             /\ slips' \in 0 .. MaxPostFaults
             /\ UNCHANGED <<job, made, posts, listed, notified, mails, opened, doubled>>

Adds(p) == /\ Reached(p, "upload")
           /\ \E s \in {"count", "snapshot", "commit"}, f \in 0 .. MaxFiles :
                 /\ Went(p, s, post[p].current, f, post[p].held \union {post[p].current},
                         post[p].unqueued)
                 /\ s = "count" => f >= 1
           /\ UNCHANGED <<Rest, job, made, posts, slips>>

Prepares(p) ==
    /\ Reached(p, "snapshot")
    /\ Went(p, "commit", post[p].current, post[p].files, post[p].held, post[p].unqueued)
    /\ slips' \in 0 .. MaxPostFaults
    /\ UNCHANGED <<Rest, job, made, posts>>

Commits(p) ==
    /\ Reached(p, "commit")
    /\ Went(p, "queue", post[p].current, post[p].files, post[p].held, post[p].held)
    /\ \E r \in {"saved", "gone"} :
          \A i \in post[p].held : /\ job'[i].row = r
                                  /\ job'[i].of = job[i].of
                                  /\ job'[i].queued = job[i].queued
                                  /\ job'[i].answered = job[i].answered
    /\ \A i \in Numbers \ post[p].held : job'[i] = job[i]
    /\ job' \in [Numbers -> Posted]
    /\ UNCHANGED <<Rest, made, posts, slips>>

Queues(p) ==
    /\ Reached(p, "queue")
    /\ \E i \in post[p].unqueued, s \in {"queue", "list", "warn", "answer"} :
          /\ Went(p, s, post[p].current, post[p].files, post[p].held, post[p].unqueued \ {i})
          /\ s # "queue" => post[p].unqueued = {i}
          /\ job' \in [Numbers -> Posted]
          /\ job'[i].queued /\ job'[i].of = job[i].of /\ job'[i].row = job[i].row
          /\ job'[i].answered = job[i].answered
          /\ \A k \in Numbers \ {i} : job'[k] = job[k]
    /\ UNCHANGED <<Rest, made, posts, slips>>

Mailed(t) == /\ mails' \in [Thresholds -> Nat]
             /\ \A u \in Thresholds : u # t => mails'[u] = mails[u]
             /\ mails'[t] \in {mails[t], mails[t] + 1}

Closes(p) ==
    /\ Reached(p, "warn") \/ Reached(p, "list")
    /\ Went(p, "answer", post[p].current, post[p].files, post[p].held, post[p].unqueued)
    /\ \/ listed' = listed
       \/ Reached(p, "list") /\ listed' = listed \union {post[p].held}
    /\ \/ UNCHANGED <<notified, mails, doubled>>
       \/ \E t \in Thresholds :
             /\ notified' = notified \union {t}
             /\ IF t \in notified THEN mails' = mails ELSE Mailed(t)
             /\ doubled' = doubled
       \/ \E t \in Thresholds :
             /\ notified' \in {notified, notified \union {t}}
             /\ Mailed(t)
             /\ doubled' = doubled + 1
    /\ slips' \in 0 .. MaxPostFaults
    /\ UNCHANGED <<used, job, made, posts, opened>>

Answers(p) == /\ Reached(p, "answer")
              /\ Ended(p)
              /\ job' \in [Numbers -> Posted]
              /\ \A i \in Numbers : /\ job'[i].of = job[i].of
                                    /\ job'[i].row = job[i].row
                                    /\ job'[i].queued = job[i].queued
              /\ \A i \in Numbers \ post[p].held : job'[i] = job[i]
              /\ UNCHANGED <<Rest, made, posts, slips>>

LEMMA SlipType ==
    ASSUME IntakeTypeOK, NEW kind, Slip(kind)
    PROVE  slips' \in 0 .. MaxPostFaults
BY PostBoundAssumption DEF IntakeTypeOK, Slip

LEMMA CountShape ==
    ASSUME PostTypeInv, NEW p \in Posters, CountFile(p) \/ CountFileFails(p)
    PROVE  LetsIn(p) \/ Leaves(p)
<1>1. IntakeTypeOK /\ slips \in 0 .. MaxPostFaults /\ used + 1 \in Nat
  BY DEF PostTypeInv, IntakeTypeOK
<1>2. CASE CountFile(p) /\ Blocked(used + 1)
  BY <1>1, <1>2, HangMoves DEF CountFile, Leaves
<1>3. ASSUME CountFile(p), ~Blocked(used + 1)
      PROVE  LetsIn(p)
  <2>1. LetIn(p, used + 1)
    BY <1>3 DEF CountFile
  <2>2. /\ Reached(p, "count") /\ used' = used + 1
        /\ UNCHANGED <<posts, listed, notified, mails, opened, doubled, slips>>
    BY <1>3 DEF CountFile
  <2> QED
    BY <1>1, <1>3, <2>1, <2>2, LetInMoves, Zenon DEF LetsIn
<1>4. ASSUME CountFileFails(p)
      PROVE  LetsIn(p)
  <2>1. LetIn(p, 0) /\ 0 \in Nat
    BY <1>4 DEF CountFileFails
  <2>2. /\ Reached(p, "count") /\ used' \in {used, used + 1} /\ opened' = opened + 1
        /\ UNCHANGED <<posts, listed, notified, mails, doubled>> /\ Slip("redis")
    BY <1>4 DEF CountFileFails
  <2>3. slips' \in 0 .. MaxPostFaults
    BY <1>1, <2>2, SlipType
  <2> QED
    BY <1>1, <2>1, <2>2, <2>3, LetInMoves, Zenon DEF LetsIn
<1> QED
  BY <1>2, <1>3, <1>4

LEMMA LeaveShape ==
    ASSUME PostTypeInv, NEW p \in Posters,
           \/ Refuse(p) \/ RowsFail(p) \/ PresetUnknown(p) \/ QueueTaskFails(p)
           \/ PosterDies(p)
    PROVE  Leaves(p)
<1>1. IntakeTypeOK /\ slips \in 0 .. MaxPostFaults
  BY DEF PostTypeInv, IntakeTypeOK
<1>2. /\ Hang(p)
      /\ UNCHANGED <<used, job, made, posts, listed, notified, mails, opened, doubled>>
  BY DEF Refuse, RowsFail, PresetUnknown, QueueTaskFails, PosterDies
<1>3. slips' \in 0 .. MaxPostFaults
  BY <1>1, SlipType DEF Refuse, RowsFail, PresetUnknown, QueueTaskFails, PosterDies
<1> QED
  BY <1>1, <1>2, <1>3, HangMoves DEF Leaves

LEMMA SendMailType ==
    ASSUME IntakeTypeOK, NEW t \in Thresholds, SendMail(t)
    PROVE  Mailed(t)
BY DEF IntakeTypeOK, SendMail, Mailed

LEMMA CloseShape ==
    ASSUME PostTypeInv, NEW p \in Posters,
           Warn(p) \/ WarnBlindly(p) \/ StoreBatch(p) \/ StoreBatchFails(p)
    PROVE  Closes(p)
<1>1. IntakeTypeOK /\ slips \in 0 .. MaxPostFaults
  BY DEF PostTypeInv, IntakeTypeOK
<1>2. Went(p, "answer", post[p].current, post[p].files, post[p].held, post[p].unqueued)
  BY <1>1, ProceedMoves DEF Warn, WarnBlindly, StoreBatch, StoreBatchFails, PostSteps
<1>3. slips' \in 0 .. MaxPostFaults
  BY <1>1, SlipType DEF Warn, WarnBlindly, StoreBatch, StoreBatchFails
<1> DEFINE t == ThresholdOf(post[p].seen)
<1>4. t \in Thresholds
  BY DEF ThresholdOf, Thresholds
<1>5. ASSUME Warn(p)
      PROVE  Closes(p)
  <2>1. /\ notified' = notified \union {t}
        /\ IF t \in notified THEN mails' = mails ELSE SendMail(t)
        /\ Reached(p, "warn")
        /\ UNCHANGED <<used, job, made, posts, listed, opened, doubled>>
    BY <1>5 DEF Warn
  <2> HIDE DEF t
  <2> QED
    BY <1>1, <1>2, <1>3, <1>4, <2>1, SendMailType DEF Closes
<1>6. ASSUME WarnBlindly(p)
      PROVE  Closes(p)
  <2>1. /\ notified' \in {notified, notified \union {t}}
        /\ SendMail(t)
        /\ doubled' = doubled + 1
        /\ Reached(p, "warn")
        /\ UNCHANGED <<used, job, made, posts, listed, opened>>
    BY <1>6 DEF WarnBlindly
  <2> HIDE DEF t
  <2> QED
    BY <1>1, <1>2, <1>3, <1>4, <2>1, SendMailType DEF Closes
<1>7. CASE StoreBatch(p)
  BY <1>2, <1>3, <1>7 DEF StoreBatch, Closes
<1>8. CASE StoreBatchFails(p)
  BY <1>2, <1>3, <1>8 DEF StoreBatchFails, Closes
<1> QED
  BY <1>5, <1>6, <1>7, <1>8

LEMMA StepShape ==
    ASSUME PostTypeInv, NEW p \in Posters, PostStep(p) \/ PostFault(p)
    PROVE  \/ Arrives(p) \/ LetsIn(p) \/ Leaves(p) \/ Adds(p) \/ Prepares(p)
           \/ Commits(p) \/ Queues(p) \/ Closes(p) \/ Answers(p)
<1>1. IntakeTypeOK /\ slips \in 0 .. MaxPostFaults
  BY DEF PostTypeInv, IntakeTypeOK
<1>2. ArriveStep(p) => Arrives(p)
  BY <1>1, ArriveMoves DEF Arrives, Rest
<1>3. AddRow(p) => Adds(p)
  BY AddRowMoves DEF Adds, AddRow, Rest
<1>4. Snapshot(p) => Prepares(p)
  BY <1>1, ProceedMoves DEF Snapshot, Prepares, PostSteps, Rest
<1>5. SnapshotFails(p) => Prepares(p)
  BY <1>1, SnapshotFailsMoves, SlipType DEF SnapshotFails, Prepares, Rest
<1>6. CommitRows(p) => Commits(p)
  BY <1>1, CommitMoves, Zenon DEF CommitRows, Commits, Rest
<1>7. QueueTask(p) => Queues(p)
  BY <1>1, QueueMoves, Zenon DEF QueueTask, Queues, Rest
<1>8. AnswerPost(p) => Answers(p)
  BY <1>1, AnswerMoves, Zenon DEF AnswerPost, Answers, Rest
<1> QED
  BY <1>2, <1>3, <1>4, <1>5, <1>6, <1>7, <1>8, CountShape, LeaveShape, CloseShape, Zenon
     DEF PostStep, PostFault
-----------------------------------------------------------------------------
(* Type correctness. *)

LEMMA MailType ==
    ASSUME IntakeTypeOK, NEW p \in Posters, Closes(p)
    PROVE  /\ notified' \subseteq Thresholds
           /\ mails' \in [Thresholds -> Nat]
           /\ doubled' \in Nat
BY DEF IntakeTypeOK, Closes, Mailed

LEMMA PlacesMove ==
    ASSUME PostTypeInv, NEW p \in Posters, NEW s, NEW c, NEW f, NEW h, NEW u,
           Went(p, s, c, f, h, u),
           made' \in Nat, made' >= made,
           s \in {"count", "upload"} => f >= 1,
           s = "upload" => c \in 1 .. made',
           h \subseteq 1 .. made', u \subseteq h,
           \A i \in Numbers : i > made' => job'[i] = NewJob
    PROVE  Places'
<1>1. made \in Nat
  BY DEF PostTypeInv, IntakeTypeOK
<1>2. 1 .. made \subseteq 1 .. made'
  BY <1>1
<1>3. \A q \in Posters : post'[q].pc \in {"count", "upload"} => post'[q].files >= 1
  BY DEF PostTypeInv, Places, Went
<1>4. \A q \in Posters : post'[q].pc = "upload" => post'[q].current \in 1 .. made'
  BY <1>2 DEF PostTypeInv, Places, Went
<1>5. \A q \in Posters : /\ post'[q].held \subseteq 1 .. made'
                         /\ post'[q].unqueued \subseteq post'[q].held
  BY <1>2 DEF PostTypeInv, Places, Went
<1> QED
  BY <1>3, <1>4, <1>5 DEF Places

LEMMA PlacesEnd ==
    ASSUME PostTypeInv, NEW p \in Posters, Ended(p), made' = made,
           \A i \in Numbers : i > made => job'[i] = NewJob
    PROVE  Places'
<1>1. /\ post'[p].pc = "idle" /\ post'[p].held = {} /\ post'[p].unqueued = {}
  BY DEF Ended, IdlePoster
<1> QED
  BY <1>1 DEF PostTypeInv, Places, Ended

\* Every variable keeps its type, and numbers are held by the requests that got them.
THEOREM PostTypeCorrect == IntakeSpec => []PostTypeInv
<1>1. IntakeInit => PostTypeInv
  <2> SUFFICES ASSUME IntakeInit PROVE PostTypeInv
    OBVIOUS
  <2>1. /\ IdlePoster.pc = "idle" /\ IdlePoster.held = {} /\ IdlePoster.unqueued = {}
    BY DEF IdlePoster
  <2>2. NewJob \in Posted
    BY PostBoundAssumption DEF NewJob, Posted
  <2>3. IntakeTypeOK
    BY <2>2, IdleRequest, PostBoundAssumption DEF IntakeInit, IntakeTypeOK
  <2>4. Places
    BY <2>1 DEF IntakeInit, Places
  <2> QED
    BY <2>3, <2>4 DEF PostTypeInv
<1>2. PostTypeInv /\ [IntakeNext]_postVars => PostTypeInv'
  <2> SUFFICES ASSUME PostTypeInv, [IntakeNext]_postVars
               PROVE  PostTypeInv'
    OBVIOUS
  <2>1. IntakeTypeOK /\ Places /\ made \in Nat
    BY DEF PostTypeInv, IntakeTypeOK
  <2>2. CASE UNCHANGED postVars
    BY <2>1, <2>2 DEF PostTypeInv, IntakeTypeOK, Places, postVars
  <2>3. ASSUME NEW p \in Posters, PostStep(p) \/ PostFault(p)
        PROVE  PostTypeInv'
    <3>1. CASE Arrives(p)
      <4>1. IntakeTypeOK'
        BY <2>1, <3>1, PostBoundAssumption DEF Arrives, Rest, IntakeTypeOK
      <4>2. Places'
        BY <2>1, <3>1 DEF Arrives, Places
      <4> QED
        BY <4>1, <4>2 DEF PostTypeInv
    <3>2. CASE LetsIn(p)
      <4>1. made' \in 0 .. MaxMade /\ made + 1 \in 1 .. made'
        BY <2>1, <3>2, PostBoundAssumption DEF LetsIn, Numbers
      <4>2. used' \in Nat /\ opened' \in Nat
        BY <2>1, <3>2 DEF LetsIn, IntakeTypeOK
      <4>3. IntakeTypeOK'
        BY <2>1, <3>2, <4>1, <4>2 DEF LetsIn, IntakeTypeOK, Went
      <4>4. post[p].files >= 1
        BY <2>1, <3>2 DEF LetsIn, Reached, Places
      <4>5. \A i \in Numbers : i > made' => job'[i] = NewJob
        BY <2>1, <3>2 DEF LetsIn, Places, Numbers
      <4>6. /\ post[p].held \subseteq 1 .. made
            /\ post[p].unqueued \subseteq post[p].held
        BY <2>1 DEF Places
      <4>7. post[p].held \subseteq 1 .. made'
        BY <2>1, <3>2, <4>6 DEF LetsIn
      <4>8. Places'
        <5>1. made' \in Nat /\ made' >= made
          BY <2>1, <3>2 DEF LetsIn
        <5>2. Went(p, "upload", made + 1, post[p].files, post[p].held, post[p].unqueued)
          BY <3>2 DEF LetsIn
        <5> QED
          BY <4>1, <4>4, <4>5, <4>6, <4>7, <5>1, <5>2, PlacesMove
      <4> QED
        BY <4>3, <4>8 DEF PostTypeInv
    <3>3. CASE Leaves(p)
      <4>1. used' \in Nat
        BY <2>1, <3>3 DEF Leaves, IntakeTypeOK
      <4>2. IntakeTypeOK'
        BY <2>1, <3>3, <4>1 DEF Leaves, IntakeTypeOK, Ended
      <4>3. Places'
        BY <2>1, <3>3, PlacesEnd DEF Leaves, Places
      <4> QED
        BY <4>2, <4>3 DEF PostTypeInv
    <3>4. CASE Adds(p)
      <4>1. PICK s \in {"count", "snapshot", "commit"}, f \in 0 .. MaxFiles :
                /\ Went(p, s, post[p].current, f, post[p].held \union {post[p].current},
                        post[p].unqueued)
                /\ s = "count" => f >= 1
        BY <3>4 DEF Adds
      <4>2. UNCHANGED <<used, listed, notified, mails, opened, doubled, job, made, posts, slips>>
        BY <3>4 DEF Adds, Rest
      <4>3. IntakeTypeOK'
        BY <2>1, <4>1, <4>2 DEF IntakeTypeOK, Went
      <4>4. post[p].current \in 1 .. made
        BY <2>1, <3>4 DEF Adds, Reached, Places
      <4>5. Places'
        <5>1. made' \in Nat /\ made' >= made /\ made' = made
          BY <2>1, <4>2
        <5>2. /\ post[p].held \union {post[p].current} \subseteq 1 .. made'
              /\ post[p].unqueued \subseteq post[p].held \union {post[p].current}
          BY <2>1, <4>2, <4>4 DEF Places
        <5>3. \A i \in Numbers : i > made' => job'[i] = NewJob
          BY <2>1, <4>2 DEF Places
        <5> QED
          BY <4>1, <5>1, <5>2, <5>3, PlacesMove
      <4> QED
        BY <4>3, <4>5 DEF PostTypeInv
    <3>5. ASSUME Prepares(p) \/ Closes(p)
          PROVE  PostTypeInv'
      <4>1. PICK s \in {"commit", "answer"} :
                Went(p, s, post[p].current, post[p].files, post[p].held, post[p].unqueued)
        BY <3>5 DEF Prepares, Closes
      <4>2. UNCHANGED <<used, opened, job, made, posts>> /\ slips' \in 0 .. MaxPostFaults
        BY <3>5 DEF Prepares, Closes, Rest
      <4>3. /\ notified' \subseteq Thresholds
            /\ mails' \in [Thresholds -> Nat]
            /\ doubled' \in Nat
        BY <2>1, <3>5, MailType DEF Prepares, Rest, IntakeTypeOK
      <4>4. listed' \subseteq SUBSET Numbers
        <5>1. post[p].held \in SUBSET Numbers
          BY <2>1, RequestFields
        <5> QED
          BY <2>1, <3>5, <5>1 DEF Prepares, Closes, Rest, IntakeTypeOK
      <4>5. IntakeTypeOK'
        BY <2>1, <4>1, <4>2, <4>3, <4>4 DEF IntakeTypeOK, Went
      <4>6. Places'
        <5>1. made' \in Nat /\ made' >= made /\ made' = made
          BY <2>1, <4>2
        <5>2. post[p].held \subseteq 1 .. made' /\ post[p].unqueued \subseteq post[p].held
          BY <2>1, <4>2 DEF Places
        <5>3. \A i \in Numbers : i > made' => job'[i] = NewJob
          BY <2>1, <4>2 DEF Places
        <5> QED
          BY <4>1, <5>1, <5>2, <5>3, PlacesMove
      <4> QED
        BY <4>5, <4>6 DEF PostTypeInv
    <3>6. CASE Commits(p)
      <4>1. UNCHANGED <<used, listed, notified, mails, opened, doubled, made, posts, slips>>
        BY <3>6 DEF Commits, Rest
      <4>2. IntakeTypeOK'
        BY <2>1, <3>6, <4>1 DEF Commits, IntakeTypeOK, Went
      <4>3. Places'
        <5>1. made' \in Nat /\ made' >= made /\ made' = made
          BY <2>1, <4>1
        <5>2. post[p].held \subseteq 1 .. made'
          BY <2>1, <4>1 DEF Places
        <5>3. \A i \in Numbers : i > made' => job'[i] = NewJob
          <6> SUFFICES ASSUME NEW i \in Numbers, i > made
                       PROVE  job'[i] = NewJob
            BY <4>1
          <6>1. i \notin post[p].held
            BY <2>1 DEF Places
          <6> QED
            BY <2>1, <3>6, <6>1 DEF Commits, Places
        <5>4. Went(p, "queue", post[p].current, post[p].files, post[p].held, post[p].held)
          BY <3>6 DEF Commits
        <5> QED
          BY <5>1, <5>2, <5>3, <5>4, PlacesMove
      <4> QED
        BY <4>2, <4>3 DEF PostTypeInv
    <3>7. CASE Queues(p)
      <4>1. UNCHANGED <<used, listed, notified, mails, opened, doubled, made, posts, slips>>
        BY <3>7 DEF Queues, Rest
      <4>2. PICK i \in post[p].unqueued, s \in {"queue", "list", "warn", "answer"} :
                /\ Went(p, s, post[p].current, post[p].files, post[p].held,
                        post[p].unqueued \ {i})
                /\ job' \in [Numbers -> Posted]
                /\ \A k \in Numbers \ {i} : job'[k] = job[k]
        BY <3>7 DEF Queues
      <4>3. IntakeTypeOK'
        BY <2>1, <4>1, <4>2 DEF IntakeTypeOK, Went
      <4>4. Places'
        <5>1. made' \in Nat /\ made' >= made /\ made' = made
          BY <2>1, <4>1
        <5>2. /\ post[p].held \subseteq 1 .. made'
              /\ post[p].unqueued \ {i} \subseteq post[p].held
              /\ i \in 1 .. made
          BY <2>1, <4>1, <4>2 DEF Places
        <5>3. \A k \in Numbers : k > made' => job'[k] = NewJob
          BY <2>1, <4>1, <4>2, <5>2 DEF Places
        <5> QED
          BY <4>2, <5>1, <5>2, <5>3, PlacesMove
      <4> QED
        BY <4>3, <4>4 DEF PostTypeInv
    <3>8. CASE Answers(p)
      <4>1. UNCHANGED <<used, listed, notified, mails, opened, doubled, made, posts, slips>>
        BY <3>8 DEF Answers, Rest
      <4>2. IntakeTypeOK'
        BY <2>1, <3>8, <4>1 DEF Answers, IntakeTypeOK, Ended
      <4>3. \A i \in Numbers : i > made => job'[i] = NewJob
        <5> SUFFICES ASSUME NEW i \in Numbers, i > made
                     PROVE  job'[i] = NewJob
          OBVIOUS
        <5>1. i \notin post[p].held
          BY <2>1 DEF Places
        <5> QED
          BY <2>1, <3>8, <5>1 DEF Answers, Places
      <4>4. Places'
        BY <3>8, <4>1, <4>3, PlacesEnd DEF Answers
      <4> QED
        BY <4>2, <4>4 DEF PostTypeInv
    <3> QED
      BY <2>3, <3>1, <3>2, <3>3, <3>4, <3>5, <3>6, <3>7, <3>8, StepShape
  <2> QED
    BY <2>2, <2>3 DEF IntakeNext
<1> QED
  BY <1>1, <1>2, PTL DEF IntakeSpec
-----------------------------------------------------------------------------
(* The limit of the day. *)

\* The files that were let in by the counter were counted, and the count allowed the
\* last of them.
Room == /\ opened <= made
        /\ made - opened <= used
        /\ made - opened > 0 => ~Blocked(made - opened)

\* Beyond a count that is blocked every count is.
LEMMA BlockedGrows ==
    ASSUME NEW a \in Nat, NEW b \in Nat, a <= b, Blocked(a)
    PROVE  Blocked(b)
<1>1. a > Limit /\ b > Limit
  BY TenantAssumption DEF Blocked
<1>2. CASE ~Overage \/ Rate = 0
  BY <1>1, <1>2 DEF Blocked
<1>3. CASE SpendCap # NoCap /\ (a - Limit) * Rate > SpendCap
  <2> DEFINE x == a - Limit
             d == b - a
  <2>1. x \in Nat /\ d \in Nat /\ b - Limit = x + d
    BY <1>1, TenantAssumption
  <2>2. x * Rate \in Nat /\ d * Rate \in Nat
    BY <2>1, TenantAssumption
  <2>3. (b - Limit) * Rate = x * Rate + d * Rate
    BY <2>1, TenantAssumption
  <2>4. SpendCap \in Nat
    BY <1>3, TenantAssumption
  <2>5. (b - Limit) * Rate > SpendCap
    BY <1>3, <2>2, <2>3, <2>4
  <2> QED
    BY <1>1, <1>3, <2>5 DEF Blocked
<1> QED
  BY <1>2, <1>3 DEF Blocked

LEMMA SavedBound ==
    ASSUME PostTypeInv
    PROVE  Cardinality(Saved) \in Nat /\ Cardinality(Saved) <= made
<1>1. made \in Nat
  BY DEF PostTypeInv, IntakeTypeOK
<1>2. IsFiniteSet(1 .. made) /\ Cardinality(1 .. made) = made
  <2>1. Cardinality(1 .. made) = IF 1 > made THEN 0 ELSE made - 1 + 1
    BY <1>1, FS_Interval
  <2>2. IsFiniteSet(1 .. made)
    BY <1>1, FS_Interval
  <2> QED
    BY <1>1, <2>1, <2>2
<1>3. Saved \subseteq 1 .. made
  <2> SUFFICES ASSUME NEW i \in Saved
               PROVE  i \in 1 .. made
    OBVIOUS
  <2>1. i \in Numbers /\ job[i].row = "saved"
    BY DEF Saved
  <2>2. job[i] # NewJob
    BY <2>1 DEF NewJob
  <2> QED
    BY <1>1, <2>1, <2>2 DEF PostTypeInv, Places, Numbers
<1> QED
  BY <1>2, <1>3, FS_Subset, FS_CardinalityType

LEMMA RoomKept ==
    ASSUME PostTypeInv, Room, made' = made, opened' = opened, used' \in {used, used + 1}
    PROVE  Room'
<1>1. made \in Nat /\ opened \in Nat /\ used \in Nat
  BY DEF PostTypeInv, IntakeTypeOK
<1>2. made' - opened' <= used'
  BY <1>1 DEF Room
<1> QED
  BY <1>2 DEF Room, Blocked

\* check_rate_limit with build_usage_info: whichever requests count at the same time and
\* whatever is refused after it was counted, the jobs of a day stay within the tenant's
\* limit and spending cap, apart from those let in because Redis failed.
THEOREM LimitAlwaysHolds == IntakeSpec => []LimitHolds
<1>1. IntakeInit => Room
  BY DEF IntakeInit, Room
<1>2. PostTypeInv /\ Room /\ [IntakeNext]_postVars => Room'
  <2> SUFFICES ASSUME PostTypeInv, Room, [IntakeNext]_postVars
               PROVE  Room'
    OBVIOUS
  <2>1. made \in Nat /\ opened \in Nat /\ used \in Nat
    BY DEF PostTypeInv, IntakeTypeOK
  <2>2. CASE UNCHANGED postVars
    BY <2>2, RoomKept DEF postVars
  <2>3. ASSUME NEW p \in Posters, PostStep(p) \/ PostFault(p)
        PROVE  Room'
    <3>1. CASE LetsIn(p)
      <4>1. made' = made + 1
        BY <3>1 DEF LetsIn
      <4>2. CASE used' = used + 1 /\ ~Blocked(used + 1) /\ opened' = opened
        <5> DEFINE g == made + 1 - opened
        <5>1. g \in Nat /\ used + 1 \in Nat /\ g <= used + 1
          BY <2>1 DEF Room
        <5>2. ~Blocked(g)
          BY <4>2, <5>1, BlockedGrows
        <5>3. made' - opened' = g
          BY <2>1, <4>1, <4>2
        <5>4. opened' <= made' /\ made' - opened' <= used'
          BY <2>1, <4>1, <4>2, <5>1, <5>3 DEF Room
        <5> HIDE DEF g
        <5>5. ~Blocked(made' - opened')
          BY <5>2, <5>3
        <5> QED
          BY <5>4, <5>5 DEF Room, Blocked
      <4>3. CASE used' \in {used, used + 1} /\ opened' = opened + 1
        <5>1. made' - opened' = made - opened
          BY <2>1, <4>1, <4>3
        <5>2. Blocked(made - opened)' = Blocked(made - opened)
          BY <5>1 DEF Blocked
        <5> QED
          BY <2>1, <4>1, <4>3, <5>1, <5>2 DEF Room
      <4> QED
        BY <3>1, <4>2, <4>3 DEF LetsIn
    <3>2. CASE Leaves(p)
      BY <3>2, RoomKept DEF Leaves
    <3>3. CASE Closes(p)
      BY <3>3, RoomKept DEF Closes
    <3>4. ASSUME UNCHANGED <<used, made, opened>>
          PROVE  Room'
      BY <3>4, RoomKept
    <3> QED
      BY <2>3, <3>1, <3>2, <3>3, <3>4, StepShape, Zenon
         DEF Arrives, Adds, Prepares, Commits, Queues, Answers, Rest
  <2> QED
    BY <2>2, <2>3 DEF IntakeNext
<1>3. PostTypeInv /\ Room => LimitHolds
  <2> SUFFICES ASSUME PostTypeInv, Room, Cardinality(Saved) - opened > 0
               PROVE  ~Blocked(Cardinality(Saved) - opened)
    BY DEF LimitHolds
  <2> DEFINE n == Cardinality(Saved) - opened
             g == made - opened
  <2>1. made \in Nat /\ opened \in Nat
    BY DEF PostTypeInv, IntakeTypeOK
  <2>2. n \in Nat /\ g \in Nat /\ n <= g /\ g > 0
    BY <2>1, SavedBound
  <2>3. ~Blocked(g)
    BY <2>2 DEF Room
  <2> QED
    BY <2>2, <2>3, BlockedGrows
<1> QED
  BY <1>1, <1>2, <1>3, PostTypeCorrect, PTL DEF IntakeSpec
-----------------------------------------------------------------------------
(* The warning mails. *)

\* A mail that is sent with a look at the key leaves the key.
Postmarks == \A t \in Thresholds : /\ mails[t] <= 1 + doubled
                                   /\ t \notin notified => mails[t] <= doubled

\* _send_rate_warning_if_needed: requests that pass a threshold together send one mail,
\* but for those that could not ask Redis.
THEOREM OneMailAlways == IntakeSpec => []OneMailPerThreshold
<1>1. IntakeInit => Postmarks
  BY DEF IntakeInit, Postmarks
<1>2. PostTypeInv /\ Postmarks /\ [IntakeNext]_postVars => Postmarks'
  <2> SUFFICES ASSUME PostTypeInv, Postmarks, [IntakeNext]_postVars
               PROVE  Postmarks'
    OBVIOUS
  <2>1. doubled \in Nat /\ \A t \in Thresholds : mails[t] \in Nat
    BY DEF PostTypeInv, IntakeTypeOK
  <2>2. ASSUME UNCHANGED <<notified, mails, doubled>>
        PROVE  Postmarks'
    BY <2>2 DEF Postmarks
  <2>3. ASSUME NEW p \in Posters, PostStep(p) \/ PostFault(p)
        PROVE  Postmarks'
    <3>1. CASE Closes(p)
      <4>1. ASSUME NEW t \in Thresholds,
                   notified' = notified \union {t},
                   IF t \in notified THEN mails' = mails ELSE Mailed(t),
                   doubled' = doubled
            PROVE  Postmarks'
        BY <2>1, <4>1 DEF Postmarks, Mailed
      <4>2. ASSUME NEW t \in Thresholds,
                   notified' \in {notified, notified \union {t}},
                   Mailed(t),
                   doubled' = doubled + 1
            PROVE  Postmarks'
        BY <2>1, <4>2 DEF Postmarks, Mailed
      <4> QED
        BY <2>2, <3>1, <4>1, <4>2 DEF Closes
    <3> QED
      BY <2>2, <2>3, <3>1, StepShape, Zenon
         DEF Arrives, LetsIn, Leaves, Adds, Prepares, Commits, Queues, Answers, Rest
  <2> QED
    BY <2>2, <2>3 DEF IntakeNext, postVars
<1>3. Postmarks => OneMailPerThreshold
  BY DEF Postmarks, OneMailPerThreshold
<1> QED
  BY <1>1, <1>2, <1>3, PostTypeCorrect, PTL DEF IntakeSpec
-----------------------------------------------------------------------------
(* Whose a job is. *)

\* The jobs a request answers for.
Hands(r) == r.held \union (IF r.pc = "upload" THEN {r.current} ELSE {})

\* A request that is served is known by its number, and the jobs with that number are
\* those it has in hand.
Owners ==
    /\ \A p \in Posters : post[p].pc # "idle" => post[p].of \in 1 .. posts
    /\ \A p, q \in Posters :
          post[p].pc # "idle" /\ post[q].pc # "idle" /\ post[p].of = post[q].of => p = q
    /\ \A i \in Numbers : job[i].of \in 0 .. posts
    /\ \A p \in Posters : post[p].pc # "idle" =>
          \A i \in Numbers : job[i].of = post[p].of <=> i \in Hands(post[p])

LEMMA HandsType ==
    ASSUME PostTypeInv, NEW p \in Posters
    PROVE  /\ Hands(post[p]) \subseteq 1 .. made
           /\ Hands(post[p]) \subseteq Numbers
<1>1. Hands(post[p]) \subseteq 1 .. made
  BY DEF PostTypeInv, Places, Hands
<1>2. 1 .. made \subseteq Numbers
  BY PostBoundAssumption DEF PostTypeInv, IntakeTypeOK, Numbers
<1> QED
  BY <1>1, <1>2

LEMMA OwnersKept ==
    ASSUME Owners, posts' = posts,
           \A i \in Numbers : job'[i].of = job[i].of,
           \A p \in Posters : post'[p].pc # "idle" =>
               /\ post[p].pc # "idle"
               /\ post'[p].of = post[p].of
               /\ Hands(post'[p]) = Hands(post[p])
    PROVE  Owners'
BY DEF Owners

LEMMA OwnersStep ==
    ASSUME PostTypeInv, Owners, NEW p \in Posters,
           \/ Arrives(p) \/ LetsIn(p) \/ Leaves(p) \/ Adds(p) \/ Prepares(p)
           \/ Commits(p) \/ Queues(p) \/ Closes(p) \/ Answers(p)
    PROVE  Owners'
<1>1. posts \in Nat /\ made \in Nat
  BY DEF PostTypeInv, IntakeTypeOK
<1>2. CASE Arrives(p)
  <2>1. /\ posts' = posts + 1 /\ job' = job
        /\ \A q \in Posters \ {p} : post'[q] = post[q]
        /\ post'[p].of = posts + 1
    BY <1>2 DEF Arrives
  <2>2. Hands(post'[p]) = {}
    BY <1>2 DEF Arrives, Hands
  <2>3. \A q \in Posters : post'[q].pc # "idle" => post'[q].of \in 1 .. posts'
    BY <1>1, <2>1 DEF Owners
  <2>4. \A u, v \in Posters :
            post'[u].pc # "idle" /\ post'[v].pc # "idle" /\ post'[u].of = post'[v].of => u = v
    BY <1>1, <2>1 DEF Owners
  <2>5. \A i \in Numbers : job'[i].of \in 0 .. posts' /\ job'[i].of # posts + 1
    BY <1>1, <2>1 DEF Owners
  <2>6. \A q \in Posters : post'[q].pc # "idle" =>
            \A i \in Numbers : job'[i].of = post'[q].of <=> i \in Hands(post'[q])
    BY <2>1, <2>2, <2>5 DEF Owners
  <2> QED
    BY <2>3, <2>4, <2>5, <2>6 DEF Owners
<1>3. CASE LetsIn(p)
  <2> DEFINE n == made + 1
  <2>1. /\ posts' = posts /\ n \in Numbers
        /\ \A q \in Posters \ {p} : post'[q] = post[q]
        /\ post'[p].of = post[p].of /\ post'[p].held = post[p].held
        /\ post'[p].pc = "upload" /\ post'[p].current = n
        /\ job'[n].of = post[p].of
        /\ \A i \in Numbers : i # n => job'[i] = job[i]
    BY <1>3 DEF LetsIn, Went
  <2>2. post[p].pc = "count"
    BY <1>3 DEF LetsIn, Reached
  <2>3. Hands(post'[p]) = Hands(post[p]) \union {n}
    BY <2>1, <2>2 DEF Hands
  <2>4. \A q \in Posters : n \notin Hands(post[q])
    BY <1>1, HandsType
  <2> HIDE DEF n
  <2>5. \A q \in Posters : post'[q].pc # "idle" => post'[q].of \in 1 .. posts'
    BY <2>1, <2>2 DEF Owners
  <2>6. \A u, v \in Posters :
            post'[u].pc # "idle" /\ post'[v].pc # "idle" /\ post'[u].of = post'[v].of => u = v
    BY <2>1, <2>2 DEF Owners
  <2>7. \A i \in Numbers : job'[i].of \in 0 .. posts'
    BY <1>1, <2>1, <2>2 DEF Owners
  <2>8. ASSUME NEW q \in Posters, post'[q].pc # "idle", NEW i \in Numbers
        PROVE  job'[i].of = post'[q].of <=> i \in Hands(post'[q])
    <3>1. CASE q = p
      BY <2>1, <2>2, <2>3, <3>1 DEF Owners
    <3>2. CASE q # p
      <4>1. post[q].of # post[p].of
        BY <2>1, <2>2, <2>8, <3>2 DEF Owners
      <4> QED
        BY <2>1, <2>4, <2>8, <3>2, <4>1 DEF Owners
    <3> QED
      BY <3>1, <3>2
  <2> QED
    BY <2>5, <2>6, <2>7, <2>8 DEF Owners
<1>4. CASE Leaves(p) \/ Answers(p)
  <2>1. /\ posts' = posts /\ \A i \in Numbers : job'[i].of = job[i].of
        /\ \A q \in Posters \ {p} : post'[q] = post[q]
        /\ post'[p].pc = "idle"
    BY <1>4 DEF Leaves, Answers, Ended, IdlePoster
  <2> QED
    BY <2>1, OwnersKept
<1>5. CASE Adds(p)
  <2>1. /\ posts' = posts /\ job' = job /\ post[p].pc = "upload"
        /\ \A q \in Posters \ {p} : post'[q] = post[q]
        /\ post'[p].of = post[p].of
        /\ post'[p].pc \in {"count", "snapshot", "commit"}
        /\ post'[p].held = post[p].held \union {post[p].current}
    BY <1>5 DEF Adds, Reached, Went
  <2>2. Hands(post'[p]) = Hands(post[p])
    BY <2>1 DEF Hands
  <2> QED
    BY <2>1, <2>2, OwnersKept
<1>6. CASE Prepares(p) \/ Commits(p) \/ Queues(p) \/ Closes(p)
  <2>1. /\ \A q \in Posters \ {p} : post'[q] = post[q]
        /\ post'[p].of = post[p].of
        /\ post'[p].held = post[p].held
        /\ post[p].pc \notin {"idle", "upload"} /\ post'[p].pc # "upload"
    BY <1>6 DEF Prepares, Commits, Queues, Closes, Reached, Went
  <2>2. posts' = posts
    BY <1>6 DEF Prepares, Commits, Queues, Closes
  <2>3. \A i \in Numbers : job'[i].of = job[i].of
    <3>1. CASE Prepares(p) \/ Closes(p)
      BY <3>1 DEF Prepares, Closes
    <3>2. CASE Commits(p)
      BY <3>2 DEF Commits
    <3>3. CASE Queues(p)
      BY <3>3 DEF Queues
    <3> QED
      BY <1>6, <3>1, <3>2, <3>3
  <2>4. Hands(post'[p]) = Hands(post[p])
    BY <2>1 DEF Hands
  <2> QED
    BY <2>1, <2>2, <2>3, <2>4, OwnersKept
<1> QED
  BY <1>2, <1>3, <1>4, <1>5, <1>6
-----------------------------------------------------------------------------
(* Rows, tasks and answers. *)

Early == {"count", "upload", "snapshot", "commit"}
Late == {"queue", "warn", "list", "answer"}

\* Before the commit of its request no row is visible, after it all are, and all but those
\* still to be queued are queued.
Pages ==
    /\ \A p \in Posters : post[p].pc \in Early =>
          \A i \in Hands(post[p]) : job[i].row = "none"
    /\ \A p \in Posters : post[p].pc \in Late =>
          \A i \in post[p].held : /\ job[i].row # "none"
                                  /\ i \in post[p].unqueued \/ job[i].queued
    /\ \A p \in Posters : post[p].pc \in {"warn", "list", "answer"} => post[p].unqueued = {}
    /\ \A i, k \in Numbers : job[i].of = job[k].of /\ job[i].of > 0 => job[i].row = job[k].row
    /\ \A i \in Numbers : job[i].queued => job[i].row # "none"
    /\ \A i \in Numbers : job[i].answered => job[i].queued
    /\ \A B \in listed : \A i \in B : job[i].queued

\* A step that leaves the jobs and the list alone, and moves p within its stage.
LEMMA PagesKept ==
    ASSUME Pages, NEW p \in Posters, job' = job, listed' = listed,
           \A q \in Posters \ {p} : post'[q] = post[q],
           \/ post'[p].pc = "idle"
           \/ /\ post'[p].pc \in Early
              /\ \A i \in Hands(post'[p]) : job[i].row = "none"
    PROVE  Pages'
<1>1. post'[p].pc \notin Late
  BY DEF Early, Late
<1>2. \A q \in Posters : post'[q].pc \in Early =>
          \A i \in Hands(post'[q]) : job'[i].row = "none"
  BY DEF Pages, Early
<1>3. \A q \in Posters : post'[q].pc \in Late =>
          \A i \in post'[q].held : /\ job'[i].row # "none"
                                   /\ i \in post'[q].unqueued \/ job'[i].queued
  BY <1>1 DEF Pages
<1>4. \A q \in Posters : post'[q].pc \in {"warn", "list", "answer"} => post'[q].unqueued = {}
  BY <1>1 DEF Pages, Late
<1> QED
  BY <1>2, <1>3, <1>4 DEF Pages

LEMMA PagesLetIn ==
    ASSUME PostTypeInv, Owners, Pages, NEW p \in Posters, LetsIn(p)
    PROVE  Pages'
<1> DEFINE n == made + 1
<1>1. /\ n \in Numbers /\ listed' = listed
      /\ \A q \in Posters \ {p} : post'[q] = post[q]
      /\ post'[p].of = post[p].of /\ post'[p].held = post[p].held
      /\ post'[p].pc = "upload" /\ post'[p].current = n
      /\ job'[n].of = post[p].of /\ job'[n].row = job[n].row
      /\ \A i \in Numbers : i # n => job'[i] = job[i]
  BY DEF LetsIn, Went
<1>2. \A i \in Numbers : /\ job'[i].row = job[i].row
                         /\ job'[i].queued = job[i].queued
                         /\ job'[i].answered = job[i].answered
  BY DEF LetsIn
<1>3. post[p].pc = "count"
  BY DEF LetsIn, Reached
<1>4. job[n].row = "none"
  BY <1>1 DEF PostTypeInv, IntakeTypeOK, Places, NewJob
<1>5. Hands(post'[p]) = Hands(post[p]) \union {n}
  BY <1>1, <1>3 DEF Hands
<1>6. \A q \in Posters : Hands(post[q]) \subseteq Numbers /\ post[q].held \subseteq Numbers
  BY HandsType DEF Hands
<1>7. \A B \in listed : B \subseteq Numbers
  BY DEF PostTypeInv, IntakeTypeOK
<1> HIDE DEF n
<1>8. \A i \in Hands(post'[p]) : job'[i].row = "none"
  BY <1>2, <1>3, <1>4, <1>5, <1>6, <1>1 DEF Pages, Early
<1>9. \A q \in Posters : post'[q].pc \in Early =>
          \A i \in Hands(post'[q]) : job'[i].row = "none"
  BY <1>1, <1>2, <1>6, <1>8 DEF Pages
<1>10. \A q \in Posters : post'[q].pc \in Late =>
          \A i \in post'[q].held : /\ job'[i].row # "none"
                                   /\ i \in post'[q].unqueued \/ job'[i].queued
  BY <1>1, <1>2, <1>6 DEF Pages, Late
<1>11. \A q \in Posters : post'[q].pc \in {"warn", "list", "answer"} => post'[q].unqueued = {}
  BY <1>1 DEF Pages
<1>12. \A i, k \in Numbers :
          job'[i].of = job'[k].of /\ job'[i].of > 0 => job'[i].row = job'[k].row
  <2>1. ASSUME NEW i \in Numbers, i # n, job'[i].of = post[p].of
        PROVE  job'[i].row = "none"
    <3>1. i \in Hands(post[p])
      BY <1>1, <1>3, <2>1 DEF Owners
    <3> QED
      BY <1>2, <1>3, <2>1, <3>1 DEF Pages, Early
  <2>2. job'[n].row = "none"
    BY <1>1, <1>4
  <2> QED
    BY <1>1, <2>1, <2>2 DEF Pages
<1>13. \A i \in Numbers : /\ job'[i].queued => job'[i].row # "none"
                          /\ job'[i].answered => job'[i].queued
  BY <1>2 DEF Pages
<1>14. \A B \in listed' : \A i \in B : job'[i].queued
  BY <1>1, <1>2, <1>7 DEF Pages
<1> QED
  BY <1>9, <1>10, <1>11, <1>12, <1>13, <1>14 DEF Pages

\* The jobs of two requests are apart.
LEMMA HandsApart ==
    ASSUME PostTypeInv, Owners, NEW p \in Posters, NEW q \in Posters, p # q,
           post[p].pc # "idle", post[q].pc # "idle"
    PROVE  \A i \in Hands(post[p]) : i \notin Hands(post[q])
BY HandsType DEF Owners

LEMMA PagesCommit ==
    ASSUME PostTypeInv, Owners, Pages, NEW p \in Posters, Commits(p)
    PROVE  Pages'
<1>1. PICK r \in {"saved", "gone"} :
          \A i \in post[p].held : /\ job'[i].row = r
                                  /\ job'[i].of = job[i].of
                                  /\ job'[i].queued = job[i].queued
                                  /\ job'[i].answered = job[i].answered
  BY DEF Commits
<1>2. /\ \A i \in Numbers \ post[p].held : job'[i] = job[i]
      /\ listed' = listed
      /\ \A q \in Posters \ {p} : post'[q] = post[q]
      /\ post'[p].pc = "queue" /\ post'[p].held = post[p].held
      /\ post'[p].unqueued = post[p].held
  BY DEF Commits, Went, Rest
<1>3. post[p].pc = "commit" /\ Hands(post[p]) = post[p].held
  BY DEF Commits, Reached, Hands
<1>4. \A q \in Posters : Hands(post[q]) \subseteq Numbers /\ post[q].held \subseteq Hands(post[q])
  BY HandsType DEF Hands
<1>5. \A i \in Numbers : /\ job'[i].of = job[i].of
                         /\ job'[i].queued = job[i].queued
                         /\ job'[i].answered = job[i].answered
  BY <1>1, <1>2
<1>6. \A q \in Posters : q # p /\ post[q].pc # "idle" =>
          \A i \in Hands(post[q]) : job'[i] = job[i]
  BY <1>2, <1>3, <1>4, HandsApart
<1>7. \A q \in Posters : post'[q].pc \in Early =>
          \A i \in Hands(post'[q]) : job'[i].row = "none"
  BY <1>2, <1>6 DEF Pages, Early
<1>8. \A q \in Posters : post'[q].pc \in Late =>
          \A i \in post'[q].held : /\ job'[i].row # "none"
                                   /\ i \in post'[q].unqueued \/ job'[i].queued
  BY <1>1, <1>2, <1>4, <1>6 DEF Pages, Late
<1>9. \A q \in Posters : post'[q].pc \in {"warn", "list", "answer"} => post'[q].unqueued = {}
  BY <1>2 DEF Pages
<1>10. \A i, k \in Numbers :
          job'[i].of = job'[k].of /\ job'[i].of > 0 => job'[i].row = job'[k].row
  <2> SUFFICES ASSUME NEW i \in Numbers, NEW k \in Numbers,
                      job[i].of = job[k].of, job[i].of > 0
               PROVE  job'[i].row = job'[k].row
    BY <1>5
  <2>1. i \in post[p].held <=> k \in post[p].held
    BY <1>3 DEF Owners
  <2> QED
    BY <1>1, <1>2, <2>1 DEF Pages
<1>11. \A i \in Numbers : /\ job'[i].queued => job'[i].row # "none"
                          /\ job'[i].answered => job'[i].queued
  BY <1>1, <1>2, <1>5 DEF Pages
<1>12. \A B \in listed' : \A i \in B : job'[i].queued
  <2>1. \A B \in listed : B \subseteq Numbers
    BY DEF PostTypeInv, IntakeTypeOK
  <2> QED
    BY <1>2, <1>5, <2>1 DEF Pages
<1> QED
  BY <1>7, <1>8, <1>9, <1>10, <1>11, <1>12 DEF Pages

LEMMA PagesQueue ==
    ASSUME PostTypeInv, Owners, Pages, NEW p \in Posters, Queues(p)
    PROVE  Pages'
<1>1. PICK n \in post[p].unqueued, s \in {"queue", "list", "warn", "answer"} :
          /\ Went(p, s, post[p].current, post[p].files, post[p].held, post[p].unqueued \ {n})
          /\ s # "queue" => post[p].unqueued = {n}
          /\ job'[n].queued /\ job'[n].of = job[n].of /\ job'[n].row = job[n].row
          /\ job'[n].answered = job[n].answered
          /\ \A k \in Numbers \ {n} : job'[k] = job[k]
  BY DEF Queues
<1>2. /\ \A q \in Posters \ {p} : post'[q] = post[q]
      /\ post'[p].pc = s /\ post'[p].held = post[p].held
      /\ post'[p].unqueued = post[p].unqueued \ {n}
      /\ listed' = listed
  BY <1>1 DEF Queues, Went, Rest
<1>3. post[p].pc = "queue"
  BY DEF Queues, Reached
<1>4. \A q \in Posters : Hands(post[q]) \subseteq Numbers /\ post[q].held \subseteq Hands(post[q])
  BY HandsType DEF Hands
<1>5. n \in post[p].held
  BY <1>1 DEF PostTypeInv, Places
<1>6. \A i \in Numbers : /\ job'[i].of = job[i].of
                         /\ job'[i].row = job[i].row
                         /\ job[i].queued => job'[i].queued
                         /\ job'[i].answered = job[i].answered
  BY <1>1
<1>7. \A q \in Posters : post'[q].pc \in Early =>
          \A i \in Hands(post'[q]) : job'[i].row = "none"
  BY <1>2, <1>4, <1>6 DEF Pages, Early
<1>8. \A q \in Posters : post'[q].pc \in Late =>
          \A i \in post'[q].held : /\ job'[i].row # "none"
                                   /\ i \in post'[q].unqueued \/ job'[i].queued
  BY <1>1, <1>2, <1>3, <1>4, <1>6 DEF Pages, Late
<1>9. \A q \in Posters : post'[q].pc \in {"warn", "list", "answer"} => post'[q].unqueued = {}
  BY <1>1, <1>2 DEF Pages
<1>10. \A i, k \in Numbers :
          job'[i].of = job'[k].of /\ job'[i].of > 0 => job'[i].row = job'[k].row
  BY <1>6 DEF Pages
<1>11. \A i \in Numbers : /\ job'[i].queued => job'[i].row # "none"
                          /\ job'[i].answered => job'[i].queued
  <2>1. job[n].row # "none"
    BY <1>3, <1>5 DEF Pages, Late
  <2> QED
    BY <1>1, <1>6, <2>1 DEF Pages
<1>12. \A B \in listed' : \A i \in B : job'[i].queued
  <2>1. \A B \in listed : B \subseteq Numbers
    BY DEF PostTypeInv, IntakeTypeOK
  <2> QED
    BY <1>2, <1>6, <2>1 DEF Pages
<1> QED
  BY <1>7, <1>8, <1>9, <1>10, <1>11, <1>12 DEF Pages

LEMMA PagesClose ==
    ASSUME PostTypeInv, Pages, NEW p \in Posters, Closes(p)
    PROVE  Pages'
<1>1. /\ \A q \in Posters \ {p} : post'[q] = post[q]
      /\ post'[p].pc = "answer" /\ post'[p].held = post[p].held
      /\ post'[p].unqueued = post[p].unqueued
      /\ job' = job
      /\ listed' = listed \/ listed' = listed \union {post[p].held}
  BY DEF Closes, Went
<1>2. post[p].pc \in {"warn", "list"}
  BY DEF Closes, Reached
<1>3. post[p].unqueued = {} /\ \A i \in post[p].held : job[i].row # "none" /\ job[i].queued
  BY <1>2 DEF Pages, Late
<1>4. \A q \in Posters : post'[q].pc \in Early =>
          \A i \in Hands(post'[q]) : job'[i].row = "none"
  BY <1>1 DEF Pages, Early
<1>5. \A q \in Posters : post'[q].pc \in Late =>
          \A i \in post'[q].held : /\ job'[i].row # "none"
                                   /\ i \in post'[q].unqueued \/ job'[i].queued
  BY <1>1, <1>3 DEF Pages
<1>6. \A q \in Posters : post'[q].pc \in {"warn", "list", "answer"} => post'[q].unqueued = {}
  BY <1>1, <1>3 DEF Pages
<1>7. \A B \in listed' : \A i \in B : job'[i].queued
  BY <1>1, <1>3 DEF Pages
<1> QED
  BY <1>1, <1>4, <1>5, <1>6, <1>7 DEF Pages

LEMMA PagesAnswer ==
    ASSUME PostTypeInv, Pages, NEW p \in Posters, Answers(p)
    PROVE  Pages'
<1>1. /\ \A q \in Posters \ {p} : post'[q] = post[q]
      /\ post'[p].pc = "idle" /\ listed' = listed
      /\ \A i \in Numbers \ post[p].held : job'[i] = job[i]
  BY DEF Answers, Ended, Rest, IdlePoster
<1>2. \A i \in Numbers : /\ job'[i].of = job[i].of
                         /\ job'[i].row = job[i].row
                         /\ job'[i].queued = job[i].queued
  BY DEF Answers
<1>3. \A i \in post[p].held : job[i].queued
  BY DEF Answers, Reached, Pages, Late
<1>4. \A q \in Posters : Hands(post[q]) \subseteq Numbers /\ post[q].held \subseteq Hands(post[q])
  BY HandsType DEF Hands
<1>5. \A q \in Posters : post'[q].pc \in Early =>
          \A i \in Hands(post'[q]) : job'[i].row = "none"
  BY <1>1, <1>2, <1>4 DEF Pages, Early
<1>6. \A q \in Posters : post'[q].pc \in Late =>
          \A i \in post'[q].held : /\ job'[i].row # "none"
                                   /\ i \in post'[q].unqueued \/ job'[i].queued
  BY <1>1, <1>2, <1>4 DEF Pages, Late
<1>7. \A q \in Posters : post'[q].pc \in {"warn", "list", "answer"} => post'[q].unqueued = {}
  BY <1>1 DEF Pages
<1>8. \A i, k \in Numbers :
          job'[i].of = job'[k].of /\ job'[i].of > 0 => job'[i].row = job'[k].row
  BY <1>2 DEF Pages
<1>9. \A i \in Numbers : job'[i].queued => job'[i].row # "none"
  BY <1>2 DEF Pages
<1>10. \A i \in Numbers : job'[i].answered => job'[i].queued
  BY <1>1, <1>2, <1>3 DEF Pages
<1>11. \A B \in listed' : \A i \in B : job'[i].queued
  <2>1. \A B \in listed : B \subseteq Numbers
    BY DEF PostTypeInv, IntakeTypeOK
  <2> QED
    BY <1>1, <1>2, <2>1 DEF Pages
<1> QED
  BY <1>5, <1>6, <1>7, <1>8, <1>9, <1>10, <1>11 DEF Pages

LEMMA PagesStep ==
    ASSUME PostTypeInv, Owners, Pages, NEW p \in Posters,
           \/ Arrives(p) \/ LetsIn(p) \/ Leaves(p) \/ Adds(p) \/ Prepares(p)
           \/ Commits(p) \/ Queues(p) \/ Closes(p) \/ Answers(p)
    PROVE  Pages'
<1>1. CASE Arrives(p)
  <2>1. /\ job' = job /\ listed' = listed
        /\ \A q \in Posters \ {p} : post'[q] = post[q]
        /\ post'[p].pc \in Early
    BY <1>1 DEF Arrives, Rest, Early
  <2>2. Hands(post'[p]) = {}
    BY <1>1 DEF Arrives, Hands
  <2> QED
    BY <2>1, <2>2, PagesKept
<1>2. CASE Leaves(p)
  <2>1. /\ job' = job /\ listed' = listed
        /\ \A q \in Posters \ {p} : post'[q] = post[q]
        /\ post'[p].pc = "idle"
    BY <1>2 DEF Leaves, Ended, IdlePoster
  <2> QED
    BY <2>1, PagesKept
<1>3. CASE Adds(p) \/ Prepares(p)
  <2>1. /\ job' = job /\ listed' = listed
        /\ \A q \in Posters \ {p} : post'[q] = post[q]
        /\ post'[p].pc \in Early /\ post[p].pc \in Early
    BY <1>3 DEF Adds, Prepares, Rest, Early, Reached, Went
  <2>2. Hands(post'[p]) = Hands(post[p])
    BY <1>3 DEF Adds, Prepares, Reached, Went, Hands
  <2>3. \A i \in Hands(post'[p]) : job[i].row = "none"
    BY <2>1, <2>2 DEF Pages
  <2> QED
    BY <2>1, <2>3, PagesKept
<1> QED
  BY <1>1, <1>2, <1>3, PagesLetIn, PagesCommit, PagesQueue, PagesClose, PagesAnswer

LEMMA BooksInvariant == IntakeSpec => [](Owners /\ Pages)
<1>1. IntakeInit => Owners /\ Pages
  <2> SUFFICES ASSUME IntakeInit PROVE Owners /\ Pages
    OBVIOUS
  <2>1. \A p \in Posters : post[p].pc = "idle"
    BY DEF IntakeInit, IdlePoster
  <2>2. \A i \in Numbers : /\ job[i].of = 0 /\ job[i].row = "none"
                           /\ ~job[i].queued /\ ~job[i].answered
    BY DEF IntakeInit, NewJob
  <2>3. posts = 0 /\ listed = {}
    BY DEF IntakeInit
  <2>4. Owners
    BY <2>1, <2>2, <2>3 DEF Owners
  <2>5. Pages
    BY <2>1, <2>2, <2>3 DEF Pages, Early, Late
  <2> QED
    BY <2>4, <2>5
<1>2. PostTypeInv /\ Owners /\ Pages /\ [IntakeNext]_postVars => (Owners /\ Pages)'
  <2> SUFFICES ASSUME PostTypeInv, Owners, Pages, [IntakeNext]_postVars
               PROVE  (Owners /\ Pages)'
    OBVIOUS
  <2>1. CASE UNCHANGED postVars
    BY <2>1 DEF Owners, Pages, postVars
  <2>2. ASSUME NEW p \in Posters, PostStep(p) \/ PostFault(p)
        PROVE  (Owners /\ Pages)'
    BY <2>2, StepShape, OwnersStep, PagesStep
  <2> QED
    BY <2>1, <2>2 DEF IntakeNext
<1> QED
  BY <1>1, <1>2, PostTypeCorrect, PTL DEF IntakeSpec

\* submit_batch and submit_job commit before they queue, and queue everything before they
\* answer.
THEOREM AnsweredAlwaysQueued == IntakeSpec => []AnsweredIsQueued
<1>1. Pages => AnsweredIsQueued
  BY DEF Pages, AnsweredIsQueued
<1> QED
  BY <1>1, BooksInvariant, PTL

\* The files of a batch share one transaction, and its list is stored when the last task
\* is queued: wherever a request ends, its files are all jobs or none is.
THEOREM BatchAlwaysWhole == IntakeSpec => []BatchIsWhole
<1>1. Pages => BatchIsWhole
  BY DEF Pages, BatchIsWhole
<1> QED
  BY <1>1, BooksInvariant, PTL
=============================================================================
