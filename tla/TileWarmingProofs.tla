-------------------------- MODULE TileWarmingProofs --------------------------
(***************************************************************************)
(* Proofs about TileWarming for any number of jobs, task slots, runs and   *)
(* faults, and any cap.                                                    *)
(***************************************************************************)
EXTENDS TileWarming, FiniteSetTheorems, TLAPS

TilePlaces == {"idle", "check", "incr", "expire", "over", "drop", "defer", "publish", "work",
               "release", "unlock"}

WarmerState == [pc : TilePlaces, job : Jobs \union {NoJob}, slot : 0 .. 1]

\* What a warmer may be.
Sound(r) == /\ r \in WarmerState
            /\ r.pc = "idle" <=> r.job = NoJob
            /\ r.slot = 1 => r.pc \in {"publish", "work", "release"}

\* Every warmer but w stays as it is.
Alone(w) == /\ warmer' \in [Warmers -> WarmerState]
            /\ \A v \in Warmers \ {w} : warmer'[v] = warmer[v]

\* The task of w goes to p and then holds s slots.
Went(w, p, s) == /\ Alone(w)
                 /\ warmer'[w].pc = p
                 /\ warmer'[w].job = warmer[w].job
                 /\ warmer'[w].slot = s

Taken(w, j) == /\ Alone(w)
               /\ warmer'[w].pc = "check"
               /\ warmer'[w].job = j
               /\ warmer'[w].slot = 0

Left(w) == /\ Alone(w)
           /\ warmer'[w].pc = "idle"
           /\ warmer'[w].job = NoJob
           /\ warmer'[w].slot = 0
-----------------------------------------------------------------------------
(* How a warmer moves. *)

LEMMA WarmerFields ==
    ASSUME TileTypeOK, NEW w \in Warmers
    PROVE  /\ Sound(warmer[w])
           /\ warmer \in [Warmers -> WarmerState]
           /\ warmer[w].pc \in TilePlaces
           /\ warmer[w].job \in Jobs \union {NoJob}
           /\ warmer[w].slot \in 0 .. 1
           /\ warmer[w].pc = "idle" <=> warmer[w].job = NoJob
           /\ warmer[w].slot = 1 => warmer[w].pc \in {"publish", "work", "release"}
BY DEF TileTypeOK, At, JobOf, Sound, WarmerState, TilePlaces

LEMMA GotoMoves ==
    ASSUME TileTypeOK, NEW w \in Warmers, NEW p \in TilePlaces, Goto(w, p)
    PROVE  Went(w, p, warmer[w].slot)
<1> DEFINE e == [warmer[w] EXCEPT !.pc = p]
<1>1. /\ warmer[w] \in WarmerState
      /\ warmer \in [Warmers -> WarmerState]
  BY WarmerFields
<1>2. /\ e \in WarmerState
      /\ e.pc = p
      /\ e.job = warmer[w].job
      /\ e.slot = warmer[w].slot
  BY <1>1 DEF WarmerState
<1>3. warmer' = [warmer EXCEPT ![w] = e]
  BY <1>1 DEF Goto
<1> HIDE DEF e
<1> QED
  BY <1>1, <1>2, <1>3 DEF Went, Alone

LEMMA GotoWithMoves ==
    ASSUME TileTypeOK, NEW w \in Warmers, NEW p \in TilePlaces, NEW s \in 0 .. 1,
           GotoWith(w, p, s)
    PROVE  Went(w, p, s)
<1> DEFINE e == [warmer[w] EXCEPT !.pc = p, !.slot = s]
<1>1. /\ warmer[w] \in WarmerState
      /\ warmer \in [Warmers -> WarmerState]
  BY WarmerFields
<1>2. /\ e \in WarmerState
      /\ e.pc = p
      /\ e.job = warmer[w].job
      /\ e.slot = s
  BY <1>1 DEF WarmerState
<1>3. warmer' = [warmer EXCEPT ![w] = e]
  BY <1>1 DEF GotoWith, WarmerState
<1> HIDE DEF e
<1> QED
  BY <1>1, <1>2, <1>3 DEF Went, Alone

LEMMA TakeMoves ==
    ASSUME TileTypeOK, NEW w \in Warmers, NEW j \in Jobs,
           warmer' = [warmer EXCEPT ![w] = [pc |-> "check", job |-> j, slot |-> 0]]
    PROVE  Taken(w, j)
<1> DEFINE e == [pc |-> "check", job |-> j, slot |-> 0]
<1>1. warmer \in [Warmers -> WarmerState]
  BY WarmerFields
<1>2. /\ e \in WarmerState
      /\ e.pc = "check"
      /\ e.job = j
      /\ e.slot = 0
  BY DEF WarmerState, TilePlaces
<1>3. warmer' = [warmer EXCEPT ![w] = e]
  OBVIOUS
<1> HIDE DEF e
<1> QED
  BY <1>1, <1>2, <1>3 DEF Taken, Alone

LEMMA LeaveMoves ==
    ASSUME TileTypeOK, NEW w \in Warmers, warmer' = [warmer EXCEPT ![w] = IdleWarmer]
    PROVE  Left(w)
<1>1. warmer \in [Warmers -> WarmerState]
  BY WarmerFields
<1>2. /\ IdleWarmer \in WarmerState
      /\ IdleWarmer.pc = "idle"
      /\ IdleWarmer.job = NoJob
      /\ IdleWarmer.slot = 0
  BY DEF WarmerState, TilePlaces, IdleWarmer
<1> QED
  BY <1>1, <1>2 DEF Left, Alone
-----------------------------------------------------------------------------
(* What each step does to the warmer, the lock, the counter and the records of what *)
(* has gone wrong. *)

\* Nobody moves, and nothing but the queue changes.
Waits == UNCHANGED <<lock, count, lasting, warmer, leaked, spoiled, torn>>

\* w takes a job whose lock is free.
Takes(w, j) == /\ At(w, "idle") /\ ~lock[j]
               /\ lock' = [lock EXCEPT ![j] = TRUE]
               /\ Taken(w, j)
               /\ UNCHANGED <<count, lasting, leaked, spoiled, torn>>

\* w moves from p to q with its slot, and touches neither the lock nor the counter.
Walks(w, p, q) == /\ At(w, p)
                  /\ Went(w, q, warmer[w].slot)
                  /\ UNCHANGED <<lock, count, lasting, leaked, spoiled, torn>>

\* A step that keeps slot and lock.
Strolls(w) == \/ Walks(w, "check", "incr") \/ Walks(w, "check", "release")
              \/ Walks(w, "publish", "work") \/ Walks(w, "publish", "release")
              \/ Walks(w, "work", "release") \/ Walks(w, "drop", "defer")

Raises(w) == /\ At(w, "incr")
             /\ count' = count + 1
             /\ \/ count' = 1 /\ Went(w, "expire", warmer[w].slot)
                \/ count' # 1 /\ count' > Cap /\ Went(w, "over", warmer[w].slot)
                \/ count' # 1 /\ ~(count' > Cap) /\ Went(w, "publish", 1)
             /\ UNCHANGED <<lock, lasting, leaked, spoiled, torn>>

Marks(w) == /\ At(w, "expire")
            /\ lasting' = FALSE
            /\ Went(w, "publish", 1)
            /\ UNCHANGED <<lock, count, leaked, spoiled, torn>>

Lowers(w) == /\ At(w, "over")
             /\ count' = count - 1
             /\ Went(w, "drop", warmer[w].slot)
             /\ UNCHANGED <<lock, lasting, leaked, spoiled, torn>>

Frees(w) == /\ \/ At(w, "drop") /\ Went(w, "defer", warmer[w].slot)
               \/ At(w, "unlock") /\ Left(w)
            /\ lock' = [lock EXCEPT ![JobOf(w)] = FALSE]
            /\ UNCHANGED <<count, lasting, leaked, spoiled, torn>>

Defers(w) == /\ At(w, "defer")
             /\ Went(w, "release", warmer[w].slot)
             /\ torn' = torn \union {JobOf(w)}
             /\ UNCHANGED <<lock, count, lasting, leaked, spoiled>>

\* The slot is given back, or lost.
Returns(w) == /\ At(w, "release")
              /\ Went(w, "unlock", 0)
              /\ \/ count' = count - warmer[w].slot /\ leaked' = leaked
                 \/ count' = count /\ leaked' = leaked + warmer[w].slot
              /\ UNCHANGED <<lock, lasting, spoiled, torn>>

\* w is gone, and with it the slot it may have had.
Dies(w) == /\ ~At(w, "idle")
           /\ Left(w)
           /\ leaked' = IF w \in Counted THEN leaked + 1 ELSE leaked
           /\ UNCHANGED <<lock, count, lasting, spoiled, torn>>

\* The task forgets to free the job.
Forgets(w) == /\ At(w, "unlock")
              /\ Left(w)
              /\ UNCHANGED <<lock, count, lasting, leaked, spoiled, torn>>

\* The task goes on without a slot.
Ignores(w) == /\ warmer[w].pc \in {"incr", "expire", "over", "defer"}
              /\ spoiled' = TRUE
              /\ torn' = IF At(w, "defer") THEN torn \union {JobOf(w)} ELSE torn
              /\ Went(w, "publish", warmer[w].slot)
              /\ UNCHANGED <<lock, count, lasting, leaked>>

Unlocks(j) == /\ lock' = [lock EXCEPT ![j] = FALSE]
              /\ IF \E w \in Warmers : JobOf(w) = j THEN torn' = torn \union {j}
                                                     ELSE torn' = torn
              /\ UNCHANGED <<count, lasting, warmer, leaked, spoiled>>

Resets == /\ spoiled' = TRUE
          /\ count' = 0
          /\ leaked' = 0
          /\ lasting' = TRUE
          /\ UNCHANGED <<lock, warmer, torn>>

WarmerMove(w) == \/ \E j \in Jobs : Takes(w, j)
                 \/ Strolls(w)
                 \/ Raises(w) \/ Marks(w) \/ Lowers(w) \/ Frees(w) \/ Defers(w) \/ Returns(w)
                 \/ Dies(w) \/ Forgets(w) \/ Ignores(w)

Move == \/ Waits \/ Resets
        \/ \E w \in Warmers : WarmerMove(w)
        \/ \E j \in Jobs : Unlocks(j)

LEMMA AcquireMoves ==
    ASSUME TileTypeOK, NEW w \in Warmers, NEW j \in Jobs, Acquire(w, j)
    PROVE  Waits \/ WarmerMove(w)
<1>1. CASE lock[j]
  <2>1. lock' = lock
    BY <1>1 DEF Acquire, TileTypeOK
  <2> QED
    BY <1>1, <2>1 DEF Acquire, Waits, history
<1>2. CASE ~lock[j]
  <2>1. Taken(w, j)
    BY <1>2, TakeMoves DEF Acquire
  <2>2. Takes(w, j)
    BY <1>2, <2>1 DEF Acquire, Takes, history
  <2> QED
    BY <2>2 DEF WarmerMove
<1> QED
  BY <1>1, <1>2

LEMMA StepMoves ==
    ASSUME TileTypeOK, NEW w \in Warmers, Step(w)
    PROVE  Waits \/ WarmerMove(w)
<1>1. ASSUME NEW j \in Jobs, Acquire(w, j) PROVE Waits \/ WarmerMove(w)
  BY <1>1, AcquireMoves
<1>2. ASSUME Check(w) PROVE WarmerMove(w)
  <2>1. Went(w, "incr", warmer[w].slot) \/ Went(w, "release", warmer[w].slot)
    BY <1>2, GotoMoves DEF Check, TilePlaces
  <2> QED
    BY <1>2, <2>1 DEF Check, Walks, history, Strolls, WarmerMove
<1>3. ASSUME Incr(w) PROVE WarmerMove(w)
  <2>1. \/ count' = 1 /\ Went(w, "expire", warmer[w].slot)
        \/ count' # 1 /\ count' > Cap /\ Went(w, "over", warmer[w].slot)
        \/ count' # 1 /\ ~(count' > Cap) /\ Went(w, "publish", 1)
    BY <1>3, GotoMoves, GotoWithMoves DEF Incr, TilePlaces
  <2> QED
    BY <1>3, <2>1 DEF Incr, Raises, history, WarmerMove
<1>4. ASSUME Expire(w) PROVE WarmerMove(w)
  <2>1. Went(w, "publish", 1)
    BY <1>4, GotoWithMoves DEF Expire, TilePlaces
  <2> QED
    BY <1>4, <2>1 DEF Expire, Marks, history, WarmerMove
<1>5. ASSUME Decr(w) PROVE WarmerMove(w)
  <2>1. Went(w, "drop", warmer[w].slot)
    BY <1>5, GotoMoves DEF Decr, TilePlaces
  <2> QED
    BY <1>5, <2>1 DEF Decr, Lowers, history, WarmerMove
<1>6. ASSUME DropLock(w) PROVE WarmerMove(w)
  <2>1. Went(w, "defer", warmer[w].slot)
    BY <1>6, GotoMoves DEF DropLock, TilePlaces
  <2> QED
    BY <1>6, <2>1 DEF DropLock, Frees, history, WarmerMove
<1>7. ASSUME Defer(w) PROVE WarmerMove(w)
  <2>1. Went(w, "release", warmer[w].slot)
    BY <1>7, GotoMoves DEF Defer, TilePlaces
  <2> QED
    BY <1>7, <2>1 DEF Defer, Defers, WarmerMove
<1>8. ASSUME Publish(w) PROVE WarmerMove(w)
  <2>1. Went(w, "work", warmer[w].slot)
    BY <1>8, GotoMoves DEF Publish, TilePlaces
  <2> QED
    BY <1>8, <2>1 DEF Publish, Walks, history, Strolls, WarmerMove
<1>9. ASSUME FinishTiles(w) PROVE WarmerMove(w)
  <2>1. Went(w, "release", warmer[w].slot)
    BY <1>9, GotoMoves DEF FinishTiles, TilePlaces
  <2> QED
    BY <1>9, <2>1 DEF FinishTiles, Walks, history, Strolls, WarmerMove
<1>10. ASSUME Release(w) PROVE WarmerMove(w)
  <2>1. Went(w, "unlock", 0)
    BY <1>10, GotoWithMoves DEF Release, TilePlaces
  <2> QED
    BY <1>10, <2>1 DEF Release, Returns, history, WarmerMove
<1>11. ASSUME Unlock(w) PROVE WarmerMove(w)
  <2>1. Left(w)
    BY <1>11, LeaveMoves DEF Unlock
  <2> QED
    BY <1>11, <2>1 DEF Unlock, Frees, history, WarmerMove
<1> QED
  BY <1>1, <1>2, <1>3, <1>4, <1>5, <1>6, <1>7, <1>8, <1>9, <1>10, <1>11 DEF Step

LEMMA UnnoticedMoves ==
    ASSUME TileTypeOK, NEW w \in Warmers, Unnoticed(w)
    PROVE  WarmerMove(w)
<1> USE DEF TilePlaces
<1>1. CASE At(w, "drop") /\ Goto(w, "defer") /\ UNCHANGED <<leaked, silent>>
  BY <1>1, GotoMoves DEF Unnoticed, Walks, Strolls, WarmerMove
<1>2. CASE At(w, "publish") /\ Goto(w, "work") /\ UNCHANGED <<leaked, silent>>
  BY <1>2, GotoMoves DEF Unnoticed, Walks, Strolls, WarmerMove
<1>3. CASE At(w, "work") /\ Goto(w, "release") /\ UNCHANGED leaked
  BY <1>3, GotoMoves DEF Unnoticed, Walks, Strolls, WarmerMove
<1>4. CASE /\ At(w, "release") /\ GotoWith(w, "unlock", 0)
           /\ leaked' = leaked + warmer[w].slot
  BY <1>4, GotoWithMoves DEF Unnoticed, Returns, WarmerMove
<1>5. CASE At(w, "unlock") /\ warmer' = [warmer EXCEPT ![w] = IdleWarmer] /\ UNCHANGED leaked
  BY <1>5, LeaveMoves DEF Unnoticed, Forgets, WarmerMove
<1> QED
  BY <1>1, <1>2, <1>3, <1>4, <1>5, Zenon DEF Unnoticed

\* Every step of the system is one of these moves.
LEMMA StepShapes ==
    ASSUME TileTypeOK, TileNext
    PROVE  Move
<1>1. ASSUME NEW j \in Jobs, Enqueue(j) PROVE Move
  BY <1>1 DEF Enqueue, Waits, Move
<1>2. ASSUME NEW j \in Jobs, LockExpires(j) PROVE Move
  <2>1. Unlocks(j)
    BY <1>2 DEF LockExpires, Unlocks
  <2> QED
    BY <2>1 DEF Move
<1>3. ASSUME NEW w \in Warmers, Step(w) PROVE Move
  BY <1>3, StepMoves DEF Move
<1>4. ASSUME NEW w \in Warmers, WarmFails(w) PROVE Move
  <2>1. Went(w, "release", warmer[w].slot)
    BY <1>4, GotoMoves DEF WarmFails, TilePlaces
  <2>2. Strolls(w)
    BY <1>4, <2>1 DEF WarmFails, Walks, history, Strolls, At
  <2> QED
    BY <2>2 DEF WarmerMove, Move
<1>5. ASSUME NEW w \in Warmers, Uncapped(w) PROVE Move
  <2>1. Went(w, "publish", warmer[w].slot)
    BY <1>5, GotoMoves DEF Uncapped, TilePlaces
  <2>2. Ignores(w)
    BY <1>5, <2>1 DEF Uncapped, Ignores, At
  <2> QED
    BY <2>2 DEF WarmerMove, Move
<1>6. ASSUME NEW w \in Warmers, Unnoticed(w) PROVE Move
  BY <1>6, UnnoticedMoves DEF Move
<1>7. ASSUME NEW w \in Warmers, Die(w) PROVE Move
  <2>1. Left(w)
    BY <1>7, LeaveMoves DEF Die
  <2>2. Dies(w)
    BY <1>7, <2>1 DEF Die, Dies
  <2> QED
    BY <2>2 DEF WarmerMove, Move
<1>8. ASSUME NEW w \in Warmers, NEW j \in Jobs, AcquireFails(w, j) PROVE Move
  BY <1>8 DEF AcquireFails, Waits, history, Move
<1>9. ASSUME CountExpires PROVE Move
  BY <1>9 DEF CountExpires, Resets, Move
<1> QED
  BY <1>1, <1>2, <1>3, <1>4, <1>5, <1>6, <1>7, <1>8, <1>9 DEF TileNext, WarmerDies, WarmerIsCut
-----------------------------------------------------------------------------
(* Types. *)

\* What TileTypeOK says of everything but the warmers.
Rest == /\ lock \in [Jobs -> BOOLEAN]
        /\ count \in Int
        /\ lasting \in BOOLEAN
        /\ status \in [Jobs -> {"none", "in_progress", "complete", "failed"}]
        /\ waiting \in [Jobs -> Nat]
        /\ enqueues \in 0 .. MaxEnqueues
        /\ leaked \in Nat
        /\ spoiled \in BOOLEAN
        /\ torn \subseteq Jobs
        /\ silent \subseteq Jobs
        /\ tileFaults \in 0 .. MaxTileFaults

LEMMA TypeParts ==
    TileTypeOK <=> /\ Rest
                   /\ warmer \in [Warmers -> WarmerState]
                   /\ \A w \in Warmers : Sound(warmer[w])
<1>1. ASSUME TileTypeOK PROVE Rest
  BY <1>1 DEF TileTypeOK, Rest
<1>2. ASSUME TileTypeOK PROVE warmer \in [Warmers -> WarmerState]
  BY <1>2 DEF TileTypeOK, WarmerState, TilePlaces
<1>3. ASSUME TileTypeOK, NEW w \in Warmers PROVE Sound(warmer[w])
  BY <1>3, WarmerFields
<1>4. ASSUME Rest, warmer \in [Warmers -> WarmerState], \A w \in Warmers : Sound(warmer[w])
      PROVE  TileTypeOK
  BY <1>4 DEF TileTypeOK, Rest, Sound, WarmerState, TilePlaces, At, JobOf
<1> QED
  BY <1>1, <1>2, <1>3, <1>4

\* The job of a warmer at work.
LEMMA JobsOfWarmers ==
    ASSUME TileTypeOK, NEW w \in Warmers, ~At(w, "idle")
    PROVE  JobOf(w) \in Jobs
BY WarmerFields DEF At, JobOf

LEMMA FaultCounts ==
    ASSUME tileFaults \in 0 .. MaxTileFaults, NEW k, TileFault(k)
    PROVE  tileFaults' \in 0 .. MaxTileFaults
BY WarmBounds DEF TileFault

LEMMA RestKept ==
    ASSUME TileTypeOK, TileNext
    PROVE  Rest'
<1> USE DEF Rest, history
<1>0. Rest
  BY TypeParts
<1>1. ASSUME NEW j \in Jobs, Enqueue(j) PROVE Rest'
  BY <1>0, <1>1, WarmBounds DEF Enqueue
<1>2. ASSUME NEW j \in Jobs, LockExpires(j) PROVE Rest'
  BY <1>0, <1>2, FaultCounts DEF LockExpires
<1>3. ASSUME NEW w \in Warmers, NEW j \in Jobs, Acquire(w, j) PROVE Rest'
  BY <1>0, <1>3 DEF Acquire
<1>4. ASSUME NEW w \in Warmers, NEW j \in Jobs, AcquireFails(w, j) PROVE Rest'
  BY <1>0, <1>4, FaultCounts DEF AcquireFails
<1>5. ASSUME CountExpires PROVE Rest'
  BY <1>0, <1>5, FaultCounts DEF CountExpires
<1>6. ASSUME NEW w \in Warmers, Check(w) PROVE Rest'
  BY <1>0, <1>6, WarmerFields, JobsOfWarmers, FaultCounts DEF Check, At
<1>7. ASSUME NEW w \in Warmers, Incr(w) PROVE Rest'
  BY <1>0, <1>7, WarmerFields, JobsOfWarmers, FaultCounts DEF Incr, At
<1>8. ASSUME NEW w \in Warmers, Expire(w) PROVE Rest'
  BY <1>0, <1>8, WarmerFields, JobsOfWarmers, FaultCounts DEF Expire, At
<1>9. ASSUME NEW w \in Warmers, Decr(w) PROVE Rest'
  BY <1>0, <1>9, WarmerFields, JobsOfWarmers, FaultCounts DEF Decr, At
<1>10. ASSUME NEW w \in Warmers, DropLock(w) PROVE Rest'
  BY <1>0, <1>10, WarmerFields, JobsOfWarmers, FaultCounts DEF DropLock, At
<1>11. ASSUME NEW w \in Warmers, Defer(w) PROVE Rest'
  BY <1>0, <1>11, WarmerFields, JobsOfWarmers, FaultCounts DEF Defer, At
<1>12. ASSUME NEW w \in Warmers, Publish(w) PROVE Rest'
  BY <1>0, <1>12, WarmerFields, JobsOfWarmers, FaultCounts DEF Publish, At
<1>13. ASSUME NEW w \in Warmers, FinishTiles(w) PROVE Rest'
  BY <1>0, <1>13, WarmerFields, JobsOfWarmers, FaultCounts DEF FinishTiles, At
<1>14. ASSUME NEW w \in Warmers, Release(w) PROVE Rest'
  BY <1>0, <1>14, WarmerFields, JobsOfWarmers, FaultCounts DEF Release, At
<1>15. ASSUME NEW w \in Warmers, Unlock(w) PROVE Rest'
  BY <1>0, <1>15, WarmerFields, JobsOfWarmers, FaultCounts DEF Unlock, At
<1>16. ASSUME NEW w \in Warmers, WarmFails(w) PROVE Rest'
  BY <1>0, <1>16, WarmerFields, JobsOfWarmers, FaultCounts DEF WarmFails, At
<1>17. ASSUME NEW w \in Warmers, Uncapped(w) PROVE Rest'
  BY <1>0, <1>17, WarmerFields, JobsOfWarmers, FaultCounts DEF Uncapped, At
<1>18. ASSUME NEW w \in Warmers, Unnoticed(w) PROVE Rest'
  BY <1>0, <1>18, WarmerFields, JobsOfWarmers, FaultCounts DEF Unnoticed, At
<1>19. ASSUME NEW w \in Warmers, WarmerDies(w) PROVE Rest'
  BY <1>0, <1>19, WarmerFields, JobsOfWarmers, FaultCounts DEF WarmerDies, At, Die, JobOf
<1>20. ASSUME NEW w \in Warmers, WarmerIsCut(w) PROVE Rest'
  BY <1>0, <1>20, WarmerFields, JobsOfWarmers, FaultCounts DEF WarmerIsCut, At, Die, JobOf
<1> QED
  BY <1>1, <1>2, <1>3, <1>4, <1>5, <1>6, <1>7, <1>8, <1>9, <1>10, <1>11, <1>12,
     <1>13, <1>14, <1>15, <1>16, <1>17, <1>18, <1>19, <1>20
     DEF TileNext, Step

LEMMA WarmersKept ==
    ASSUME TileTypeOK, Move
    PROVE  /\ warmer' \in [Warmers -> WarmerState]
           /\ \A w \in Warmers : Sound(warmer'[w])
<1>0. /\ warmer \in [Warmers -> WarmerState]
      /\ \A w \in Warmers : Sound(warmer[w])
  BY TypeParts
<1>1. CASE warmer' = warmer
  BY <1>0, <1>1
<1>2. ASSUME NEW w \in Warmers, WarmerMove(w)
      PROVE  Alone(w) /\ Sound(warmer'[w])
  <2>0. Sound(warmer[w])
    BY <1>0
  <2>1. ASSUME NEW j \in Jobs, Takes(w, j) PROVE Alone(w) /\ Sound(warmer'[w])
    BY <2>1, NoJobAssumption DEF Takes, Taken, Alone, Sound
  <2>2. CASE Strolls(w)
    BY <2>0, <2>2 DEF Strolls, Walks, Went, Alone, Sound, At
  <2>3. CASE Raises(w)
    BY <2>0, <2>3 DEF Raises, Went, Alone, Sound, At
  <2>4. CASE Marks(w) \/ Lowers(w) \/ Defers(w) \/ Returns(w)
    BY <2>0, <2>4 DEF Marks, Lowers, Defers, Returns, Went, Alone, Sound, At
  <2>5. CASE Frees(w) \/ Dies(w) \/ Forgets(w)
    BY <2>0, <2>5 DEF Frees, Dies, Forgets, Left, Went, Alone, Sound, At
  <2>6. CASE Ignores(w)
    BY <2>0, <2>6 DEF Ignores, Went, Alone, Sound
  <2> QED
    BY <1>2, <2>1, <2>2, <2>3, <2>4, <2>5, <2>6 DEF WarmerMove
<1>3. CASE \E w \in Warmers : WarmerMove(w)
  BY <1>0, <1>2, <1>3 DEF Alone
<1> QED
  BY <1>1, <1>3 DEF Move, Waits, Resets, Unlocks

LEMMA TileTypeKept ==
    ASSUME TileTypeOK, TileNext
    PROVE  TileTypeOK'
<1>1. Rest' /\ warmer' \in [Warmers -> WarmerState] /\ \A w \in Warmers : Sound(warmer'[w])
  BY RestKept, WarmersKept, StepShapes
<1> QED
  BY <1>1 DEF TileTypeOK, Rest, Sound, WarmerState, TilePlaces, At, JobOf

LEMMA TileTypeInit ==
    ASSUME TileInit
    PROVE  TileTypeOK
<1>1. Rest
  <2>1. lock \in [Jobs -> BOOLEAN] /\ waiting \in [Jobs -> Nat]
    BY DEF TileInit
  <2>2. status \in [Jobs -> {"none", "in_progress", "complete", "failed"}]
    BY DEF TileInit
  <2>3. /\ count \in Int /\ leaked \in Nat
        /\ enqueues \in 0 .. MaxEnqueues /\ tileFaults \in 0 .. MaxTileFaults
    BY WarmBounds DEF TileInit
  <2>4. lasting \in BOOLEAN /\ spoiled \in BOOLEAN /\ torn \subseteq Jobs /\ silent \subseteq Jobs
    BY DEF TileInit
  <2> QED
    BY <2>1, <2>2, <2>3, <2>4 DEF Rest
<1>2. IdleWarmer \in WarmerState /\ Sound(IdleWarmer)
  BY DEF IdleWarmer, WarmerState, TilePlaces, Sound
<1>3. warmer \in [Warmers -> WarmerState] /\ \A w \in Warmers : Sound(warmer[w])
  BY <1>2 DEF TileInit
<1> QED
  BY <1>1, <1>3, TypeParts
-----------------------------------------------------------------------------
(* The counter. *)

\* The tasks that count towards the cap.
Holders == {w \in Warmers : warmer[w].pc = "expire" \/ warmer[w].slot = 1}

\* Until something has gone wrong with it, the counter is exact, and it was at most the
\* cap when the last of the holders raised it.
Tallies == ~spoiled => /\ IsFiniteSet(Counted)
                       /\ count = Cardinality(Counted) + leaked
                       /\ Cardinality(Holders) <= Cap
                       /\ Warming \subseteq Holders

LEMMA HoldersCount == Holders \subseteq Counted
BY DEF Holders, Counted

LEMMA Sizes ==
    ASSUME NEW S, IsFiniteSet(S), NEW x
    PROVE  /\ Cardinality(S) \in Nat
           /\ IsFiniteSet(S \union {x})
           /\ IsFiniteSet(S \ {x})
           /\ x \notin S => Cardinality(S \union {x}) = Cardinality(S) + 1
           /\ x \in S => Cardinality(S \ {x}) = Cardinality(S) - 1
BY FS_AddElement, FS_RemoveElement, FS_CardinalityType

\* When one warmer moves, only its own membership may change.
LEMMA OthersStay ==
    ASSUME NEW w \in Warmers, Alone(w)
    PROVE  /\ Counted' = IF warmer'[w].pc \in {"expire", "over"} \/ warmer'[w].slot = 1
                         THEN Counted \union {w} ELSE Counted \ {w}
           /\ Holders' = IF warmer'[w].pc = "expire" \/ warmer'[w].slot = 1
                         THEN Holders \union {w} ELSE Holders \ {w}
           /\ Warming' = IF warmer'[w].pc \in {"publish", "work"}
                         THEN Warming \union {w} ELSE Warming \ {w}
BY DEF Alone, Counted, Holders, Warming

\* The three things that happen to the tally: it stays, a task joins, a task leaves.
LEMMA TallyStays ==
    ASSUME Tallies, ~spoiled, count' = count, leaked' = leaked, Counted' = Counted,
           Holders' \subseteq Holders, Warming' \subseteq Holders'
    PROVE  Tallies'
<1>1. IsFiniteSet(Holders)
  BY HoldersCount, FS_Subset DEF Tallies
<1>2. Cardinality(Holders') <= Cardinality(Holders)
  BY <1>1, FS_Subset
<1>3. /\ Cardinality(Holders) \in Nat
      /\ Cardinality(Holders') \in Nat
  BY <1>1, FS_Subset, FS_CardinalityType
<1> QED
  BY <1>2, <1>3, CapAssumption DEF Tallies

LEMMA TallyRises ==
    ASSUME TileTypeOK, Tallies, ~spoiled, NEW w \in Warmers, Raises(w)
    PROVE  Tallies' /\ count' >= 1
<1>1. /\ IsFiniteSet(Counted)
      /\ count = Cardinality(Counted) + leaked
      /\ Cardinality(Holders) <= Cap
      /\ Warming \subseteq Holders
      /\ leaked \in Nat
      /\ Cap \in Nat
      /\ Cap >= 1
  BY CapAssumption DEF Tallies, TileTypeOK
<1>2. /\ w \notin Counted /\ w \notin Holders /\ w \notin Warming
      /\ warmer[w].slot = 0
  BY WarmerFields DEF Raises, Counted, Holders, Warming, At
<1>3. /\ Counted' = Counted \union {w}
      /\ IsFiniteSet(Counted')
      /\ Cardinality(Counted) \in Nat
      /\ Cardinality(Counted') = Cardinality(Counted) + 1
  <2>1. Alone(w) /\ (warmer'[w].pc \in {"expire", "over"} \/ warmer'[w].slot = 1)
    BY DEF Raises, Went
  <2>2. Counted' = Counted \union {w}
    BY <2>1, OthersStay
  <2>3. /\ IsFiniteSet(Counted \union {w})
        /\ Cardinality(Counted) \in Nat
        /\ Cardinality(Counted \union {w}) = Cardinality(Counted) + 1
    BY <1>1, <1>2, Sizes
  <2> QED
    BY <2>2, <2>3
<1>4. /\ count' = Cardinality(Counted') + leaked'
      /\ count' = count + 1
      /\ count' >= 1
  BY <1>1, <1>3 DEF Raises
<1>5. /\ IsFiniteSet(Holders')
      /\ Cardinality(Holders') \in Nat
      /\ Cardinality(Holders') <= Cardinality(Counted')
  <2>1. Holders' \subseteq Counted'
    BY DEF Holders, Counted
  <2> QED
    BY <1>3, <2>1, FS_Subset, FS_CardinalityType
<1>6. Cardinality(Holders') <= Cap /\ Warming' \subseteq Holders'
  <2>1. CASE Went(w, "over", warmer[w].slot)
    <3>1. Holders' = Holders \ {w} /\ Warming' = Warming \ {w}
      BY <1>2, <2>1, OthersStay DEF Went
    <3>2. Holders' = Holders /\ Warming' = Warming
      BY <1>2, <3>1
    <3> QED
      BY <1>1, <3>2
  <2>2. CASE Went(w, "expire", warmer[w].slot) /\ count' = 1
    <3>1. Holders' = Holders \union {w} /\ Warming' = Warming \ {w}
      BY <1>2, <2>2, OthersStay DEF Went
    <3>2. Cardinality(Holders') <= 1
      BY <1>1, <1>3, <1>4, <1>5, <2>2
    <3> QED
      BY <1>1, <1>5, <3>1, <3>2
  <2>3. CASE Went(w, "publish", 1) /\ ~(count' > Cap)
    <3>1. Holders' = Holders \union {w} /\ Warming' = Warming \union {w}
      BY <2>3, OthersStay DEF Went
    <3>2. Cardinality(Holders') <= count' /\ count' <= Cap
      <4>1. leaked' \in Nat /\ count' \in Int
        BY <1>1, <1>3, <1>4 DEF Raises
      <4> QED
        BY <1>1, <1>3, <1>4, <1>5, <2>3, <4>1
    <3> QED
      BY <1>1, <1>3, <1>4, <1>5, <3>1, <3>2
  <2> QED
    BY <2>1, <2>2, <2>3 DEF Raises
<1> QED
  BY <1>3, <1>4, <1>6 DEF Tallies

LEMMA TallyFalls ==
    ASSUME TileTypeOK, Tallies, ~spoiled, NEW w \in Warmers, w \in Counted, Alone(w),
           ~(warmer'[w].pc \in {"expire", "over"} \/ warmer'[w].slot = 1),
           warmer'[w].pc \notin {"publish", "work"},
           \/ count' = count - 1 /\ leaked' = leaked
           \/ count' = count /\ leaked' = leaked + 1
    PROVE  Tallies'
<1>1. /\ Counted' = Counted \ {w}
      /\ Holders' = Holders \ {w}
      /\ Warming' = Warming \ {w}
  BY OthersStay
<1>2. /\ IsFiniteSet(Counted)
      /\ count = Cardinality(Counted) + leaked
      /\ Cardinality(Holders) <= Cap
      /\ Warming \subseteq Holders
      /\ leaked \in Nat
      /\ Cap \in Nat
  BY CapAssumption DEF Tallies, TileTypeOK
<1>3. /\ IsFiniteSet(Counted')
      /\ Cardinality(Counted) \in Nat
      /\ Cardinality(Counted') = Cardinality(Counted) - 1
  BY <1>1, <1>2, Sizes
<1>4. count' = Cardinality(Counted') + leaked'
  BY <1>2, <1>3
<1>5. Cardinality(Holders') <= Cap
  <2>1. IsFiniteSet(Holders)
    BY <1>2, HoldersCount, FS_Subset
  <2>2. /\ Cardinality(Holders') <= Cardinality(Holders)
        /\ Cardinality(Holders') \in Nat /\ Cardinality(Holders) \in Nat
    BY <1>1, <2>1, FS_Subset, FS_CardinalityType
  <2> QED
    BY <1>2, <2>2
<1> QED
  BY <1>1, <1>2, <1>3, <1>4, <1>5 DEF Tallies

LEMMA TalliesKept ==
    ASSUME TileTypeOK, Tallies, Move
    PROVE  Tallies'
<1>1. CASE spoiled' \/ spoiled
  <2>1. spoiled'
    BY <1>1 DEF Move, Waits, Resets, WarmerMove, Takes, Strolls, Walks, Raises, Marks, Lowers,
                Frees, Defers, Returns, Dies, Forgets, Ignores, Unlocks
  <2> QED
    BY <2>1 DEF Tallies
<1>2. CASE ~spoiled' /\ ~spoiled
  <2>1. CASE Waits \/ \E j \in Jobs : Unlocks(j)
    <3>1. warmer' = warmer /\ count' = count /\ leaked' = leaked
      BY <2>1 DEF Waits, Unlocks
    <3>2. Counted' = Counted /\ Holders' = Holders /\ Warming' = Warming
      BY <3>1 DEF Counted, Holders, Warming
    <3> QED
      BY <1>2, <3>1, <3>2, TallyStays DEF Tallies
  <2>2. ASSUME NEW w \in Warmers, WarmerMove(w) PROVE Tallies'
    <3>0. /\ warmer[w].slot \in {0, 1}
          /\ warmer[w].slot = 1 => warmer[w].pc \in {"publish", "work", "release"}
          /\ warmer[w].pc \in {"publish", "work"} => warmer[w].slot = 1
      BY <1>2, WarmerFields DEF Tallies, Warming, Holders
    <3>a. Warming \subseteq Holders
      BY <1>2 DEF Tallies
    <3>1. ASSUME \/ \E j \in Jobs : Takes(w, j)
                 \/ Strolls(w) \/ Marks(w) \/ Frees(w) \/ Defers(w) \/ Forgets(w)
          PROVE  Tallies'
      <4>1. /\ Alone(w) /\ count' = count /\ leaked' = leaked
            /\ warmer'[w].slot \in {0, 1}
            /\ (warmer'[w].pc \in {"expire", "over"} \/ warmer'[w].slot = 1)
                   <=> (warmer[w].pc \in {"expire", "over"} \/ warmer[w].slot = 1)
            /\ (warmer'[w].pc = "expire" \/ warmer'[w].slot = 1)
                   => (warmer[w].pc = "expire" \/ warmer[w].slot = 1)
            /\ warmer'[w].pc \in {"publish", "work"} => warmer'[w].slot = 1
        BY <3>0, <3>1 DEF Takes, Taken, Strolls, Walks, Marks, Frees, Defers, Forgets, Left, Went,
                          At
      <4>2. Counted' = Counted /\ Holders' \subseteq Holders /\ Warming' \subseteq Holders'
        <5>1. w \in Counted <=> (warmer[w].pc \in {"expire", "over"} \/ warmer[w].slot = 1)
          BY DEF Counted
        <5>2. w \in Holders <=> (warmer[w].pc = "expire" \/ warmer[w].slot = 1)
          BY DEF Holders
        <5> QED
          BY <3>a, <4>1, <5>1, <5>2, OthersStay
      <4> QED
        BY <1>2, <4>1, <4>2, TallyStays
    <3>2. CASE Raises(w)
      BY <1>2, <3>2, TallyRises
    <3>3. CASE Lowers(w)
      BY <1>2, <3>0, <3>3, TallyFalls DEF Lowers, Went, Counted, At
    <3>4. CASE Returns(w)
      <4>1. CASE warmer[w].slot = 1
        <5>1. w \in Counted
          BY <4>1 DEF Counted
        <5> QED
          BY <1>2, <3>4, <4>1, <5>1, TallyFalls DEF Returns, Went
      <4>2. CASE warmer[w].slot = 0
        <5>1. /\ w \notin Counted /\ w \notin Holders /\ w \notin Warming
              /\ count' = count /\ leaked' = leaked
          BY <3>4, <4>2 DEF Returns, At, Counted, Holders, Warming, TileTypeOK
        <5>2. /\ Counted' = Counted \ {w}
              /\ Holders' = Holders \ {w}
              /\ Warming' = Warming \ {w}
          BY <3>4, OthersStay DEF Returns, Went
        <5> QED
          BY <1>2, <3>a, <5>1, <5>2, TallyStays
      <4> QED
        BY <3>0, <4>1, <4>2
    <3>5. CASE Dies(w)
      <4>0. /\ Alone(w)
            /\ ~(warmer'[w].pc \in {"expire", "over"} \/ warmer'[w].slot = 1)
            /\ warmer'[w].pc \notin {"publish", "work"}
            /\ count' = count
        BY <3>5 DEF Dies, Left
      <4>1. CASE w \in Counted
        BY <1>2, <3>5, <4>0, <4>1, TallyFalls DEF Dies
      <4>2. CASE w \notin Counted
        <5>1. w \notin Holders /\ w \notin Warming /\ leaked' = leaked
          BY <3>5, <3>a, <4>2, HoldersCount DEF Dies
        <5>2. /\ Counted' = Counted \ {w}
              /\ Holders' = Holders \ {w}
              /\ Warming' = Warming \ {w}
          BY <4>0, OthersStay
        <5> QED
          BY <1>2, <3>a, <4>0, <4>2, <5>1, <5>2, TallyStays
      <4> QED
        BY <4>1, <4>2
    <3>6. CASE Ignores(w)
      BY <1>2, <3>6 DEF Ignores
    <3> QED
      BY <2>2, <3>1, <3>2, <3>3, <3>4, <3>5, <3>6 DEF WarmerMove
  <2>3. CASE Resets
    BY <1>2, <2>3 DEF Resets
  <2> QED
    BY <2>1, <2>2, <2>3 DEF Move
<1> QED
  BY <1>1, <1>2

\* A warmer about to set the counter's time to live stays there, sets it, gives it up, or
\* dies and takes its slot with it.
LEMMA ExpireStays ==
    ASSUME TileTypeOK, Move, NEW v \in Warmers, At(v, "expire")
    PROVE  At(v, "expire")' \/ ~lasting' \/ spoiled' \/ leaked' = leaked + 1
<1>1. CASE warmer' = warmer
  BY <1>1 DEF At
<1>2. ASSUME NEW w \in Warmers, WarmerMove(w), v # w PROVE At(v, "expire")'
  <2>1. Alone(w)
    BY <1>2 DEF WarmerMove, Takes, Taken, Strolls, Walks, Raises, Marks, Lowers, Frees, Defers,
                Returns, Dies, Left, Forgets, Ignores, Went
  <2> QED
    BY <1>2, <2>1 DEF Alone, At
<1>3. ASSUME WarmerMove(v) PROVE ~lasting' \/ spoiled' \/ leaked' = leaked + 1
  <2>1. Marks(v) \/ Dies(v) \/ Ignores(v)
    BY <1>3 DEF WarmerMove, Takes, Strolls, Walks, Raises, Lowers, Frees, Defers, Returns,
                Forgets, At
  <2>2. v \in Counted
    BY DEF Counted, At
  <2> QED
    BY <2>1, <2>2 DEF Marks, Dies, Ignores
<1> QED
  BY <1>1, <1>2, <1>3 DEF Move, Waits, Resets, Unlocks

\* What one move may do to the counter and its companions.
LEMMA MoveFrame ==
    ASSUME TileTypeOK, Move
    PROVE  \/ spoiled'
           \/ /\ ~spoiled
              /\ lasting' => lasting
              /\ leaked' = leaked \/ leaked' = leaked + 1
              /\ count' = count \/ count' = count - 1 \/ \E w \in Warmers : Raises(w)
<1>0. leaked \in Nat /\ count \in Int /\ spoiled \in BOOLEAN /\ lasting \in BOOLEAN
  BY DEF TileTypeOK
<1>1. CASE Waits \/ Resets \/ \E j \in Jobs : Unlocks(j)
  BY <1>0, <1>1 DEF Waits, Resets, Unlocks
<1>2. ASSUME NEW w \in Warmers, WarmerMove(w)
      PROVE  /\ spoiled' \/ ~spoiled
             /\ lasting' => lasting
             /\ leaked' = leaked \/ leaked' = leaked + 1
             /\ count' = count \/ count' = count - 1 \/ Raises(w)
  <2>1. CASE \E j \in Jobs : Takes(w, j)
    BY <1>0, <2>1 DEF Takes
  <2>2. CASE Strolls(w) \/ Marks(w) \/ Frees(w) \/ Defers(w) \/ Forgets(w) \/ Ignores(w)
    BY <1>0, <2>2 DEF Strolls, Walks, Marks, Frees, Defers, Forgets, Ignores
  <2>3. CASE Raises(w) \/ Lowers(w) \/ Dies(w)
    BY <1>0, <2>3 DEF Raises, Lowers, Dies
  <2>4. CASE Returns(w)
    <3>1. warmer[w].slot = 0 \/ warmer[w].slot = 1
      BY WarmerFields
    <3>2. CASE count' = count - warmer[w].slot /\ leaked' = leaked
      BY <1>0, <2>4, <3>1, <3>2 DEF Returns
    <3>3. CASE count' = count /\ leaked' = leaked + warmer[w].slot
      BY <1>0, <2>4, <3>1, <3>3 DEF Returns
    <3> QED
      BY <2>4, <3>2, <3>3 DEF Returns
  <2> QED
    BY <1>2, <2>1, <2>2, <2>3, <2>4 DEF WarmerMove
<1> QED
  BY <1>1, <1>2 DEF Move

LEMMA MortalityKept ==
    ASSUME TileTypeOK, Tallies, CounterIsMortal, Move
    PROVE  CounterIsMortal'
<1> SUFFICES ASSUME ~spoiled', count' > 0, lasting'
             PROVE  leaked' > 0 \/ \E w \in Warmers : At(w, "expire")'
  BY DEF CounterIsMortal
<1>1. ~spoiled /\ lasting
  BY MoveFrame
<1>2. /\ leaked \in Nat /\ leaked' \in Nat
      /\ leaked' >= leaked
  <2>1. leaked \in Nat
    BY DEF TileTypeOK
  <2> QED
    BY <2>1, MoveFrame
<1>3. count \in Nat
  BY <1>1, <1>2, FS_CardinalityType DEF Tallies
<1>4. CASE count > 0
  <2>1. leaked > 0 \/ \E v \in Warmers : At(v, "expire")
    BY <1>1, <1>4 DEF CounterIsMortal
  <2>2. ASSUME NEW v \in Warmers, At(v, "expire")
        PROVE  leaked' > 0 \/ \E w \in Warmers : At(w, "expire")'
    BY <1>2, <2>2, ExpireStays
  <2> QED
    BY <1>2, <2>1, <2>2
<1>5. CASE count = 0
  <2>2. PICK w \in Warmers : Raises(w)
    BY <1>3, <1>5, MoveFrame
  <2>3. count' = 1 /\ warmer'[w].pc = "expire"
    BY <1>5, <2>2 DEF Raises, Went
  <2> QED
    BY <2>3 DEF At
<1> QED
  BY <1>3, <1>4, <1>5
-----------------------------------------------------------------------------
(* The locks. *)

\* From when it takes the lock until it frees it, a task owns its job ...
Owns(w) == warmer[w].pc \in {"check", "incr", "expire", "over", "drop", "publish", "work",
                             "release", "unlock"}

\* ... and alone, unless the job's lock was freed under somebody.
Owners == \A v \in Warmers :
              Owns(v) /\ JobOf(v) \notin torn
                  => /\ lock[JobOf(v)]
                     /\ \A u \in Warmers : Owns(u) /\ JobOf(u) = JobOf(v) => u = v

\* No new owner, and no lock opened.
LEMMA OwnersStay ==
    ASSUME Owners, lock' = lock, torn \subseteq torn',
           \A v \in Warmers : Owns(v)' /\ JobOf(v)' \notin torn'
                                => Owns(v) /\ JobOf(v)' = JobOf(v)
    PROVE  Owners'
BY DEF Owners

LEMMA OwnersKept ==
    ASSUME TileTypeOK, Owners, Move
    PROVE  Owners'
<1>1. CASE Waits \/ Resets
  <2>1. warmer' = warmer /\ lock' = lock /\ torn' = torn
    BY <1>1 DEF Waits, Resets
  <2>2. \A v \in Warmers : (Owns(v)' <=> Owns(v)) /\ JobOf(v)' = JobOf(v)
    BY <2>1 DEF Owns, JobOf
  <2> QED
    BY <2>1, <2>2, OwnersStay
<1>2. ASSUME NEW j \in Jobs, Unlocks(j) PROVE Owners'
  <2>1. \A v \in Warmers : (Owns(v)' <=> Owns(v)) /\ JobOf(v)' = JobOf(v)
    BY <1>2 DEF Owns, JobOf, Unlocks
  <2>2. \A v \in Warmers : Owns(v) => JobOf(v) \in Jobs
    BY JobsOfWarmers DEF Owns, At
  <2>3. \A v \in Warmers : JobOf(v) = j => j \in torn'
    BY <1>2 DEF Unlocks
  <2>4. /\ torn \subseteq torn'
        /\ \A i \in Jobs : i # j => lock'[i] = lock[i]
    BY <1>2 DEF Unlocks, TileTypeOK
  <2> QED
    BY <2>1, <2>2, <2>3, <2>4 DEF Owners
<1>3. ASSUME NEW w \in Warmers, WarmerMove(w) PROVE Owners'
  <2>0. Alone(w)
    BY <1>3 DEF WarmerMove, Takes, Taken, Strolls, Walks, Raises, Marks, Lowers, Frees, Defers,
                Returns, Dies, Left, Forgets, Ignores, Went
  <2>1. \A v \in Warmers \ {w} : (Owns(v)' <=> Owns(v)) /\ JobOf(v)' = JobOf(v)
    BY <2>0 DEF Alone, Owns, JobOf
  <2>2. \A v \in Warmers : Owns(v) => JobOf(v) \in Jobs
    BY JobsOfWarmers DEF Owns, At
  <2>3. ASSUME NEW j \in Jobs, Takes(w, j) PROVE Owners'
    <3>1. /\ torn' = torn /\ lock'[j] /\ JobOf(w)' = j /\ ~lock[j]
          /\ \A i \in Jobs : lock[i] => lock'[i]
          /\ ~Owns(w)
      BY <2>3 DEF Takes, Taken, TileTypeOK, JobOf, Owns, At
    <3>2. ASSUME NEW v \in Warmers, Owns(v)', JobOf(v)' \notin torn',
                 NEW u \in Warmers, Owns(u)', JobOf(u)' = JobOf(v)'
          PROVE  lock'[JobOf(v)'] /\ u = v
      <4>1. CASE v = w
        <5>1. u # w => Owns(u) /\ JobOf(u) = j /\ j \notin torn
          BY <2>1, <3>1, <3>2, <4>1
        <5> QED
          BY <3>1, <4>1, <5>1 DEF Owners
      <4>2. CASE v # w
        <5>1. Owns(v) /\ JobOf(v)' = JobOf(v) /\ JobOf(v) \notin torn /\ JobOf(v) \in Jobs
          BY <2>1, <2>2, <3>1, <3>2, <4>2
        <5>2. lock[JobOf(v)]
          BY <5>1 DEF Owners
        <5>3. u # w
          BY <3>1, <3>2, <5>1, <5>2
        <5>4. Owns(u) /\ JobOf(u) = JobOf(v)
          BY <2>1, <3>2, <5>1, <5>3
        <5> QED
          BY <3>1, <5>1, <5>2, <5>4 DEF Owners
      <4> QED
        BY <4>1, <4>2
    <3> QED
      BY <3>2 DEF Owners
  <2>4. ASSUME Frees(w) PROVE Owners'
    <3>1. /\ torn' = torn /\ Owns(w) /\ ~Owns(w)' /\ JobOf(w) \in Jobs
          /\ \A i \in Jobs : i # JobOf(w) => lock'[i] = lock[i]
      BY <2>2, <2>4 DEF Frees, Left, Went, Owns, At, JobOf, TileTypeOK
    <3> QED
      BY <2>1, <2>2, <3>1 DEF Owners
  <2>5. CASE \/ Strolls(w) \/ Raises(w) \/ Marks(w) \/ Lowers(w) \/ Defers(w) \/ Returns(w)
             \/ Dies(w) \/ Forgets(w) \/ Ignores(w)
    <3>1. lock' = lock /\ torn \subseteq torn'
      BY <2>5 DEF Strolls, Walks, Raises, Marks, Lowers, Defers, Returns, Dies, Forgets, Ignores
    <3>2. Owns(w)' /\ JobOf(w)' \notin torn' => Owns(w) /\ JobOf(w)' = JobOf(w)
      BY <2>5 DEF Strolls, Walks, Raises, Marks, Lowers, Defers, Returns, Dies, Forgets, Ignores,
                  Left, Went, Owns, At, JobOf
    <3> QED
      BY <2>1, <3>1, <3>2, OwnersStay
  <2> QED
    BY <1>3, <2>3, <2>4, <2>5 DEF WarmerMove
<1> QED
  BY <1>1, <1>2, <1>3 DEF Move
-----------------------------------------------------------------------------
(* The theorems. *)

TileInv == TileTypeOK /\ Tallies /\ CounterIsMortal /\ Owners

LEMMA TileInvInit == TileInit => TileInv
<1> SUFFICES ASSUME TileInit PROVE TileInv
  OBVIOUS
<1>1. TileTypeOK
  BY TileTypeInit
<1>2. \A w \in Warmers : warmer[w].pc = "idle" /\ warmer[w].slot = 0
  BY DEF TileInit, IdleWarmer
<1>3. Counted = {} /\ Holders = {} /\ Warming = {}
  BY <1>2 DEF Counted, Holders, Warming
<1>4. Tallies
  BY <1>3, FS_EmptySet, CapAssumption DEF TileInit, Tallies
<1>5. CounterIsMortal /\ Owners
  BY <1>2 DEF TileInit, CounterIsMortal, Owners, Owns
<1> QED
  BY <1>1, <1>4, <1>5 DEF TileInv

LEMMA TileInvStep == TileInv /\ [TileNext]_tileVars => TileInv'
<1> SUFFICES ASSUME TileInv, [TileNext]_tileVars PROVE TileInv'
  OBVIOUS
<1>1. CASE TileNext
  <2>1. Move
    BY <1>1, StepShapes DEF TileInv
  <2> QED
    BY <1>1, <2>1, TileTypeKept, TalliesKept, MortalityKept, OwnersKept DEF TileInv
<1>2. CASE UNCHANGED tileVars
  BY <1>2 DEF tileVars, TileInv, TileTypeOK, Tallies, CounterIsMortal, Owners, Owns, At, JobOf,
              Counted, Holders, Warming
<1> QED
  BY <1>1, <1>2

THEOREM TileInvariance == TileSpec => []TileInv
BY TileInvInit, TileInvStep, PTL DEF TileSpec

\* Everything has its type: a task at work has a job, and holds a slot only between the
\* check of the cap and the release.
THEOREM TileTypeCorrect == TileSpec => []TileTypeOK
<1>1. TileInv => TileTypeOK
  BY DEF TileInv
<1> QED
  BY <1>1, TileInvariance, PTL

\* The counter of _check_per_tenant_cap stands for the tasks that have raised it.
THEOREM CounterAlwaysExact == TileSpec => []CounterIsExact
<1>1. TileInv => CounterIsExact
  BY DEF TileInv, Tallies, CounterIsExact
<1> QED
  BY <1>1, TileInvariance, PTL

\* A tenant never has more warming tasks at work than the cap.
THEOREM CapAlwaysHolds == TileSpec => []CapHolds
<1>1. ASSUME TileInv, ~spoiled PROVE Cardinality(Warming) <= Cap
  <2>1. IsFiniteSet(Holders) /\ Warming \subseteq Holders /\ Cardinality(Holders) <= Cap
    BY <1>1, HoldersCount, FS_Subset DEF TileInv, Tallies
  <2>2. /\ Cardinality(Warming) <= Cardinality(Holders)
        /\ Cardinality(Warming) \in Nat /\ Cardinality(Holders) \in Nat
    BY <2>1, FS_Subset, FS_CardinalityType
  <2> QED
    BY <2>1, <2>2, CapAssumption
<1>2. TileInv => CapHolds
  BY <1>1 DEF CapHolds
<1> QED
  BY <1>2, TileInvariance, PTL

\* A counter above zero has a time to live, or is about to get one, or a task died with it.
THEOREM CounterAlwaysMortal == TileSpec => []CounterIsMortal
<1>1. TileInv => CounterIsMortal
  BY DEF TileInv
<1> QED
  BY <1>1, TileInvariance, PTL

\* Two workers render one job only if its lock was freed under one of them.
THEOREM OneWarmerAlways == TileSpec => []OneWarmerPerJob
<1>1. ASSUME Owners, NEW v \in Warming, NEW w \in Warming, v # w, JobOf(v) = JobOf(w)
      PROVE  JobOf(v) \in torn
  BY <1>1 DEF Owners, Owns, Warming
<1>2. TileInv => OneWarmerPerJob
  BY <1>1 DEF TileInv, OneWarmerPerJob
<1> QED
  BY <1>2, TileInvariance, PTL
=============================================================================
