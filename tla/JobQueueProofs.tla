--------------------------- MODULE JobQueueProofs ---------------------------
(***************************************************************************)
(* Type correctness of JobQueue; when no live worker is overtaken by its   *)
(* TTLs (MaxStalls = 0), serialization of the runs of a pipeline; and with *)
(* any number of such overtakings, the bound on the executions of a job    *)
(* and that no job is dropped: for any number of jobs, handlers and        *)
(* pipelines, with crashes and failed commands at every step.              *)
(***************************************************************************)
EXTENDS JobQueue, FiniteSetTheorems, TLAPS

(* Lemmas about the operators of the specification.                        *)

\* The cap of the attempt counter is an integer, and so is a capped count.
LEMMA CappedType == \A n \in Int : Capped(n) \in Int
<1>1. Cardinality(Handlers) \in Nat
  BY QueueAssumption, FS_CardinalityType
<1> QED
  BY <1>1, QueueAssumption DEF Capped, AttemptCap

\* An UPDATE keeps the type of the rows.
LEMMA UpdateRowType ==
    ASSUME row \in [Jobs -> {"none", "queued", "running", "completed", "failed"}],
           NEW j \in Jobs, NEW s \in {"running", "completed", "failed"}
    PROVE  UpdateRow(j, s) \in [Jobs -> {"none", "queued", "running", "completed", "failed"}]
  BY DEF UpdateRow

\* An active handler works on an entry of the stream, of a known pipeline.
LEMMA ActiveEntry ==
    ASSUME TypeOK, NEW h \in Handlers, Active(h)
    PROVE  /\ entry[h] \in Entries /\ JobOf(h) \in Jobs /\ PipeOf(h) \in Pipelines
           /\ FenceOf(h) \in Jobs \X Int /\ FenceOf(h) # Free
  BY QueueAssumption DEF TypeOK, Active, JobOf, PipeOf, FenceOf, Entries, Free

-----------------------------------------------------------------------------
(* Type correctness.                                                        *)

\* The empty queue is well typed.
LEMMA TypeInit == Init => TypeOK
  BY QueueAssumption DEF Init, TypeOK, Terminal, NoEntry, Free, Steps

\* Handing an entry to an idle handler keeps the types.
LEMMA TypeHandle ==
    ASSUME TypeOK, NEW h \in Handlers, NEW e \in Entries, Handle(h, e)
    PROVE  /\ pc' \in [Handlers -> Steps \cup {"idle"}]
           /\ entry' \in [Handlers -> Entries \cup {NoEntry}]
           /\ (\A g \in Handlers : pc[g] = "idle" <=> entry[g] = NoEntry)'
           /\ att' \in [Handlers -> Int]
           /\ verdict' \in [Handlers -> {"none", "completed", "failed"}]
           /\ (\A g \in Handlers : pc[g] \in {"fence", "record", "publish"}
                                       => verdict[g] # "none")'
           /\ lost' \subseteq Handlers
<1>1. e # NoEntry
  BY QueueAssumption DEF Entries, NoEntry, Copies
<1> QED
  BY <1>1 DEF TypeOK, Handle, Steps

\* Enqueueing, and the ways an entry is claimed.
LEMMA TypeClaims ==
    ASSUME TypeOK, 
           \/ \E j \in Jobs : Enqueue(j)
           \/ \E h \in Handlers, e \in queue : Claim(h, e)
           \/ \E e \in queue : ClaimLost(e)
           \/ \E h \in Handlers, e \in pel : Reclaim(h, e)
           \/ \E e \in pel : ReclaimGone(e)
    PROVE  TypeOK'
<1>1. ASSUME NEW j \in Jobs, Enqueue(j) PROVE TypeOK'
  BY <1>1, QueueAssumption DEF TypeOK, Enqueue, handlerVars, budget, ghosts, Entries, Copies, Terminal
<1>2. ASSUME NEW h \in Handlers, NEW e \in queue, Claim(h, e) PROVE TypeOK'
  <2>1. e \in Entries /\ Handle(h, e)
    BY <1>2 DEF TypeOK, Claim
  <2> QED
    BY <1>2, <2>1, TypeHandle DEF TypeOK, Claim, budget, ghosts
<1>3. ASSUME NEW e \in queue, ClaimLost(e) PROVE TypeOK'
  BY <1>3, QueueAssumption DEF TypeOK, ClaimLost, handlerVars, ghosts
<1>4. ASSUME NEW h \in Handlers, NEW e \in pel, Reclaim(h, e) PROVE TypeOK'
  <2>1. e \in Entries /\ Handle(h, e)
    BY <1>4 DEF TypeOK, Reclaim
  <2> QED
    BY <1>4, <2>1, TypeHandle, QueueAssumption DEF TypeOK, Reclaim, redisVars, ghosts
<1>5. ASSUME NEW e \in pel, ReclaimGone(e) PROVE TypeOK'
  BY <1>5 DEF TypeOK, ReclaimGone, handlerVars, budget, ghosts
<1> QED
  BY <1>1, <1>2, <1>3, <1>4, <1>5

\* The steps of a handler whose commands succeed.
LEMMA TypeHandler ==
    ASSUME TypeOK, NEW h \in Handlers, HandlerStep(h) \/ Heartbeat(h)
    PROVE  TypeOK'
<1> USE DEF TypeOK, Goto, Return, Finish, budget, ghosts, redisVars
<1>1. Active(h) /\ entry[h] \in Entries /\ JobOf(h) \in Jobs /\ PipeOf(h) \in Pipelines
      /\ FenceOf(h) \in Jobs \X Int
  <2>1. Active(h)
    BY DEF HandlerStep, Active, Guard, Count, Lock, LockBusy, Uncount, Defer, Start,
           MarkRunning, RunEnds, RunConfigRead, RunCancelled, Retry, Requeue, Fence,
           Record, Publish, Release, Ack, Heartbeat
  <2> QED
    BY <2>1, ActiveEntry
<1>2. ReleaseLock(h) \in [Pipelines -> (Jobs \X Int) \cup {Free}]
  BY <1>1 DEF ReleaseLock
<1>3. CASE Guard(h)
  BY <1>3 DEF Guard, Steps
<1>4. CASE Count(h)
  <2> DEFINE n == Capped(attempts[JobOf(h)] + 1)
  <2>1. n \in Int
    BY <1>1, CappedType
  <2> HIDE DEF n
  <2>2. /\ pc[h] = "count"
        /\ attempts' = [attempts EXCEPT ![JobOf(h)] = n]
        /\ att' = [att EXCEPT ![h] = n]
        /\ pc' = [pc EXCEPT ![h] = IF GivesUp(n) THEN "fence" ELSE "lock"]
        /\ verdict' = [verdict EXCEPT ![h] = IF GivesUp(n) THEN "failed" ELSE "none"]
        /\ UNCHANGED <<queue, pel, gone, delayed, live, lock, row, entry, lost, sweep,
                       budget, ghosts>>
    BY <1>4 DEF Count, n
  <2> QED
    BY <1>1, <2>1, <2>2 DEF Steps
<1>5. CASE Lock(h)
  BY <1>1, <1>5 DEF Lock, Steps
<1>6. CASE LockBusy(h)
  BY <1>6 DEF LockBusy, Steps
<1>7. CASE Uncount(h)
  BY <1>1, <1>7 DEF Uncount, Steps
<1>8. CASE Defer(h)
  BY <1>1, <1>8 DEF Defer, DeferEffect
<1>9. CASE Start(h)
  BY <1>1, <1>9 DEF Start, Steps
<1>10. CASE MarkRunning(h)
  BY <1>1, <1>10, UpdateRowType DEF MarkRunning, Steps
<1>11. CASE \E s \in {"completed", "failed"} : RunEnds(h, s)
  BY <1>11 DEF RunEnds, Steps
<1>12. CASE RunConfigRead(h)
  BY <1>12 DEF RunConfigRead, Steps
<1>13. CASE RunCancelled(h)
  BY <1>13 DEF RunCancelled
<1>14. CASE Retry(h)
  BY <1>2, <1>14 DEF Retry, AfterRetry, Steps
<1>15. CASE Requeue(h)
  BY <1>1, <1>15 DEF Requeue, Steps
<1>16. CASE Fence(h)
  BY <1>16 DEF Fence, Steps
<1>17. CASE Record(h)
  <2>1. verdict[h] \in {"completed", "failed"}
    BY <1>17 DEF Record
  <2> QED
    BY <1>1, <1>17, <2>1, UpdateRowType DEF Record, Steps
<1>18. CASE Publish(h)
  BY <1>1, <1>18 DEF Publish, PublishEffect, Steps, Terminal
<1>19. CASE Release(h)
  BY <1>2, <1>19 DEF Release, Steps
<1>20. CASE Ack(h)
  BY <1>20 DEF Ack
<1>21. CASE Heartbeat(h)
  BY <1>21 DEF Heartbeat
<1> QED
  BY <1>3, <1>4, <1>5, <1>6, <1>7, <1>8, <1>9, <1>10, <1>11, <1>12, <1>13, <1>14, <1>15,
     <1>16, <1>17, <1>18, <1>19, <1>20, <1>21 DEF HandlerStep

\* Failed commands and crashes.
LEMMA TypeFaults ==
    ASSUME TypeOK, NEW h \in Handlers,
           FaultReturn(h) \/ FaultApplied(h) \/ FaultSkip(h) \/ FaultCount(h) \/ Crash(h)
    PROVE  TypeOK'
<1> USE QueueAssumption DEF TypeOK, Goto, Return, ghosts, redisVars, Fault
<1>1. Active(h) /\ entry[h] \in Entries /\ JobOf(h) \in Jobs /\ PipeOf(h) \in Pipelines
      /\ FenceOf(h) \in Jobs \X Int
  <2>1. Active(h)
    BY DEF Active, FaultReturn, FaultApplied, FaultSkip, FaultCount, Crash
  <2> QED
    BY <2>1, ActiveEntry
<1>2. ReleaseLock(h) \in [Pipelines -> (Jobs \X Int) \cup {Free}]
  BY <1>1 DEF ReleaseLock
<1>3. CASE FaultReturn(h)
  BY <1>3 DEF FaultReturn
<1>4. CASE FaultApplied(h)
  BY <1>1, <1>2, <1>4 DEF FaultApplied, PublishEffect, DeferEffect, Terminal
<1>5. CASE FaultSkip(h)
  BY <1>1, <1>5 DEF FaultSkip, AfterRetry, Finish, Steps
<1>6. CASE FaultCount(h)
  <2>1. PICK n \in {0, 1} : attempts' = [attempts EXCEPT ![JobOf(h)] = Capped(@ + n)]
    BY <1>6 DEF FaultCount
  <2>2. attempts' \in [Jobs -> Int]
    BY <1>1, <2>1, CappedType
  <2> QED
    BY <1>1, <1>6, <2>2 DEF FaultCount, Steps
<1>7. CASE Crash(h)
  BY <1>7 DEF Crash
<1> QED
  BY <1>3, <1>4, <1>5, <1>6, <1>7

\* Clocks, the mover, trims and the sweep.
LEMMA TypeLoops ==
    ASSUME TypeOK,
           \/ \E p \in Pipelines : LockExpire(p)
           \/ \E j \in Jobs, n \in Copies : MoveDue(j, n)
           \/ \E j \in Jobs : Trim(j)
           \/ \E j \in Jobs : SweepScan(j) \/ SweepRead(j) \/ SweepMark(j) \/ SweepFault(j)
    PROVE  TypeOK'
<1> USE QueueAssumption DEF TypeOK, handlerVars, budget, ghosts, redisVars
<1>1. ASSUME NEW p \in Pipelines, LockExpire(p) PROVE TypeOK'
  BY <1>1 DEF LockExpire
<1>2. ASSUME NEW j \in Jobs, NEW n \in Copies, MoveDue(j, n) PROVE TypeOK'
  BY <1>2 DEF MoveDue, Entries
<1>3. ASSUME NEW j \in Jobs, Trim(j) PROVE TypeOK'
  BY <1>3 DEF Trim
<1>4. ASSUME NEW j \in Jobs, SweepScan(j) \/ SweepRead(j) \/ SweepFault(j) PROVE TypeOK'
  BY <1>4 DEF SweepScan, SweepRead, SweepFault
<1>5. ASSUME NEW j \in Jobs, SweepMark(j) PROVE TypeOK'
  BY <1>5 DEF SweepMark, Terminal
<1> QED
  BY <1>1, <1>2, <1>3, <1>4, <1>5

\* Every step keeps the types.
LEMMA TypeStep == TypeOK /\ [Next]_vars => TypeOK'
<1> SUFFICES ASSUME TypeOK, [Next]_vars PROVE TypeOK'
  OBVIOUS
<1>1. CASE UNCHANGED vars
  BY <1>1 DEF vars, TypeOK
<1>2. CASE Next
  BY <1>2, TypeClaims, TypeHandler, TypeFaults, TypeLoops DEF Next
<1> QED
  BY <1>1, <1>2

\* Every reachable state of the queue is well typed, whatever the jobs, the
\* handlers, the pipelines and the budgets of faults, crashes and stalls.
THEOREM TypeCorrect == Spec => []TypeOK
  BY TypeInit, TypeStep, PTL DEF Spec

-----------------------------------------------------------------------------
(* Serialization.  RunsSerialized is not inductive.  HolderHasLock says why *)
(* it holds: whoever executes a job holds the lock under its own fence.     *)
(* That is only preserved because nobody else can release under this fence, *)
(* that is because no two handlers ever work on one job, which in turn      *)
(* rests on the job being delivered at most once: DeliveryInv.              *)

\* No two handlers work on one job.
OneHandler ==
    \A g, h \in Handlers : g # h /\ Active(g) /\ Active(h) => JobOf(g) # JobOf(h)

\* A job being handled is neither delayed nor undelivered, nor pending under
\* another entry.
HandledOnce ==
    \A h \in Handlers : Active(h) =>
        /\ JobOf(h) \notin delayed
        /\ \A e \in queue : e[1] # JobOf(h)
        /\ \A e \in pel : e[1] = JobOf(h) => e = entry[h]

\* A delayed job has no undelivered and no pending entry.
DelayedAlone == \A j \in delayed : \A e \in queue \cup pel : e[1] # j

\* A job has at most one entry, which is undelivered or pending.
OneEntry == /\ queue \cap pel = {}
            /\ \A e, f \in queue \cup pel : e[1] = f[1] => e = f

\* A job that was not enqueued is nowhere.
AbsentNowhere ==
    \A j \in Jobs : live[j] = "absent" =>
        /\ j \notin delayed
        /\ \A e \in queue \cup pel : e[1] # j
        /\ \A h \in Handlers : Active(h) => JobOf(h) # j

DeliveryInv == OneHandler /\ HandledOnce /\ DelayedAlone /\ OneEntry /\ AbsentNowhere

\* A handler between try_lock and its verdict, or about to release in the
\* ConfigRead arm, holds the lock of its pipeline under its own fence.
HolderHasLock ==
    \A h \in Handlers :
        pc[h] \in {"start", "row", "run", "retry"} => lock[PipeOf(h)] = FenceOf(h)

SerialInv == TypeOK /\ DeliveryInv /\ HolderHasLock

\* The inductive invariant implies the property.
LEMMA SerialImplies == SerialInv => RunsSerialized
<1> SUFFICES ASSUME SerialInv, NEW g \in Handlers, NEW h \in Handlers,
                    g # h, Executing(g), Executing(h), PipeOf(g) = PipeOf(h)
             PROVE  FALSE
  BY DEF RunsSerialized
<1>1. Active(g) /\ Active(h)
  BY DEF Executing, Active
<1>2. FenceOf(g) = FenceOf(h)
  BY DEF SerialInv, HolderHasLock, Executing
<1>3. JobOf(g) = JobOf(h)
  BY <1>2 DEF FenceOf
<1> QED
  BY <1>1, <1>3 DEF SerialInv, DeliveryInv, OneHandler

\* With no job, no handler at work and no lock, the invariant holds.
LEMMA SerialInit == Init => SerialInv
  BY TypeInit DEF Init, SerialInv, DeliveryInv, OneHandler, HandledOnce, DelayedAlone,
                  OneEntry, AbsentNowhere, HolderHasLock, Active

\* A step that delivers nothing preserves DeliveryInv: handlers keep their
\* entry or become idle, entries only disappear, the delayed set is unchanged,
\* no enqueued job becomes absent.
LEMMA DeliveryShrinks ==
    ASSUME DeliveryInv, queue' \subseteq queue, pel' \subseteq pel, delayed' = delayed,
           \A h \in Handlers : Active(h)' => Active(h) /\ entry'[h] = entry[h],
           \A j \in Jobs : live'[j] = "absent" => live[j] = "absent"
    PROVE  DeliveryInv'
<1> USE DEF JobOf
<1>1. OneHandler'
  BY DEF DeliveryInv, OneHandler
<1>2. HandledOnce'
  BY DEF DeliveryInv, HandledOnce
<1>3. DelayedAlone'
  BY DEF DeliveryInv, DelayedAlone
<1>4. OneEntry'
  BY DEF DeliveryInv, OneEntry
<1>5. AbsentNowhere'
  BY DEF DeliveryInv, AbsentNowhere
<1> QED
  BY <1>1, <1>2, <1>3, <1>4, <1>5 DEF DeliveryInv

\* Delivering a pending entry nobody works on to an idle handler.
LEMMA DeliveryHandle ==
    ASSUME SerialInv, NEW h \in Handlers, NEW e \in Entries, pc[h] = "idle", Handle(h, e),
           \/ e \in queue /\ queue' = queue \ {e} /\ pel' = pel \cup {e}
           \/ /\ e \in pel /\ queue' = queue /\ pel' = pel
              /\ \A g \in Handlers : entry[g] # e,
           delayed' = delayed, live' = live
    PROVE  DeliveryInv'
<1> USE DEF JobOf, Active
<1>1. \A g \in Handlers : Active(g) => JobOf(g) # e[1]
  BY DEF SerialInv, DeliveryInv, HandledOnce
<1>2. \A g \in Handlers : g # h => pc'[g] = pc[g] /\ entry'[g] = entry[g]
  BY DEF SerialInv, TypeOK, Handle
<1>3. entry'[h] = e /\ Active(h)'
  BY DEF SerialInv, TypeOK, Handle
<1>4. queue' \cup pel' = queue \cup pel
  OBVIOUS
<1>5. e \notin queue' /\ e \in queue \cup pel
  BY DEF SerialInv, DeliveryInv, OneEntry
<1>6. OneHandler'
  BY <1>1, <1>2, <1>3 DEF SerialInv, DeliveryInv, OneHandler
<1>7. HandledOnce'
  <2>1. ASSUME NEW g \in Handlers, g # h, Active(g)
        PROVE  /\ JobOf(g) \notin delayed
               /\ \A f \in queue' : f[1] # JobOf(g)
               /\ \A f \in pel' : f[1] = JobOf(g) => f = entry[g]
    BY <2>1, <1>1, <1>4 DEF SerialInv, DeliveryInv, HandledOnce
  <2>2. e[1] \notin delayed
    BY <1>5 DEF SerialInv, DeliveryInv, DelayedAlone
  <2>3. \A f \in queue' : f[1] # e[1]
    BY <1>4, <1>5 DEF SerialInv, DeliveryInv, OneEntry
  <2>4. \A f \in pel' : f[1] = e[1] => f = e
    BY <1>4, <1>5 DEF SerialInv, DeliveryInv, OneEntry
  <2> QED
    BY <1>2, <1>3, <2>1, <2>2, <2>3, <2>4 DEF HandledOnce
<1>8. DelayedAlone'
  BY <1>4 DEF SerialInv, DeliveryInv, DelayedAlone
<1>9. OneEntry'
  BY <1>4 DEF SerialInv, DeliveryInv, OneEntry
<1>10. AbsentNowhere'
  BY <1>2, <1>3, <1>4, <1>5 DEF SerialInv, DeliveryInv, AbsentNowhere, Entries
<1> QED
  BY <1>6, <1>7, <1>8, <1>9, <1>10 DEF DeliveryInv

\* A handler that defers its job leaves it delayed and nowhere else.
LEMMA DeliveryDefer ==
    ASSUME SerialInv, NEW h \in Handlers, Active(h), DeferEffect(h), Return(h),
           queue' = queue, live' = live
    PROVE  DeliveryInv'
<1> USE DEF JobOf, Active
<1> DEFINE j == JobOf(h)
<1>1. \A g \in Handlers : g # h => pc'[g] = pc[g] /\ entry'[g] = entry[g]
  BY DEF SerialInv, TypeOK, Return
<1>2. pc'[h] = "idle" /\ j \in Jobs
  BY ActiveEntry DEF SerialInv, TypeOK, Return
<1>3. delayed' = delayed \cup {j} /\ pel' = pel \ {entry[h]}
  BY DEF DeferEffect
<1>4. /\ \A e \in queue' \cup pel' : e[1] # j
      /\ \A g \in Handlers : Active(g)' => JobOf(g)' # j
  BY <1>1, <1>2, <1>3 DEF SerialInv, DeliveryInv, HandledOnce, OneHandler
<1>5. live[j] # "absent"
  BY <1>2 DEF SerialInv, DeliveryInv, AbsentNowhere
<1> HIDE DEF j
<1>6. OneHandler'
  BY <1>1, <1>2 DEF SerialInv, DeliveryInv, OneHandler
<1>7. HandledOnce'
  BY <1>1, <1>2, <1>3, <1>4 DEF SerialInv, DeliveryInv, HandledOnce
<1>8. DelayedAlone'
  BY <1>3, <1>4 DEF SerialInv, DeliveryInv, DelayedAlone
<1>9. OneEntry'
  BY <1>3 DEF SerialInv, DeliveryInv, OneEntry
<1>10. AbsentNowhere'
  BY <1>1, <1>2, <1>3, <1>5 DEF SerialInv, DeliveryInv, AbsentNowhere
<1> QED
  BY <1>6, <1>7, <1>8, <1>9, <1>10 DEF DeliveryInv

\* A new entry of a job that is nowhere else (enqueue), or only delayed (the
\* mover).
LEMMA DeliveryAdd ==
    ASSUME SerialInv, NEW j \in Jobs, NEW n \in Copies,
           \A e \in queue \cup pel : e[1] # j,
           \A h \in Handlers : Active(h) => JobOf(h) # j,
           queue' = queue \cup {<<j, n>>}, pel' = pel, delayed' = delayed \ {j},
           live'[j] # "absent", \A k \in Jobs : k # j => live'[k] = live[k],
           UNCHANGED <<pc, entry>>
    PROVE  DeliveryInv'
<1> USE DEF JobOf, Active, SerialInv, DeliveryInv
<1>1. OneHandler'
  BY DEF OneHandler
<1>2. HandledOnce'
  BY DEF HandledOnce
<1>3. DelayedAlone'
  BY DEF DelayedAlone
<1>4. OneEntry'
  BY DEF OneEntry
<1>5. AbsentNowhere'
  BY DEF AbsentNowhere
<1> QED
  BY <1>1, <1>2, <1>3, <1>4, <1>5

\* Every step preserves DeliveryInv.  Only a claim, a reclaim, a defer, an
\* enqueue and a move deliver; without stalls a reclaim takes an entry nobody
\* works on.
LEMMA DeliveryStep ==
    ASSUME MaxStalls = 0, SerialInv, Next
    PROVE  DeliveryInv'
<1> USE DEF SerialInv
<1>1. ASSUME NEW j \in Jobs, Enqueue(j) PROVE DeliveryInv'
  <2>1. /\ 1 \in Copies /\ live[j] = "absent" /\ live'[j] = "queued"
        /\ \A k \in Jobs : k # j => live'[k] = live[k]
    BY <1>1, QueueAssumption DEF Enqueue, TypeOK, Copies
  <2>2. /\ \A e \in queue \cup pel : e[1] # j
        /\ \A h \in Handlers : Active(h) => JobOf(h) # j
        /\ delayed = delayed \ {j}
    BY <2>1 DEF DeliveryInv, AbsentNowhere
  <2> QED
    BY <1>1, <2>1, <2>2, DeliveryAdd DEF Enqueue, handlerVars
<1>2. ASSUME NEW h \in Handlers, NEW e \in queue, Claim(h, e) PROVE DeliveryInv'
  BY <1>2, DeliveryHandle DEF Claim, TypeOK
<1>3. ASSUME NEW e \in queue, ClaimLost(e) PROVE DeliveryInv'
  <2>1. /\ queue' \cup pel' = queue \cup pel /\ queue' \subseteq queue /\ pel' = pel \cup {e}
        /\ UNCHANGED <<delayed, live, pc, entry>>
    BY <1>3 DEF ClaimLost, handlerVars
  <2>2. e \notin queue'
    BY <1>3 DEF ClaimLost
  <2> QED
    BY <2>1, <2>2 DEF DeliveryInv, OneHandler, HandledOnce, DelayedAlone, OneEntry,
                      AbsentNowhere, Active, JobOf
<1>4. ASSUME NEW h \in Handlers, NEW e \in pel, Reclaim(h, e) PROVE DeliveryInv'
  <2>1. \A g \in Handlers : entry[g] # e
    BY <1>4 DEF Reclaim, TypeOK
  <2> QED
    BY <1>4, <2>1, DeliveryHandle DEF Reclaim, redisVars, TypeOK
<1>5. ASSUME NEW h \in Handlers, Defer(h) PROVE DeliveryInv'
  BY <1>5, DeliveryDefer DEF Defer, Active
<1>6. ASSUME NEW h \in Handlers, FaultApplied(h), pc[h] = "defer" PROVE DeliveryInv'
  BY <1>6, DeliveryDefer DEF FaultApplied, Active
<1>7. ASSUME NEW j \in Jobs, NEW n \in Copies, MoveDue(j, n) PROVE DeliveryInv'
  <2>1. /\ \A e \in queue \cup pel : e[1] # j
        /\ \A h \in Handlers : Active(h) => JobOf(h) # j
        /\ live[j] # "absent"
    BY <1>7 DEF MoveDue, DeliveryInv, DelayedAlone, HandledOnce, AbsentNowhere
  <2> QED
    BY <1>7, <2>1, DeliveryAdd DEF MoveDue, handlerVars
<1>8. ASSUME NEW h \in Handlers, HandlerStep(h) \/ Heartbeat(h), ~Defer(h) PROVE DeliveryInv'
  <2>1. \A g \in Handlers : Active(g)' => Active(g) /\ entry'[g] = entry[g]
    BY <1>8 DEF HandlerStep, Heartbeat, Guard, Count, Lock, LockBusy, Uncount, Start,
         MarkRunning, RunEnds, RunConfigRead, RunCancelled, Retry, AfterRetry, Requeue,
         Fence, Record, Publish, Release, Ack, Goto, Return, Finish, Active, TypeOK
  <2>2. queue' = queue /\ pel' \subseteq pel /\ delayed' = delayed
    BY <1>8 DEF HandlerStep, Heartbeat, Guard, Count, Lock, LockBusy, Uncount, Start,
         MarkRunning, RunEnds, RunConfigRead, RunCancelled, Retry, Requeue, Fence,
         Record, Publish, Release, Ack, redisVars
  <2>3. \A j \in Jobs : live'[j] = "absent" => live[j] = "absent"
    BY <1>8 DEF HandlerStep, Heartbeat, Guard, Count, Lock, LockBusy, Uncount, Start,
         MarkRunning, RunEnds, RunConfigRead, RunCancelled, Retry, Requeue, Fence,
         Record, Publish, PublishEffect, Release, Ack, redisVars, TypeOK
  <2> QED
    BY <2>1, <2>2, <2>3, DeliveryShrinks
<1>9. ASSUME NEW h \in Handlers,
             \/ FaultReturn(h) \/ FaultSkip(h) \/ FaultCount(h) \/ Crash(h)
             \/ FaultApplied(h) /\ pc[h] # "defer"
      PROVE  DeliveryInv'
  <2>1. \A g \in Handlers : Active(g)' => Active(g) /\ entry'[g] = entry[g]
    BY <1>9 DEF FaultReturn, FaultSkip, FaultCount, Crash, FaultApplied, AfterRetry, Goto,
         Return, Finish, Active, TypeOK
  <2>2. queue' = queue /\ pel' = pel /\ delayed' = delayed
    BY <1>9 DEF FaultReturn, FaultSkip, FaultCount, Crash, FaultApplied, redisVars
  <2>3. \A j \in Jobs : live'[j] = "absent" => live[j] = "absent"
    BY <1>9 DEF FaultReturn, FaultSkip, FaultCount, Crash, FaultApplied, PublishEffect,
         redisVars, TypeOK
  <2> QED
    BY <2>1, <2>2, <2>3, DeliveryShrinks
<1>10. ASSUME \/ \E e \in pel : ReclaimGone(e)
              \/ \E p \in Pipelines : LockExpire(p)
              \/ \E j \in Jobs : \/ Trim(j) \/ SweepScan(j) \/ SweepRead(j)
                                 \/ SweepMark(j) \/ SweepFault(j)
       PROVE  DeliveryInv'
  <2>1. /\ queue' \subseteq queue /\ pel' \subseteq pel
        /\ UNCHANGED <<delayed, pc, entry>>
    BY <1>10 DEF ReclaimGone, LockExpire, Trim, SweepScan, SweepRead, SweepMark, SweepFault,
         redisVars, handlerVars
  <2>2. \A j \in Jobs : live'[j] = "absent" => live[j] = "absent"
    BY <1>10 DEF ReclaimGone, LockExpire, Trim, SweepScan, SweepRead, SweepMark, SweepFault,
         redisVars, TypeOK
  <2> QED
    BY <2>1, <2>2, DeliveryShrinks DEF Active
<1> QED
  BY <1>1, <1>2, <1>3, <1>4, <1>5, <1>6, <1>7, <1>8, <1>9, <1>10 DEF Next

Holding == {"start", "row", "run", "retry"}

\* A step that leaves the locks alone and starts no holder.
LEMMA HolderQuiet ==
    ASSUME HolderHasLock, lock' = lock,
           \A h \in Handlers : pc'[h] \in Holding =>
               pc[h] \in Holding /\ entry'[h] = entry[h] /\ att'[h] = att[h]
    PROVE  HolderHasLock'
  BY DEF HolderHasLock, Holding, PipeOf, FenceOf, JobOf

\* A handler that releases under its own fence disturbs no other holder: the
\* other one works on another job, so its fence differs.
LEMMA HolderRelease ==
    ASSUME SerialInv, NEW g \in Handlers, Active(g), lock' = ReleaseLock(g),
           pc'[g] \notin Holding,
           \A h \in Handlers : h # g =>
               pc'[h] = pc[h] /\ entry'[h] = entry[h] /\ att'[h] = att[h]
    PROVE  HolderHasLock'
<1> SUFFICES ASSUME NEW h \in Handlers, pc'[h] \in Holding
             PROVE  lock'[PipeOf(h)'] = FenceOf(h)'
  BY DEF HolderHasLock, Holding
<1>1. h # g /\ pc[h] \in Holding
  OBVIOUS
<1>2. PipeOf(h)' = PipeOf(h) /\ FenceOf(h)' = FenceOf(h)
  BY <1>1 DEF PipeOf, FenceOf, JobOf
<1>3. lock[PipeOf(h)] = FenceOf(h) /\ Active(h)
  BY <1>1 DEF SerialInv, HolderHasLock, Holding, Active
<1>4. FenceOf(g) # FenceOf(h)
  BY <1>1, <1>3 DEF SerialInv, DeliveryInv, OneHandler, FenceOf
<1>5. PipeOf(h) \in Pipelines /\ PipeOf(g) \in Pipelines
  BY <1>3, ActiveEntry DEF SerialInv
<1> QED
  BY <1>2, <1>3, <1>4, <1>5 DEF ReleaseLock, SerialInv, TypeOK

\* Every step preserves HolderHasLock.  Without stalls a lock only expires
\* once the handler that took it is gone.
LEMMA HolderStep ==
    ASSUME MaxStalls = 0, SerialInv, Next
    PROVE  HolderHasLock'
<1> USE DEF SerialInv
<1>1. ASSUME NEW h \in Handlers, Lock(h) PROVE HolderHasLock'
  <2>1. /\ PipeOf(h) \in Pipelines /\ lock[PipeOf(h)] = Free
        /\ lock' = [lock EXCEPT ![PipeOf(h)] = FenceOf(h)]
    BY <1>1, ActiveEntry DEF Lock, Vacant, Active
  <2>2. PipeOf(h)' = PipeOf(h) /\ FenceOf(h)' = FenceOf(h)
    BY <1>1 DEF Lock, Goto, PipeOf, FenceOf, JobOf
  <2>3. ASSUME NEW g \in Handlers, g # h, pc'[g] \in Holding
        PROVE  lock'[PipeOf(g)'] = FenceOf(g)'
    <3>1. pc[g] \in Holding /\ PipeOf(g)' = PipeOf(g) /\ FenceOf(g)' = FenceOf(g)
      BY <1>1, <2>3 DEF Lock, Goto, PipeOf, FenceOf, JobOf, TypeOK
    <3>2. lock[PipeOf(g)] = FenceOf(g) /\ FenceOf(g) # Free /\ PipeOf(g) \in Pipelines
      BY <3>1, ActiveEntry DEF HolderHasLock, Holding, Active
    <3> QED
      BY <2>1, <3>1, <3>2 DEF TypeOK
  <2> QED
    BY <2>1, <2>2, <2>3 DEF HolderHasLock, Holding, TypeOK
<1>2. ASSUME NEW h \in Handlers, Retry(h) PROVE HolderHasLock'
  BY <1>2, HolderRelease DEF Retry, AfterRetry, Finish, Goto, Holding, Active, TypeOK
<1>3. ASSUME NEW h \in Handlers, Release(h) PROVE HolderHasLock'
  BY <1>3, HolderRelease DEF Release, Goto, Holding, Active, TypeOK
<1>4. ASSUME NEW h \in Handlers, FaultApplied(h) PROVE HolderHasLock'
  <2>1. /\ \A g \in Handlers : g # h => /\ pc'[g] = pc[g] /\ entry'[g] = entry[g]
                                        /\ att'[g] = att[g]
        /\ pc'[h] \notin Holding
    BY <1>4 DEF FaultApplied, Return, Holding, TypeOK
  <2>2. CASE pc[h] = "release"
    BY <1>4, <2>1, <2>2, HolderRelease DEF FaultApplied, Active
  <2>3. CASE pc[h] \in {"publish", "defer"}
    BY <1>4, <2>1, <2>3, HolderQuiet DEF FaultApplied
  <2>4. CASE pc[h] = "lock"
    <3>1. /\ PipeOf(h) \in Pipelines /\ lock[PipeOf(h)] = Free
          /\ lock' = [lock EXCEPT ![PipeOf(h)] = FenceOf(h)]
      BY <1>4, <2>4, ActiveEntry DEF FaultApplied, Vacant, Active
    <3>2. ASSUME NEW g \in Handlers, pc'[g] \in Holding
          PROVE  lock'[PipeOf(g)'] = FenceOf(g)'
      <4>1. pc[g] \in Holding /\ PipeOf(g)' = PipeOf(g) /\ FenceOf(g)' = FenceOf(g)
        BY <2>1, <3>2 DEF PipeOf, FenceOf, JobOf
      <4>2. lock[PipeOf(g)] = FenceOf(g) /\ FenceOf(g) # Free /\ PipeOf(g) \in Pipelines
        BY <4>1, ActiveEntry DEF HolderHasLock, Holding, Active
      <4> QED
        BY <3>1, <4>1, <4>2 DEF TypeOK
    <3> QED
      BY <3>2 DEF HolderHasLock, Holding
  <2> QED
    BY <1>4, <2>2, <2>3, <2>4 DEF FaultApplied
<1>5. ASSUME NEW p \in Pipelines, LockExpire(p) PROVE HolderHasLock'
  <2>1. /\ ~\E h \in Handlers : Owning(h) /\ FenceOf(h) = lock[p]
        /\ lock' = [lock EXCEPT ![p] = Free]
        /\ UNCHANGED <<pc, entry, att>>
    BY <1>5 DEF LockExpire, handlerVars, TypeOK
  <2>2. ASSUME NEW h \in Handlers, pc[h] \in Holding PROVE lock'[PipeOf(h)] = FenceOf(h)
    <3>1. lock[PipeOf(h)] = FenceOf(h) /\ Owning(h)
      BY <2>2 DEF HolderHasLock, Holding, Owning
    <3>2. PipeOf(h) # p
      BY <2>1, <3>1
    <3> QED
      BY <2>1, <3>1, <3>2 DEF TypeOK
  <2> QED
    BY <2>1, <2>2 DEF HolderHasLock, Holding, PipeOf, FenceOf, JobOf
<1>6. ASSUME NEW h \in Handlers, HandlerStep(h) \/ Heartbeat(h),
             ~Lock(h), ~Retry(h), ~Release(h)
      PROVE  HolderHasLock'
  <2>1. lock' = lock
    BY <1>6 DEF HandlerStep, Heartbeat, Guard, Count, LockBusy, Uncount, Defer, Start,
         MarkRunning, RunEnds, RunConfigRead, RunCancelled, Requeue, Fence, Record,
         Publish, Ack, redisVars
  <2>2. \A g \in Handlers : pc'[g] \in Holding =>
            pc[g] \in Holding /\ entry'[g] = entry[g] /\ att'[g] = att[g]
    BY <1>6 DEF HandlerStep, Heartbeat, Guard, Count, LockBusy, Uncount, Defer, Start,
         MarkRunning, RunEnds, RunConfigRead, RunCancelled, Requeue, Fence, Record,
         Publish, Ack, Goto, Return, Finish, Holding, TypeOK
  <2> QED
    BY <2>1, <2>2, HolderQuiet
<1>7. ASSUME NEW h \in Handlers,
             FaultReturn(h) \/ FaultSkip(h) \/ FaultCount(h) \/ Crash(h)
      PROVE  HolderHasLock'
  <2>1. lock' = lock
    BY <1>7 DEF FaultReturn, FaultSkip, FaultCount, Crash, redisVars
  <2>2. \A g \in Handlers : pc'[g] \in Holding =>
            pc[g] \in Holding /\ entry'[g] = entry[g] /\ att'[g] = att[g]
    BY <1>7 DEF FaultReturn, FaultSkip, FaultCount, Crash, AfterRetry, Goto, Return,
         Finish, Holding, TypeOK
  <2> QED
    BY <2>1, <2>2, HolderQuiet
<1>8. ASSUME \/ \E h \in Handlers, e \in queue : Claim(h, e)
             \/ \E h \in Handlers, e \in pel : Reclaim(h, e)
      PROVE  HolderHasLock'
  <2>1. lock' = lock
    BY <1>8 DEF Claim, Reclaim, redisVars
  <2>2. \A g \in Handlers : pc'[g] \in Holding =>
            pc[g] \in Holding /\ entry'[g] = entry[g] /\ att'[g] = att[g]
    BY <1>8 DEF Claim, Reclaim, Handle, Holding, TypeOK
  <2> QED
    BY <2>1, <2>2, HolderQuiet
<1>9. ASSUME \/ \E j \in Jobs : Enqueue(j)
             \/ \E e \in queue : ClaimLost(e)
             \/ \E e \in pel : ReclaimGone(e)
             \/ \E j \in Jobs, n \in Copies : MoveDue(j, n)
             \/ \E j \in Jobs : \/ Trim(j) \/ SweepScan(j) \/ SweepRead(j)
                                \/ SweepMark(j) \/ SweepFault(j)
      PROVE  HolderHasLock'
  <2>1. UNCHANGED <<lock, pc, entry, att>>
    BY <1>9 DEF Enqueue, ClaimLost, ReclaimGone, MoveDue, Trim, SweepScan, SweepRead,
         SweepMark, SweepFault, redisVars, handlerVars
  <2> QED
    BY <2>1, HolderQuiet
<1> QED
  BY <1>1, <1>2, <1>3, <1>4, <1>5, <1>6, <1>7, <1>8, <1>9 DEF Next

\* Without stalls every step keeps the invariant.
LEMMA SerialStep ==
    ASSUME MaxStalls = 0
    PROVE  SerialInv /\ [Next]_vars => SerialInv'
<1> SUFFICES ASSUME SerialInv, [Next]_vars PROVE SerialInv'
  OBVIOUS
<1>1. TypeOK'
  BY TypeStep DEF SerialInv
<1>2. CASE UNCHANGED vars
  BY <1>1, <1>2 DEF vars, SerialInv, DeliveryInv, OneHandler, HandledOnce, DelayedAlone,
                    OneEntry, AbsentNowhere, HolderHasLock, Active, JobOf, PipeOf, FenceOf
<1>3. CASE Next
  BY <1>1, <1>3, DeliveryStep, HolderStep DEF SerialInv
<1> QED
  BY <1>2, <1>3

\* "a per-pipeline lock serializes runs": as long as no live worker is
\* overtaken by the lock TTL or the reclaimer, no two handlers ever execute
\* jobs of one pipeline, whatever crashes, command failures and trims occur.
THEOREM Serialized ==
    ASSUME MaxStalls = 0
    PROVE  Spec => []RunsSerialized
  BY SerialInit, SerialStep, SerialImplies, PTL DEF Spec

-----------------------------------------------------------------------------
(* What a handler's step leaves alone, whatever step it is: the proofs below *)
(* cite this frame for everything their property does not depend on.        *)

\* A step of one handler: its own commands, failed ones and its crash.
StepOf(h) == \/ HandlerStep(h) \/ Heartbeat(h) \/ FaultReturn(h) \/ FaultApplied(h)
             \/ FaultSkip(h) \/ FaultCount(h) \/ Crash(h)

\* The handler that steps is active and keeps its entry until it returns; the
\* other handlers are not touched.
LEMMA StepLocals ==
    ASSUME TypeOK, NEW h \in Handlers, StepOf(h)
    PROVE  /\ Active(h)
           /\ pc'[h] # "idle" => entry'[h] = entry[h]
           /\ \A g \in Handlers : g # h => /\ pc'[g] = pc[g] /\ entry'[g] = entry[g]
                                           /\ att'[g] = att[g] /\ verdict'[g] = verdict[g]
<1> USE DEF TypeOK, Active, Goto, Return, Finish
<1>1. CASE HandlerStep(h) \/ Heartbeat(h)
  BY <1>1 DEF HandlerStep, Guard, Count, Lock, LockBusy, Uncount, Defer, Start, MarkRunning,
     RunEnds, RunConfigRead, RunCancelled, Retry, AfterRetry, Requeue, Fence, Record,
     Publish, Release, Ack, Heartbeat
<1>2. CASE FaultReturn(h) \/ FaultApplied(h) \/ FaultSkip(h) \/ FaultCount(h) \/ Crash(h)
  BY <1>2 DEF FaultReturn, FaultApplied, FaultSkip, FaultCount, Crash, AfterRetry
<1> QED
  BY <1>1, <1>2 DEF StepOf

\* It undelivers and trims nothing, and drops no entry but its own.
LEMMA StepPlaces ==
    ASSUME TypeOK, NEW h \in Handlers, StepOf(h)
    PROVE  /\ queue' = queue /\ gone' = gone /\ sweep' = sweep
           /\ pel' = pel \/ pel' = pel \ {entry[h]}
           /\ delayed' = delayed \/ delayed' = delayed \cup {JobOf(h)}
<1> USE DEF redisVars
<1>1. CASE HandlerStep(h) \/ Heartbeat(h)
  BY <1>1 DEF HandlerStep, Guard, Count, Lock, LockBusy, Uncount, Defer, DeferEffect, Start,
     MarkRunning, RunEnds, RunConfigRead, RunCancelled, Retry, Requeue, Fence, Record,
     Publish, Release, Ack, Heartbeat
<1>2. CASE FaultReturn(h) \/ FaultApplied(h) \/ FaultSkip(h) \/ FaultCount(h) \/ Crash(h)
  BY <1>2 DEF FaultReturn, FaultApplied, DeferEffect, FaultSkip, FaultCount, Crash
<1> QED
  BY <1>1, <1>2 DEF StepOf

\* It writes the status and the row of its own job only; no status goes back
\* to absent, no row to none, and a result stays published.
LEMMA StepRecords ==
    ASSUME TypeOK, NEW h \in Handlers, StepOf(h)
    PROVE  /\ \A j \in Jobs : j # JobOf(h) => live'[j] = live[j] /\ row'[j] = row[j]
           /\ \A j \in Jobs : live'[j] = "absent" => live[j] = "absent"
           /\ \A j \in Jobs : row'[j] = "none" <=> row[j] = "none"
           /\ finished \subseteq finished'
           /\ \A j \in Jobs : j # JobOf(h) => (j \in missed' <=> j \in missed)
<1> USE DEF TypeOK, redisVars, ghosts
<1>1. CASE HandlerStep(h) \/ Heartbeat(h)
  BY <1>1 DEF HandlerStep, Guard, Count, Lock, LockBusy, Uncount, Defer, Start,
     MarkRunning, RunEnds, RunConfigRead, RunCancelled, Retry, Requeue, Fence, Record,
     Publish, PublishEffect, Release, Ack, Heartbeat, UpdateRow
<1>2. CASE FaultReturn(h) \/ FaultApplied(h) \/ FaultSkip(h) \/ FaultCount(h) \/ Crash(h)
  BY <1>2 DEF FaultReturn, FaultApplied, PublishEffect, FaultSkip, FaultCount, Crash
<1> QED
  BY <1>1, <1>2 DEF StepOf

\* Every step is one of a handler, a delivery, or one of the other loops.
LEMMA NextCases ==
    Next <=> \/ \E h \in Handlers : StepOf(h)
             \/ \E j \in Jobs : Enqueue(j)
             \/ \E h \in Handlers, e \in queue : Claim(h, e)
             \/ \E e \in queue : ClaimLost(e)
             \/ \E h \in Handlers, e \in pel : Reclaim(h, e)
             \/ \E e \in pel : ReclaimGone(e)
             \/ \E p \in Pipelines : LockExpire(p)
             \/ \E j \in Jobs, n \in Copies : MoveDue(j, n)
             \/ \E j \in Jobs : \/ Trim(j) \/ SweepScan(j) \/ SweepRead(j)
                                \/ SweepMark(j) \/ SweepFault(j)
  BY DEF Next, StepOf

\* A job that was never submitted is nowhere, also when live workers are
\* overtaken: deliveries, deferrals and moves only pass jobs on.
LEMMA AbsentStep ==
    ASSUME TypeOK, AbsentNowhere, Next
    PROVE  AbsentNowhere'
<1> SUFFICES ASSUME NEW j \in Jobs, live'[j] = "absent"
             PROVE  /\ j \notin delayed'
                    /\ \A e \in queue' \cup pel' : e[1] # j
                    /\ \A h \in Handlers : Active(h)' => JobOf(h)' # j
  BY DEF AbsentNowhere
<1> USE DEF Active, JobOf
<1>1. ASSUME NEW h \in Handlers, StepOf(h) 
      PROVE  /\ j \notin delayed'
             /\ \A e \in queue' \cup pel' : e[1] # j
             /\ \A g \in Handlers : Active(g)' => JobOf(g)' # j
  <2>1. live[j] = "absent"
    BY <1>1, StepRecords
  <2>2. JobOf(h) # j
    BY <1>1, <2>1, StepLocals DEF AbsentNowhere
  <2>3. j \notin delayed' /\ \A e \in queue' \cup pel' : e[1] # j
    BY <1>1, <2>1, <2>2, StepPlaces DEF AbsentNowhere
  <2> QED
    BY <1>1, <2>1, <2>2, <2>3, StepLocals DEF AbsentNowhere
<1>2. ASSUME NEW k \in Jobs, Enqueue(k)
      PROVE  /\ j \notin delayed'
             /\ \A e \in queue' \cup pel' : e[1] # j
             /\ \A g \in Handlers : Active(g)' => JobOf(g)' # j
  <2>1. j # k /\ live[j] = "absent"
    BY <1>2 DEF Enqueue, TypeOK
  <2> QED
    BY <1>2, <2>1 DEF Enqueue, handlerVars, AbsentNowhere
<1>3. ASSUME NEW h \in Handlers, NEW e \in queue \cup pel, Claim(h, e) \/ Reclaim(h, e)
      PROVE  /\ j \notin delayed'
             /\ \A f \in queue' \cup pel' : f[1] # j
             /\ \A g \in Handlers : Active(g)' => JobOf(g)' # j
  <2>1. /\ live' = live /\ delayed' = delayed /\ queue' \cup pel' \subseteq queue \cup pel
        /\ \A g \in Handlers : g # h => pc'[g] = pc[g] /\ entry'[g] = entry[g]
        /\ entry'[h] = e
    BY <1>3 DEF Claim, Reclaim, Handle, redisVars, TypeOK
  <2> QED
    BY <2>1 DEF AbsentNowhere
<1>4. ASSUME NEW k \in Jobs, NEW n \in Copies, MoveDue(k, n)
      PROVE  /\ j \notin delayed'
             /\ \A f \in queue' \cup pel' : f[1] # j
             /\ \A g \in Handlers : Active(g)' => JobOf(g)' # j
  BY <1>4 DEF MoveDue, handlerVars, AbsentNowhere
<1>5. ASSUME \/ \E e \in queue : ClaimLost(e)
             \/ \E e \in pel : ReclaimGone(e)
             \/ \E p \in Pipelines : LockExpire(p)
             \/ \E k \in Jobs : \/ Trim(k) \/ SweepScan(k) \/ SweepRead(k)
                                \/ SweepMark(k) \/ SweepFault(k)
      PROVE  /\ j \notin delayed'
             /\ \A f \in queue' \cup pel' : f[1] # j
             /\ \A g \in Handlers : Active(g)' => JobOf(g)' # j
  <2>1. /\ live[j] = "absent" /\ delayed' = delayed /\ queue' \cup pel' \subseteq queue \cup pel
        /\ UNCHANGED <<pc, entry>>
    BY <1>5 DEF ClaimLost, ReclaimGone, LockExpire, Trim, SweepScan, SweepRead, SweepMark,
       SweepFault, redisVars, handlerVars, TypeOK
  <2> QED
    BY <2>1 DEF AbsentNowhere
<1> QED
  BY <1>1, <1>2, <1>3, <1>4, <1>5, NextCases

-----------------------------------------------------------------------------
(* Executions.  An attempt is counted before it takes the lock and given    *)
(* back when the lock is busy, so the counter alone does not bound the      *)
(* executions: BoundInv also counts the handlers in between.                *)

\* The handlers that have counted an attempt of the job and neither started
\* it nor given it back, and those of them that may still start it.
Waiting(j) == {h \in Handlers : pc[h] \in {"lock", "uncount"} /\ JobOf(h) = j}
Locking(j) == {h \in Handlers : pc[h] = "lock" /\ JobOf(h) = j}

\* Every execution and every waiting handler is counted, and what could still
\* start keeps to the limit.
BoundInv ==
    \A j \in Jobs : /\ attempts[j] >= runs[j] + Cardinality(Waiting(j))
                    /\ runs[j] + Cardinality(Locking(j)) <= MaxAttempts

\* Both sets are finite, now and after a step.
LEMMA WaitingFinite ==
    ASSUME NEW j \in Jobs
    PROVE  /\ IsFiniteSet(Waiting(j)) /\ Cardinality(Waiting(j)) \in Nat
           /\ IsFiniteSet(Waiting(j)') /\ Cardinality(Waiting(j)') \in Nat
           /\ IsFiniteSet(Locking(j)) /\ Cardinality(Locking(j)) \in Nat
           /\ IsFiniteSet(Locking(j)') /\ Cardinality(Locking(j)') \in Nat
           /\ Cardinality(Locking(j)) <= Cardinality(Waiting(j))
           /\ Cardinality(Waiting(j)') <= Cardinality(Handlers)
           /\ Cardinality(Handlers) \in Nat
<1>1. /\ Locking(j) \subseteq Waiting(j) /\ Waiting(j) \subseteq Handlers
      /\ Locking(j)' \subseteq Waiting(j)' /\ Waiting(j)' \subseteq Handlers
  BY DEF Waiting, Locking
<1>2. IsFiniteSet(Handlers)
  BY QueueAssumption
<1>3. IsFiniteSet(Waiting(j)) /\ IsFiniteSet(Waiting(j)')
      /\ Cardinality(Waiting(j)') <= Cardinality(Handlers)
  BY <1>1, <1>2, FS_Subset
<1>4. IsFiniteSet(Locking(j)) /\ IsFiniteSet(Locking(j)')
      /\ Cardinality(Locking(j)) <= Cardinality(Waiting(j))
  BY <1>1, <1>3, FS_Subset
<1> QED
  BY <1>2, <1>3, <1>4, FS_CardinalityType

\* The bound on executions follows.
LEMMA BoundImplies == TypeOK /\ BoundInv => RunsBounded
<1> SUFFICES ASSUME TypeOK, BoundInv, NEW j \in Jobs PROVE runs[j] <= MaxAttempts
  BY DEF RunsBounded
<1>1. runs[j] + Cardinality(Locking(j)) <= MaxAttempts /\ runs[j] \in Nat
  BY DEF BoundInv, TypeOK
<1> QED
  BY <1>1, WaitingFinite, QueueAssumption

\* Nothing is counted and nobody waits.
LEMMA BoundInit == Init => BoundInv
<1> SUFFICES ASSUME Init, NEW j \in Jobs
             PROVE  /\ attempts[j] >= runs[j] + Cardinality(Waiting(j))
                    /\ runs[j] + Cardinality(Locking(j)) <= MaxAttempts
  BY DEF BoundInv
<1>1. Waiting(j) = {} /\ Locking(j) = {}
  BY DEF Init, Waiting, Locking
<1> QED
  BY <1>1, FS_EmptySet, QueueAssumption DEF Init

\* A step after which the counters are the same and nobody new waits.
LEMMA BoundQuiet ==
    ASSUME TypeOK, BoundInv, attempts' = attempts, runs' = runs,
           \A h \in Handlers : pc'[h] \in {"lock", "uncount"} =>
               /\ pc[h] \in {"lock", "uncount"} /\ entry'[h] = entry[h]
               /\ pc'[h] = "lock" => pc[h] = "lock"
    PROVE  BoundInv'
<1> SUFFICES ASSUME NEW j \in Jobs
             PROVE  /\ attempts[j] >= runs[j] + Cardinality(Waiting(j)')
                    /\ runs[j] + Cardinality(Locking(j)') <= MaxAttempts
  BY DEF BoundInv
<1>1. Waiting(j)' \subseteq Waiting(j) /\ Locking(j)' \subseteq Locking(j)
  BY DEF Waiting, Locking, JobOf
<1>2. /\ Cardinality(Waiting(j)') <= Cardinality(Waiting(j))
      /\ Cardinality(Locking(j)') <= Cardinality(Locking(j))
  BY <1>1, WaitingFinite, FS_Subset
<1>3. /\ attempts[j] \in Int /\ runs[j] \in Nat /\ MaxAttempts \in Nat
      /\ attempts[j] >= runs[j] + Cardinality(Waiting(j))
      /\ runs[j] + Cardinality(Locking(j)) <= MaxAttempts
  BY QueueAssumption DEF TypeOK, BoundInv
<1> QED
  BY <1>2, <1>3, WaitingFinite

\* What the count of the attempt, the lock and the give-back do to the sets
\* of a job: at most this handler joins or leaves.
LEMMA WaitingMoves ==
    ASSUME TypeOK, NEW h \in Handlers, NEW j \in Jobs, entry' = entry,
           \A g \in Handlers : g # h => pc'[g] = pc[g]
    PROVE  /\ j # JobOf(h) => Waiting(j)' = Waiting(j) /\ Locking(j)' = Locking(j)
           /\ j = JobOf(h) =>
                /\ pc'[h] \in {"lock", "uncount"} => Waiting(j)' = Waiting(j) \cup {h}
                /\ pc'[h] \notin {"lock", "uncount"} => Waiting(j)' = Waiting(j) \ {h}
                /\ pc'[h] = "lock" => Locking(j)' = Locking(j) \cup {h}
                /\ pc'[h] # "lock" => Locking(j)' = Locking(j) \ {h}
  BY DEF Waiting, Locking, JobOf

\* HINCRBY 1: the handler that may lock is one more, and so is the counter.
LEMMA BoundCount ==
    ASSUME TypeOK, BoundInv, NEW h \in Handlers, Count(h)
    PROVE  BoundInv'
<1>1. Active(h) /\ JobOf(h) \in Jobs
  BY ActiveEntry DEF Count, Active
<1> PICK j \in Jobs : j = JobOf(h)
  BY <1>1
<1> DEFINE n == Capped(attempts[j] + 1)
<1>2. /\ pc[h] = "count" /\ entry' = entry
        /\ pc'[h] = (IF GivesUp(n) THEN "fence" ELSE "lock")
        /\ \A g \in Handlers : g # h => pc'[g] = pc[g]
      /\ attempts' = [attempts EXCEPT ![j] = n] /\ runs' = runs
  BY DEF Count, ghosts, TypeOK
<1>3. /\ attempts[j] \in Int /\ runs[j] \in Nat /\ MaxAttempts \in Nat
      /\ attempts[j] >= runs[j] + Cardinality(Waiting(j))
      /\ runs[j] + Cardinality(Locking(j)) <= MaxAttempts
  BY <1>1, QueueAssumption DEF TypeOK, BoundInv
<1>4. h \notin Waiting(j) /\ h \notin Locking(j)
  BY <1>2 DEF Waiting, Locking
<1>5. /\ n \in Int /\ n >= runs[j] + Cardinality(Waiting(j))
      /\ n <= MaxAttempts => n = attempts[j] + 1
  <2>1. attempts[j] + 1 > AttemptCap => n = AttemptCap
    BY DEF Capped
  <2>2. ~(attempts[j] + 1 > AttemptCap) => n = attempts[j] + 1
    BY DEF Capped
  <2>3. /\ AttemptCap \in Nat /\ AttemptCap > MaxAttempts
        /\ AttemptCap >= runs[j] + Cardinality(Waiting(j))
    <3>1. Cardinality(Waiting(j)) <= Cardinality(Handlers)
      BY QueueAssumption, FS_Subset DEF Waiting
    <3> QED
      BY <1>1, <1>3, <3>1, WaitingFinite DEF AttemptCap
  <2> QED
    BY <1>1, <1>3, <2>1, <2>2, <2>3, WaitingFinite
<1> HIDE DEF n
<1>6. ASSUME NEW k \in Jobs
      PROVE  /\ attempts'[k] >= runs'[k] + Cardinality(Waiting(k)')
             /\ runs'[k] + Cardinality(Locking(k)') <= MaxAttempts
  <2>1. CASE k # j
    <3>1. Waiting(k)' = Waiting(k) /\ Locking(k)' = Locking(k)
      BY <1>1, <1>2, <2>1, WaitingMoves
    <3> QED
      BY <1>2, <2>1, <3>1 DEF BoundInv, TypeOK
  <2>2. CASE k = j /\ GivesUp(n)
    <3>1. Waiting(j)' = Waiting(j) /\ Locking(j)' = Locking(j)
      BY <1>1, <1>2, <1>4, <2>2, WaitingMoves
    <3> QED
      BY <1>1, <1>2, <1>3, <1>5, <2>2, <3>1 DEF TypeOK
  <2>3. CASE k = j /\ ~GivesUp(n)
    <3>1. Waiting(j)' = Waiting(j) \cup {h} /\ Locking(j)' = Locking(j) \cup {h}
      BY <1>1, <1>2, <2>3, WaitingMoves
    <3>2. /\ Cardinality(Waiting(j)') = Cardinality(Waiting(j)) + 1
          /\ Cardinality(Locking(j)') = Cardinality(Locking(j)) + 1
      BY <1>1, <1>4, <3>1, WaitingFinite, FS_AddElement
    <3>3. n <= MaxAttempts
      BY <1>3, <1>5, <2>3 DEF GivesUp
    <3> QED
      BY <1>1, <1>2, <1>3, <1>5, <2>3, <3>2, <3>3, WaitingFinite DEF TypeOK
  <2> QED
    BY <2>1, <2>2, <2>3
<1> QED
  BY <1>6 DEF BoundInv

\* SET NX: the handler that was counted and waited is now an execution.
LEMMA BoundLock ==
    ASSUME TypeOK, BoundInv, NEW h \in Handlers, Lock(h)
    PROVE  BoundInv'
<1>0. Active(h) /\ JobOf(h) \in Jobs
  BY ActiveEntry DEF Lock, Active
<1> PICK j \in Jobs : j = JobOf(h)
  BY <1>0
<1>1. Active(h) /\ h \in Waiting(j) /\ h \in Locking(j)
  BY <1>0 DEF Lock, Waiting, Locking
<1>2. /\ pc'[h] = "start" /\ entry' = entry
      /\ \A g \in Handlers : g # h => pc'[g] = pc[g]
      /\ attempts' = attempts /\ runs' = [runs EXCEPT ![j] = @ + 1]
  BY DEF Lock, Goto, TypeOK
<1>3. ASSUME NEW k \in Jobs
      PROVE  /\ attempts'[k] >= runs'[k] + Cardinality(Waiting(k)')
             /\ runs'[k] + Cardinality(Locking(k)') <= MaxAttempts
  <2>1. CASE k # j
    <3>1. Waiting(k)' = Waiting(k) /\ Locking(k)' = Locking(k)
      BY <1>1, <1>2, <2>1, WaitingMoves
    <3> QED
      BY <1>2, <2>1, <3>1 DEF BoundInv, TypeOK
  <2>2. CASE k = j
    <3>1. Waiting(j)' = Waiting(j) \ {h} /\ Locking(j)' = Locking(j) \ {h}
      BY <1>1, <1>2, WaitingMoves
    <3>2. /\ Cardinality(Waiting(j)') = Cardinality(Waiting(j)) - 1
          /\ Cardinality(Locking(j)') = Cardinality(Locking(j)) - 1
      BY <1>1, <3>1, WaitingFinite, FS_RemoveElement
    <3>3. /\ attempts[j] \in Int /\ runs[j] \in Nat /\ MaxAttempts \in Nat
          /\ attempts[j] >= runs[j] + Cardinality(Waiting(j))
          /\ runs[j] + Cardinality(Locking(j)) <= MaxAttempts
          /\ runs'[j] = runs[j] + 1
      BY <1>1, <1>2, QueueAssumption DEF TypeOK, BoundInv
    <3> QED
      BY <1>1, <1>2, <2>2, <3>2, <3>3, WaitingFinite
  <2> QED
    BY <2>1, <2>2
<1> QED
  BY <1>3 DEF BoundInv

\* HINCRBY -1: the handler that gives its attempt back no longer waits.
LEMMA BoundUncount ==
    ASSUME TypeOK, BoundInv, NEW h \in Handlers, Uncount(h)
    PROVE  BoundInv'
<1>0. Active(h) /\ JobOf(h) \in Jobs
  BY ActiveEntry DEF Uncount, Active
<1> PICK j \in Jobs : j = JobOf(h)
  BY <1>0
<1>1. Active(h) /\ h \in Waiting(j) /\ h \notin Locking(j)
  BY <1>0 DEF Uncount, Waiting, Locking
<1>2. /\ pc'[h] = "defer" /\ entry' = entry
      /\ \A g \in Handlers : g # h => pc'[g] = pc[g]
      /\ attempts' = [attempts EXCEPT ![j] = @ - 1] /\ runs' = runs
  BY DEF Uncount, Goto, ghosts, TypeOK
<1>3. ASSUME NEW k \in Jobs
      PROVE  /\ attempts'[k] >= runs'[k] + Cardinality(Waiting(k)')
             /\ runs'[k] + Cardinality(Locking(k)') <= MaxAttempts
  <2>1. CASE k # j
    <3>1. Waiting(k)' = Waiting(k) /\ Locking(k)' = Locking(k)
      BY <1>1, <1>2, <2>1, WaitingMoves
    <3> QED
      BY <1>2, <2>1, <3>1 DEF BoundInv, TypeOK
  <2>2. CASE k = j
    <3>1. Waiting(j)' = Waiting(j) \ {h} /\ Locking(j)' = Locking(j)
      BY <1>1, <1>2, WaitingMoves
    <3>2. Cardinality(Waiting(j)') = Cardinality(Waiting(j)) - 1
      BY <1>1, <3>1, WaitingFinite, FS_RemoveElement
    <3>3. /\ attempts[j] \in Int /\ runs[j] \in Nat /\ MaxAttempts \in Nat
          /\ attempts[j] >= runs[j] + Cardinality(Waiting(j))
          /\ runs[j] + Cardinality(Locking(j)) <= MaxAttempts
          /\ attempts'[j] = attempts[j] - 1
      BY <1>1, <1>2, QueueAssumption DEF TypeOK, BoundInv
    <3> QED
      BY <1>1, <1>2, <2>2, <3>1, <3>2, <3>3, WaitingFinite
  <2> QED
    BY <2>1, <2>2
<1> QED
  BY <1>3 DEF BoundInv

\* Every step keeps the bound, stalls included: a failed HINCRBY, which the
\* code takes for attempt 1, is the one exception.
LEMMA BoundStep ==
    ASSUME "count" \notin FaultAt, TypeOK, BoundInv, Next
    PROVE  BoundInv'
<1>1. ASSUME NEW h \in Handlers, Count(h) \/ Lock(h) \/ Uncount(h) PROVE BoundInv'
  BY <1>1, BoundCount, BoundLock, BoundUncount
<1>2. ASSUME NEW h \in Handlers, HandlerStep(h) \/ Heartbeat(h),
             ~Count(h), ~Lock(h), ~Uncount(h)
      PROVE  BoundInv'
  <2>1. attempts' = attempts /\ runs' = runs
    BY <1>2 DEF HandlerStep, Heartbeat, Guard, LockBusy, Defer, Start, MarkRunning,
         RunEnds, RunConfigRead, RunCancelled, Retry, Requeue, Fence, Record, Publish,
         Release, Ack, redisVars, ghosts
  <2>2. \A g \in Handlers : pc'[g] \in {"lock", "uncount"} =>
            /\ pc[g] \in {"lock", "uncount"} /\ entry'[g] = entry[g]
            /\ pc'[g] = "lock" => pc[g] = "lock"
    BY <1>2 DEF HandlerStep, Heartbeat, Guard, LockBusy, Defer, Start, MarkRunning,
         RunEnds, RunConfigRead, RunCancelled, Retry, AfterRetry, Requeue, Fence, Record,
         Publish, Release, Ack, Goto, Return, Finish, TypeOK
  <2> QED
    BY <2>1, <2>2, BoundQuiet
<1>3. ASSUME NEW h \in Handlers, 
             FaultReturn(h) \/ FaultApplied(h) \/ FaultSkip(h) \/ FaultCount(h) \/ Crash(h)
      PROVE  BoundInv'
  <2>1. ~FaultCount(h)
    BY DEF FaultCount, Fault
  <2>2. attempts' = attempts /\ runs' = runs
    BY <1>3, <2>1 DEF FaultReturn, FaultApplied, FaultSkip, Crash, redisVars, ghosts
  <2>3. \A g \in Handlers : pc'[g] \in {"lock", "uncount"} =>
            /\ pc[g] \in {"lock", "uncount"} /\ entry'[g] = entry[g]
            /\ pc'[g] = "lock" => pc[g] = "lock"
    BY <1>3, <2>1 DEF FaultReturn, FaultApplied, FaultSkip, Crash, AfterRetry, Goto, Return,
         Finish, TypeOK
  <2> QED
    BY <2>2, <2>3, BoundQuiet
<1>4. ASSUME \/ \E h \in Handlers, e \in queue : Claim(h, e)
             \/ \E h \in Handlers, e \in pel : Reclaim(h, e)
      PROVE  BoundInv'
  <2>1. attempts' = attempts /\ runs' = runs
    BY <1>4 DEF Claim, Reclaim, redisVars, ghosts
  <2>2. \A g \in Handlers : pc'[g] \in {"lock", "uncount"} =>
            pc'[g] = pc[g] /\ entry'[g] = entry[g]
    BY <1>4 DEF Claim, Reclaim, Handle, TypeOK
  <2> QED
    BY <2>1, <2>2, BoundQuiet
<1>5. ASSUME \/ \E j \in Jobs : Enqueue(j)
             \/ \E e \in queue : ClaimLost(e)
             \/ \E e \in pel : ReclaimGone(e)
             \/ \E p \in Pipelines : LockExpire(p)
             \/ \E j \in Jobs, n \in Copies : MoveDue(j, n)
             \/ \E j \in Jobs : \/ Trim(j) \/ SweepScan(j) \/ SweepRead(j)
                                \/ SweepMark(j) \/ SweepFault(j)
      PROVE  BoundInv'
  <2>1. UNCHANGED <<attempts, runs, pc, entry>>
    BY <1>5 DEF Enqueue, ClaimLost, ReclaimGone, LockExpire, MoveDue, Trim, SweepScan,
         SweepRead, SweepMark, SweepFault, redisVars, handlerVars, ghosts
  <2> QED
    BY <2>1, BoundQuiet
<1> QED
  BY <1>1, <1>2, <1>3, <1>4, <1>5 DEF Next

\* MAX_ATTEMPTS bounds the executions of every job, although lock-busy
\* deliveries give their attempt back and handlers overtaken by the reclaimer
\* go on counting: for any number of stalls, crashes, trims and failed
\* commands other than HINCRBY itself.
THEOREM RunsAreBounded ==
    ASSUME "count" \notin FaultAt
    PROVE  Spec => []RunsBounded
<1>1. TypeOK /\ BoundInv /\ [Next]_vars => (TypeOK /\ BoundInv)'
  <2> SUFFICES ASSUME TypeOK, BoundInv, [Next]_vars PROVE BoundInv'
    BY TypeStep
  <2>1. CASE UNCHANGED vars
    BY <2>1, BoundQuiet DEF vars
  <2>2. CASE Next
    BY <2>2, BoundStep
  <2> QED
    BY <2>1, <2>2
<1>2. Init => TypeOK /\ BoundInv
  BY TypeInit, BoundInit
<1> QED
  BY <1>1, <1>2, BoundImplies, PTL DEF Spec

-----------------------------------------------------------------------------
(* Losing no job.  While nothing is trimmed the orphan sweep never acts, a  *)
(* terminal live hash was published by an attempt, and every step that      *)
(* takes an entry away has put the job somewhere else or comes after that.  *)

\* The job is in the stream, pending or delayed.
HasToken(j) == j \in delayed \/ \E e \in queue \cup pel : e[1] = j

Untrimmed == gone = {} /\ \A j \in Jobs : sweep[j] = "none"

\* A delivery is acked for a job that an attempt has settled.
AckedSettled ==
    /\ \A j \in Jobs : live[j] \in Terminal => j \in finished
    /\ \A h \in Handlers : pc[h] = "release" => JobOf(h) \in finished
    /\ \A h \in Handlers : pc[h] = "ack" => JobOf(h) \in Poison \cup finished

OpenHasToken ==
    \A j \in Jobs \ Poison : live[j] # "absent" /\ j \notin finished => HasToken(j)

DropInv == Untrimmed /\ AbsentNowhere /\ AckedSettled /\ OpenHasToken

\* A job's entries are finitely many.
LEMMA EntriesFinite == \A j \in Jobs : IsFiniteSet((queue \cup pel) \cap EntriesOf(j))
<1> SUFFICES ASSUME NEW j \in Jobs
             PROVE  IsFiniteSet((queue \cup pel) \cap EntriesOf(j))
  OBVIOUS
<1>1. IsFiniteSet({j} \X Copies)
  <2>1. IsFiniteSet(Copies)
    BY QueueAssumption, FS_Interval DEF Copies
  <2>2. IsFiniteSet({j})
    BY FS_Singleton
  <2> QED
    BY <2>1, <2>2, FS_Product
<1>2. (queue \cup pel) \cap EntriesOf(j) \subseteq {j} \X Copies
  BY DEF EntriesOf, Entries
<1> QED
  BY <1>1, <1>2, FS_Subset

\* A job without a token is in none of the three places.
LEMMA NoTokens ==
    ASSUME TypeOK, NEW j \in Jobs
    PROVE  Tokens(j) = 0 <=> ~HasToken(j)
<1> DEFINE E == (queue \cup pel) \cap EntriesOf(j)
<1>1. IsFiniteSet(E) /\ Cardinality(E) \in Nat /\ (Cardinality(E) = 0 <=> E = {})
  BY EntriesFinite, FS_EmptySet, FS_CardinalityType
<1>2. E = {} <=> \A e \in queue \cup pel : e[1] # j
  BY DEF EntriesOf, TypeOK
<1> HIDE DEF E
<1>3. Tokens(j) = Cardinality(E) + (IF j \in delayed THEN 1 ELSE 0)
  BY DEF Tokens, E
<1> QED
  BY <1>1, <1>2, <1>3 DEF HasToken

\* The invariant implies the property.
LEMMA DropImplies == TypeOK /\ DropInv => NoJobDropped
  BY NoTokens DEF NoJobDropped, DropInv, OpenHasToken

\* No job was submitted yet.
LEMMA DropInit == Init => DropInv
  BY DEF Init, DropInv, Untrimmed, AckedSettled, OpenHasToken, AbsentNowhere, Active,
         Terminal

\* Without trimming there is nothing to sweep.
LEMMA UntrimmedStep ==
    ASSUME Trimming = FALSE, TypeOK, Untrimmed, Next
    PROVE  Untrimmed'
<1>1. ASSUME NEW h \in Handlers, StepOf(h) PROVE gone' = gone /\ sweep' = sweep
  BY <1>1, StepPlaces
<1>2. ASSUME \/ \E j \in Jobs : Enqueue(j)
             \/ \E h \in Handlers, e \in queue : Claim(h, e)
             \/ \E e \in queue : ClaimLost(e)
             \/ \E h \in Handlers, e \in pel : Reclaim(h, e)
             \/ \E e \in pel : ReclaimGone(e)
             \/ \E p \in Pipelines : LockExpire(p)
      PROVE  gone' = gone /\ sweep' = sweep
  BY <1>2 DEF Enqueue, Claim, ClaimLost, Reclaim, ReclaimGone, LockExpire, redisVars
<1>3. ASSUME \/ \E j \in Jobs, n \in Copies : MoveDue(j, n)
             \/ \E j \in Jobs : \/ Trim(j) \/ SweepScan(j) \/ SweepRead(j)
                                \/ SweepMark(j) \/ SweepFault(j)
      PROVE  Untrimmed'
  BY <1>3 DEF MoveDue, Trim, SweepScan, SweepRead, SweepMark, SweepFault, Untrimmed,
     redisVars, TypeOK
<1> QED
  BY <1>1, <1>2, <1>3, NextCases DEF Untrimmed

\* Every handler acks only what is settled: whatever overtakes it, a settled
\* job stays settled.
LEMMA AckedStep ==
    ASSUME TypeOK, Untrimmed, AckedSettled, Next
    PROVE  AckedSettled'
<1> USE DEF AckedSettled
<1>1. ASSUME NEW h \in Handlers, HandlerStep(h) \/ Heartbeat(h) PROVE AckedSettled'
  <2> USE DEF TypeOK, Goto, Return, Finish, redisVars, ghosts, JobOf
  <2>0. Active(h) => JobOf(h) \in Jobs
    BY ActiveEntry
  <2>1. CASE Guard(h)
    BY <2>0, <2>1 DEF Guard, IsTerminal, Active
  <2>2. CASE Start(h) \/ Requeue(h)
    BY <2>0, <2>2 DEF Start, Requeue, Terminal, Active
  <2>3. CASE Publish(h)
    BY <2>0, <2>3 DEF Publish, PublishEffect, Terminal, Active
  <2>4. CASE Release(h)
    BY <2>4 DEF Release
  <2>5. CASE \/ Count(h) \/ Lock(h) \/ LockBusy(h) \/ Uncount(h) \/ Defer(h) \/ MarkRunning(h)
             \/ \E s \in {"completed", "failed"} : RunEnds(h, s)
             \/ RunConfigRead(h) \/ RunCancelled(h) \/ Retry(h) \/ Fence(h) \/ Record(h)
             \/ Ack(h) \/ Heartbeat(h)
    <3>1. live' = live /\ finished' = finished
      BY <2>5 DEF Count, Lock, LockBusy, Uncount, Defer, MarkRunning, RunEnds,
         RunConfigRead, RunCancelled, Retry, Fence, Record, Ack, Heartbeat
    <3>2. \A g \in Handlers : pc'[g] \in {"release", "ack"} =>
              pc'[g] = pc[g] /\ entry'[g] = entry[g]
      BY <2>5 DEF Count, Lock, LockBusy, Uncount, Defer, MarkRunning, RunEnds,
         RunConfigRead, RunCancelled, Retry, AfterRetry, Fence, Record, Ack, Heartbeat
    <3> QED
      BY <3>1, <3>2
  <2> QED
    BY <1>1, <2>1, <2>2, <2>3, <2>4, <2>5 DEF HandlerStep
<1>2. ASSUME NEW h \in Handlers,
             FaultReturn(h) \/ FaultApplied(h) \/ FaultSkip(h) \/ FaultCount(h) \/ Crash(h)
      PROVE  AckedSettled'
  <2>1. \A g \in Handlers : pc'[g] \in {"release", "ack"} =>
            pc'[g] = pc[g] /\ entry'[g] = entry[g]
    BY <1>2 DEF FaultReturn, FaultApplied, FaultSkip, FaultCount, Crash, AfterRetry, Goto,
       Return, Finish, TypeOK
  <2>2. /\ finished \subseteq finished'
        /\ \A j \in Jobs : live'[j] # live[j] => j \in finished'
    BY <1>2 DEF FaultReturn, FaultApplied, FaultSkip, FaultCount, Crash, PublishEffect,
       redisVars, ghosts, TypeOK
  <2> QED
    BY <2>1, <2>2 DEF JobOf
<1>3. ASSUME NEW j \in Jobs, Enqueue(j) PROVE AckedSettled'
  BY <1>3 DEF Enqueue, handlerVars, ghosts, Terminal, TypeOK, JobOf
<1>4. ASSUME \/ \E h \in Handlers, e \in queue : Claim(h, e)
             \/ \E h \in Handlers, e \in pel : Reclaim(h, e)
      PROVE  AckedSettled'
  <2>1. \A g \in Handlers :
            \/ pc'[g] = pc[g] /\ entry'[g] = entry[g]
            \/ pc'[g] = "ack" /\ entry'[g][1] \in Poison
            \/ pc'[g] \notin {"release", "ack"}
    BY <1>4 DEF Claim, Reclaim, Handle, TypeOK
  <2> QED
    BY <1>4, <2>1 DEF Claim, Reclaim, redisVars, ghosts, JobOf
<1>5. ASSUME \/ \E e \in queue : ClaimLost(e)
             \/ \E e \in pel : ReclaimGone(e)
             \/ \E p \in Pipelines : LockExpire(p)
             \/ \E j \in Jobs, n \in Copies : MoveDue(j, n)
             \/ \E j \in Jobs : Trim(j) \/ SweepScan(j) \/ SweepRead(j) \/ SweepFault(j)
      PROVE  AckedSettled'
  BY <1>5 DEF ClaimLost, ReclaimGone, LockExpire, MoveDue, Trim, SweepScan, SweepRead,
     SweepFault, redisVars, handlerVars, ghosts, JobOf
<1>6. ASSUME NEW j \in Jobs, SweepMark(j) PROVE FALSE
  BY <1>6 DEF SweepMark, Untrimmed
<1> QED
  BY <1>1, <1>2, <1>3, <1>4, <1>5, <1>6 DEF Next

\* Only an ack takes the last entry of a job away.
LEMMA TokenTaken ==
    ASSUME Trimming = FALSE, TypeOK, Untrimmed, Next,
           NEW j \in Jobs, HasToken(j), ~HasToken(j)'
    PROVE  \E h \in Handlers : Ack(h) /\ JobOf(h) = j
<1>1. ASSUME NEW h \in Handlers, StepOf(h) PROVE Ack(h) /\ JobOf(h) = j
  <2>1. pel' = pel \ {entry[h]} /\ pel' # pel /\ JobOf(h) = j
    BY <1>1, StepPlaces DEF HasToken, JobOf
  <2>2. delayed' # delayed \cup {JobOf(h)}
    BY <2>1 DEF HasToken
  <2> USE <2>1, <2>2 DEF redisVars
  <2>3. ~Heartbeat(h)
    BY DEF Heartbeat, Untrimmed
  <2>4. CASE HandlerStep(h)
    BY <2>4 DEF HandlerStep, Guard, Count, Lock, LockBusy, Uncount, Defer, DeferEffect,
       Start, MarkRunning, RunEnds, RunConfigRead, RunCancelled, Retry, Requeue, Fence,
       Record, Publish, Release
  <2>5. CASE FaultReturn(h) \/ FaultApplied(h) \/ FaultSkip(h) \/ FaultCount(h) \/ Crash(h)
    BY <2>5 DEF FaultReturn, FaultApplied, DeferEffect, FaultSkip, FaultCount, Crash
  <2> QED
    BY <1>1, <2>3, <2>4, <2>5 DEF StepOf
<1>2. ASSUME \/ \E k \in Jobs : Enqueue(k)
             \/ \E h \in Handlers, e \in queue : Claim(h, e)
             \/ \E e \in queue : ClaimLost(e)
             \/ \E h \in Handlers, e \in pel : Reclaim(h, e)
      PROVE  FALSE
  <2>1. /\ \A e \in queue \cup pel : e \in queue' \cup pel'
        /\ delayed' = delayed
    BY <1>2 DEF Enqueue, Claim, ClaimLost, Reclaim, redisVars
  <2> QED
    BY <2>1 DEF HasToken
<1>3. ASSUME NEW k \in Jobs, NEW n \in Copies, MoveDue(k, n) PROVE FALSE
  <2>1. <<k, n>> \in queue' /\ <<k, n>>[1] = k
    BY <1>3 DEF MoveDue
  <2>2. k # j
    BY <2>1 DEF HasToken
  <2> QED
    BY <1>3, <2>2 DEF MoveDue, HasToken
<1>4. ASSUME \/ \E e \in pel : ReclaimGone(e)
             \/ \E p \in Pipelines : LockExpire(p)
             \/ \E k \in Jobs : \/ Trim(k) \/ SweepScan(k) \/ SweepRead(k)
                                \/ SweepMark(k) \/ SweepFault(k)
      PROVE  FALSE
  <2>1. UNCHANGED <<queue, pel, delayed>>
    BY <1>4 DEF ReclaimGone, Trim, LockExpire, SweepScan, SweepRead, SweepMark, SweepFault,
       redisVars, Untrimmed
  <2> QED
    BY <2>1 DEF HasToken
<1> QED
  BY <1>1, <1>2, <1>3, <1>4, NextCases

\* A job is submitted with an entry in the stream.
LEMMA TokenGiven ==
    ASSUME TypeOK, AbsentNowhere, Untrimmed, Next,
           NEW j \in Jobs, live[j] = "absent", live'[j] # "absent"
    PROVE  HasToken(j)'
<1>1. Enqueue(j)
  <2>1. ASSUME NEW h \in Handlers, StepOf(h) PROVE FALSE
    BY <2>1, StepRecords, StepLocals DEF AbsentNowhere
  <2>2. ASSUME NEW k \in Jobs, Enqueue(k) PROVE k = j
    BY <2>2 DEF Enqueue, TypeOK
  <2>3. ASSUME \/ \E h \in Handlers, e \in queue : Claim(h, e)
               \/ \E e \in queue : ClaimLost(e)
               \/ \E h \in Handlers, e \in pel : Reclaim(h, e)
               \/ \E e \in pel : ReclaimGone(e)
               \/ \E p \in Pipelines : LockExpire(p)
               \/ \E k \in Jobs, n \in Copies : MoveDue(k, n)
               \/ \E k \in Jobs : \/ Trim(k) \/ SweepScan(k) \/ SweepRead(k)
                                  \/ SweepMark(k) \/ SweepFault(k)
        PROVE  FALSE
    BY <2>3 DEF Claim, ClaimLost, Reclaim, ReclaimGone, LockExpire, MoveDue, Trim, SweepScan,
       SweepRead, SweepMark, SweepFault, redisVars, Untrimmed
  <2> QED
    BY <2>1, <2>2, <2>3, NextCases
<1>2. <<j, 1>> \in queue' /\ <<j, 1>>[1] = j
  BY <1>1 DEF Enqueue
<1> QED
  BY <1>2 DEF HasToken

\* A published result stays one.
LEMMA FinishedGrows == ASSUME TypeOK, Next PROVE finished \subseteq finished'
<1>1. ASSUME NEW h \in Handlers, StepOf(h) PROVE finished \subseteq finished'
  BY <1>1, StepRecords
<1>2. ASSUME \/ \E j \in Jobs : Enqueue(j)
             \/ \E h \in Handlers, e \in queue : Claim(h, e)
             \/ \E e \in queue : ClaimLost(e)
             \/ \E h \in Handlers, e \in pel : Reclaim(h, e)
             \/ \E e \in pel : ReclaimGone(e)
             \/ \E p \in Pipelines : LockExpire(p)
             \/ \E j \in Jobs, n \in Copies : MoveDue(j, n)
             \/ \E j \in Jobs : \/ Trim(j) \/ SweepScan(j) \/ SweepRead(j)
                                \/ SweepMark(j) \/ SweepFault(j)
      PROVE  finished' = finished
  BY <1>2 DEF Enqueue, Claim, ClaimLost, Reclaim, ReclaimGone, LockExpire, MoveDue, Trim,
     SweepScan, SweepRead, SweepMark, SweepFault, ghosts
<1> QED
  BY <1>1, <1>2, NextCases

\* Every step keeps a token for a submitted job that is not settled: an ack
\* is for a settled one.
LEMMA TokenStep ==
    ASSUME Trimming = FALSE, TypeOK, DropInv, Next
    PROVE  OpenHasToken'
<1> SUFFICES ASSUME NEW j \in Jobs \ Poison, live'[j] # "absent", j \notin finished',
                    ~HasToken(j)'
             PROVE  FALSE
  BY DEF OpenHasToken
<1>1. live[j] # "absent"
  BY TokenGiven DEF DropInv
<1>2. HasToken(j) /\ j \notin finished
  BY <1>1, FinishedGrows DEF DropInv, OpenHasToken
<1>3. PICK h \in Handlers : Ack(h) /\ JobOf(h) = j
  BY <1>2, TokenTaken DEF DropInv
<1> QED
  BY <1>2, <1>3 DEF Ack, DropInv, AckedSettled

\* A job leaves stream, PEL and delayed ZSET only once one of its attempts
\* has published a terminal status, for any number of live workers overtaken
\* by the reclaimer and the lock TTL, and any crashes and failed commands:
\* what at-least-once delivery owes to whoever enqueued it.  MAXLEN trimming
\* is the one way to lose an entry, and is excluded.
THEOREM NothingDropped ==
    ASSUME Trimming = FALSE
    PROVE  Spec => []NoJobDropped
<1>1. TypeOK /\ DropInv /\ [Next]_vars => (TypeOK /\ DropInv)'
  <2> SUFFICES ASSUME TypeOK, DropInv, [Next]_vars PROVE DropInv'
    BY TypeStep
  <2>1. CASE UNCHANGED vars
    BY <2>1 DEF vars, DropInv, Untrimmed, AbsentNowhere, AckedSettled, OpenHasToken,
                HasToken, Active, JobOf
  <2>2. CASE Next
    BY <2>2, UntrimmedStep, AbsentStep, AckedStep, TokenStep DEF DropInv
  <2> QED
    BY <2>1, <2>2
<1>2. Init => TypeOK /\ DropInv
  BY TypeInit, DropInit
<1> QED
  BY <1>1, <1>2, DropImplies, PTL DEF Spec
=============================================================================
