----------------------- MODULE JobQueueRefinementProofs -----------------------
(***************************************************************************)
(* What the queue guarantees while no live worker is overtaken by its TTLs *)
(* (MaxStalls = 0), for any number of jobs, handlers and pipelines, with   *)
(* crashes and failed commands at every step: exactly one token per open   *)
(* job, the row that agrees with the live hash, and the refinement of      *)
(* JobLifecycle.                                                           *)
(***************************************************************************)
EXTENDS JobQueueRefinement, JobQueueProofs

(* One token.  SerialInv gives at most one.  That an open job has one rests *)
(* on the entry of a handler staying in the PEL until the handler acks, and *)
(* on acks being for settled jobs, whatever the guard could read.           *)

\* The entry being worked on is pending.
EntryPending == \A h \in Handlers : Active(h) => entry[h] \in pel

\* Whoever is about to release or to ack left the job terminal.
AckedTerminal ==
    \A h \in Handlers :
        /\ pc[h] = "release" => live[JobOf(h)] \in Terminal
        /\ pc[h] = "ack" => JobOf(h) \in Poison \/ live[JobOf(h)] \in Terminal

OpenInOnePlace == \A j \in Jobs \ Poison : live[j] \in {"queued", "running"} => HasToken(j)

TokenInv == Untrimmed /\ EntryPending /\ AckedTerminal /\ OpenInOnePlace

\* A job has at most one token, by DeliveryInv.
LEMMA AtMostOne ==
    ASSUME SerialInv, NEW j \in Jobs
    PROVE  Tokens(j) \in Nat /\ Tokens(j) <= 1
<1> DEFINE E == (queue \cup pel) \cap EntriesOf(j)
<1>1. IsFiniteSet(E) /\ Cardinality(E) \in Nat
  BY EntriesFinite, FS_CardinalityType
<1>2. Tokens(j) = Cardinality(E) + (IF j \in delayed THEN 1 ELSE 0)
  BY DEF Tokens
<1>3. CASE E = {}
  <2>1. Cardinality(E) = 0
    BY <1>3, FS_EmptySet
  <2> HIDE DEF E
  <2> QED
    BY <1>2, <2>1
<1>4. CASE E # {}
  <2>1. PICK e : e \in E
    BY <1>4
  <2>2. E = {e}
    BY <2>1 DEF SerialInv, DeliveryInv, OneEntry, EntriesOf
  <2>3. Cardinality(E) = 1
    BY <2>2, FS_Singleton
  <2>4. j \notin delayed
    BY <2>1 DEF SerialInv, DeliveryInv, DelayedAlone, EntriesOf
  <2> QED
    BY <1>2, <2>3, <2>4
<1> QED
  BY <1>3, <1>4

\* The invariants imply the property.
LEMMA TokenImplies == SerialInv /\ TokenInv => OneToken
<1> SUFFICES ASSUME SerialInv, TokenInv, NEW j \in Jobs
             PROVE  /\ Tokens(j) <= 1
                    /\ live[j] \in {"queued", "running"} /\ j \notin Poison => Tokens(j) = 1
  BY DEF OneToken
<1>1. Tokens(j) \in Nat /\ Tokens(j) <= 1
  BY AtMostOne
<1>2. live[j] \in {"queued", "running"} /\ j \notin Poison => Tokens(j) # 0
  BY NoTokens DEF TokenInv, OpenInOnePlace, SerialInv
<1> QED
  BY <1>1, <1>2

\* No job was submitted.
LEMMA TokenInit == Init => TokenInv
  BY DEF Init, TokenInv, Untrimmed, EntryPending, AckedTerminal, OpenInOnePlace, Active

\* A handler's step touches no other handler's job.
LEMMA OthersApart ==
    ASSUME SerialInv, NEW h \in Handlers, StepOf(h), NEW g \in Handlers, g # h, Active(g)
    PROVE  /\ JobOf(g)' = JobOf(g) /\ JobOf(g) \in Jobs /\ JobOf(g) # JobOf(h)
           /\ entry[g] # entry[h]
           /\ live'[JobOf(g)] = live[JobOf(g)] /\ row'[JobOf(g)] = row[JobOf(g)]
<1>1. Active(h) /\ JobOf(g) \in Jobs /\ JobOf(g)' = JobOf(g)
  BY StepLocals, ActiveEntry DEF SerialInv, JobOf
<1>2. JobOf(g) # JobOf(h)
  BY <1>1 DEF SerialInv, DeliveryInv, OneHandler
<1> QED
  BY <1>1, <1>2, StepRecords DEF SerialInv, JobOf

\* Only the ack and the deferral of a handler drop its entry, and it returns.
LEMMA PendingStep ==
    ASSUME MaxStalls = 0, SerialInv, Untrimmed, EntryPending, Next
    PROVE  EntryPending'
<1> USE DEF SerialInv, EntryPending
<1>1. ASSUME NEW h \in Handlers, StepOf(h) PROVE EntryPending'
  <2>1. ASSUME NEW g \in Handlers, g # h, Active(g)' PROVE entry'[g] \in pel'
    <3>1. Active(g) /\ entry'[g] = entry[g]
      BY <1>1, <2>1, StepLocals DEF Active
    <3> QED
      BY <1>1, <2>1, <3>1, StepPlaces, OthersApart
  <2>2. ASSUME Active(h)' PROVE pel' = pel
    <3> USE <2>2 DEF redisVars, Active, Return
    <3>1. CASE Heartbeat(h)
      BY <3>1 DEF Heartbeat, Untrimmed
    <3>2. ~Defer(h) /\ ~Ack(h)
      BY DEF Defer, Ack, TypeOK
    <3>3. CASE HandlerStep(h)
      BY <3>2, <3>3 DEF HandlerStep, Guard, Count, Lock, LockBusy, Uncount, Start,
         MarkRunning, RunEnds, RunConfigRead, RunCancelled, Retry, Requeue, Fence, Record,
         Publish, Release
    <3>4. CASE FaultReturn(h) \/ FaultApplied(h) \/ FaultSkip(h) \/ FaultCount(h) \/ Crash(h)
      BY <3>4 DEF FaultReturn, FaultApplied, FaultSkip, FaultCount, Crash, TypeOK
    <3> QED
      BY <1>1, <3>1, <3>3, <3>4 DEF StepOf
  <2> QED
    BY <1>1, <2>1, <2>2, StepLocals DEF Active
<1>2. ASSUME NEW h \in Handlers, NEW e \in queue \cup pel, Claim(h, e) \/ Reclaim(h, e)
      PROVE  EntryPending'
  BY <1>2 DEF Claim, Reclaim, Handle, redisVars, Active, TypeOK
<1>3. ASSUME \/ \E j \in Jobs : Enqueue(j)
             \/ \E e \in queue : ClaimLost(e)
             \/ \E e \in pel : ReclaimGone(e)
             \/ \E p \in Pipelines : LockExpire(p)
             \/ \E j \in Jobs, n \in Copies : MoveDue(j, n)
             \/ \E j \in Jobs : \/ Trim(j) \/ SweepScan(j) \/ SweepRead(j)
                                \/ SweepMark(j) \/ SweepFault(j)
      PROVE  EntryPending'
  <2>1. UNCHANGED <<pc, entry>> /\ pel \subseteq pel'
    BY <1>3 DEF Enqueue, ClaimLost, ReclaimGone, LockExpire, MoveDue, Trim, SweepScan,
       SweepRead, SweepMark, SweepFault, redisVars, handlerVars, Untrimmed
  <2> QED
    BY <2>1 DEF Active
<1> QED
  BY <1>1, <1>2, <1>3, NextCases

\* A handler reaches its release or its ack through a terminal status, read
\* or written; nobody else works on the job, so the status stays.
LEMMA AckedTerminalStep ==
    ASSUME MaxStalls = 0, SerialInv, Untrimmed, AckedTerminal, Next
    PROVE  AckedTerminal'
<1> USE DEF SerialInv, AckedTerminal
<1>1. ASSUME NEW h \in Handlers, StepOf(h) PROVE AckedTerminal'
  <2>1. ASSUME NEW g \in Handlers, g # h, pc'[g] \in {"release", "ack"}
        PROVE  /\ pc[g] = pc'[g] /\ JobOf(g)' = JobOf(g)
               /\ live'[JobOf(g)'] = live[JobOf(g)]
    BY <1>1, <2>1, StepLocals, OthersApart DEF Active
  <2>2. ASSUME pc'[h] \in {"release", "ack"}
        PROVE  \/ JobOf(h)' \in Poison /\ pc'[h] = "ack"
               \/ live'[JobOf(h)'] \in Terminal
    <3>1. JobOf(h)' = JobOf(h) /\ Active(h) /\ JobOf(h) \in Jobs
      BY <1>1, <2>2, StepLocals, ActiveEntry DEF JobOf
    <3> USE <2>2, <3>1 DEF redisVars, Goto, Return, Finish, TypeOK
    <3>2. CASE Guard(h)
      BY <3>2 DEF Guard, IsTerminal
    <3>3. CASE Publish(h)
      BY <3>3 DEF Publish, PublishEffect, Terminal
    <3>4. CASE Release(h)
      BY <3>4 DEF Release
    <3>5. CASE \/ HandlerStep(h) /\ ~Guard(h) /\ ~Publish(h) /\ ~Release(h)
               \/ Heartbeat(h)
      BY <3>5 DEF HandlerStep, Count, Lock, LockBusy, Uncount, Defer, Start, MarkRunning,
         RunEnds, RunConfigRead, RunCancelled, Retry, AfterRetry, Requeue, Fence, Record,
         Ack, Heartbeat
    <3>6. CASE FaultReturn(h) \/ FaultApplied(h) \/ FaultSkip(h) \/ FaultCount(h) \/ Crash(h)
      BY <3>6 DEF FaultReturn, FaultApplied, FaultSkip, FaultCount, Crash, AfterRetry
    <3> QED
      BY <1>1, <3>2, <3>3, <3>4, <3>5, <3>6 DEF StepOf
  <2> QED
    BY <2>1, <2>2
<1>2. ASSUME NEW h \in Handlers, NEW e \in queue \cup pel, Claim(h, e) \/ Reclaim(h, e)
      PROVE  AckedTerminal'
  BY <1>2 DEF Claim, Reclaim, Handle, redisVars, JobOf, TypeOK
<1>3. ASSUME NEW j \in Jobs, Enqueue(j) PROVE AckedTerminal'
  <2>1. /\ UNCHANGED <<pc, entry>> /\ live[j] = "absent"
        /\ \A k \in Jobs : k # j => live'[k] = live[k]
    BY <1>3 DEF Enqueue, handlerVars, TypeOK
  <2>2. \A h \in Handlers : Active(h) => JobOf(h) # j /\ JobOf(h) \in Jobs
    BY <2>1, ActiveEntry DEF DeliveryInv, AbsentNowhere
  <2> QED
    BY <2>1, <2>2 DEF JobOf, Active
<1>4. ASSUME \/ \E e \in queue : ClaimLost(e)
             \/ \E e \in pel : ReclaimGone(e)
             \/ \E p \in Pipelines : LockExpire(p)
             \/ \E j \in Jobs, n \in Copies : MoveDue(j, n)
             \/ \E j \in Jobs : \/ Trim(j) \/ SweepScan(j) \/ SweepRead(j)
                                \/ SweepMark(j) \/ SweepFault(j)
      PROVE  AckedTerminal'
  <2>1. UNCHANGED <<pc, entry, live>>
    BY <1>4 DEF ClaimLost, ReclaimGone, LockExpire, MoveDue, Trim, SweepScan, SweepRead,
       SweepMark, SweepFault, redisVars, handlerVars, Untrimmed
  <2> QED
    BY <2>1 DEF JobOf
<1> QED
  BY <1>1, <1>2, <1>3, <1>4, NextCases

\* A status is written by a handler, whose entry is pending, or by a
\* submission.
LEMMA OpenStep ==
    ASSUME MaxStalls = 0, Trimming = FALSE, SerialInv, TokenInv, Next
    PROVE  OpenInOnePlace'
<1> USE DEF SerialInv, TokenInv
<1> SUFFICES ASSUME NEW j \in Jobs \ Poison, live'[j] \in {"queued", "running"}, ~HasToken(j)'
             PROVE  FALSE
  BY DEF OpenInOnePlace
<1>1. live[j] # "absent"
  BY TokenGiven DEF DeliveryInv
<1>2. HasToken(j)
  <2>1. CASE live[j] \in {"queued", "running"}
    BY <2>1 DEF OpenInOnePlace
  <2>2. CASE live[j] \notin {"queued", "running"}
    <3>1. PICK h \in Handlers : StepOf(h)
      <4>1. ASSUME \/ \E k \in Jobs : Enqueue(k)
                   \/ \E h \in Handlers, e \in queue : Claim(h, e)
                   \/ \E e \in queue : ClaimLost(e)
                   \/ \E h \in Handlers, e \in pel : Reclaim(h, e)
                   \/ \E e \in pel : ReclaimGone(e)
                   \/ \E p \in Pipelines : LockExpire(p)
                   \/ \E k \in Jobs, n \in Copies : MoveDue(k, n)
                   \/ \E k \in Jobs : \/ Trim(k) \/ SweepScan(k) \/ SweepRead(k)
                                      \/ SweepMark(k) \/ SweepFault(k)
            PROVE  live'[j] = live[j]
        BY <1>1, <4>1 DEF Enqueue, Claim, ClaimLost, Reclaim, ReclaimGone, LockExpire,
           MoveDue, Trim, SweepScan, SweepRead, SweepMark, SweepFault, redisVars, Untrimmed,
           TypeOK
      <4> QED
        BY <2>2, <4>1, NextCases
    <3>2. JobOf(h) = j /\ Active(h)
      BY <2>2, <3>1, StepRecords, StepLocals
    <3> QED
      BY <3>2 DEF EntryPending, HasToken, JobOf
  <2> QED
    BY <2>1, <2>2
<1>3. PICK h \in Handlers : Ack(h) /\ JobOf(h) = j
  BY <1>2, TokenTaken
<1> QED
  BY <1>3 DEF Ack, AckedTerminal, Terminal

\* No delivery is lost and none is duplicated by claim, reclaim, defer, move,
\* ack, crash or failed command, the failed read of the redelivery guard and
\* the failed count included: an open job is in exactly one of stream, PEL
\* and delayed ZSET.
THEOREM ExactlyOneToken ==
    ASSUME MaxStalls = 0, Trimming = FALSE
    PROVE  Spec => []OneToken
<1>1. SerialInv /\ TokenInv /\ [Next]_vars => (SerialInv /\ TokenInv)'
  <2> SUFFICES ASSUME SerialInv, TokenInv, [Next]_vars PROVE TokenInv'
    BY SerialStep
  <2>1. CASE UNCHANGED vars
    BY <2>1 DEF vars, TokenInv, Untrimmed, EntryPending, AckedTerminal, OpenInOnePlace,
                HasToken, Active, JobOf
  <2>2. CASE Next
    BY <2>2, UntrimmedStep, PendingStep, AckedTerminalStep, OpenStep DEF TokenInv, SerialInv
  <2> QED
    BY <2>1, <2>2
<1>2. Init => SerialInv /\ TokenInv
  BY SerialInit, TokenInit
<1> QED
  BY <1>1, <1>2, TokenImplies, PTL DEF Spec
-----------------------------------------------------------------------------
(* The row and the live hash.  Between mark_finished and the publication of *)
(* the live hash they disagree; RowInv says which handlers are in between,  *)
(* and that past the redelivery guard no job is settled, so that the row of *)
(* a settled job is not reopened.  A bad prefix skips the guard, but can    *)
(* only ever fail.                                                          *)

Published == {"completed", "failed"}

\* Past the guard a job is not settled until its handler publishes.
GuardedOpen ==
    \A h \in Handlers :
        pc[h] \notin {"idle", "guard", "release", "ack"} /\ JobOf(h) \notin BadPrefix
            => live[JobOf(h)] \notin Published

\* What is about to be published is in the row.
RecordedFirst ==
    \A h \in Handlers :
        pc[h] = "publish" => \/ row[JobOf(h)] \in {"none", verdict[h]}
                             \/ JobOf(h) \in missed

\* A job with a bad prefix goes from its claim to finish_job.
BadPrefixFails ==
    /\ \A j \in BadPrefix : live[j] # "completed"
    /\ \A h \in Handlers : Active(h) /\ JobOf(h) \in BadPrefix =>
           /\ pc[h] \in {"fence", "record", "publish", "release", "ack"}
           /\ pc[h] \in {"fence", "record", "publish"} => verdict[h] = "failed"

RowInv == RowMatchesLive /\ GuardedOpen /\ RecordedFirst /\ BadPrefixFails

\* No job has a status.
LEMMA RowInit == Init => RowInv
  BY QueueAssumption DEF Init, RowInv, RowMatchesLive, GuardedOpen, RecordedFirst,
                         BadPrefixFails, Published, Active

\* Deliveries and the other loops settle nothing and write no row of a job
\* that is being handled.
LEMMA RowDeliver ==
    ASSUME SerialInv, RowInv,
           \/ \E j \in Jobs : Enqueue(j)
           \/ \E h \in Handlers, e \in queue : Claim(h, e)
           \/ \E e \in queue : ClaimLost(e)
           \/ \E h \in Handlers, e \in pel : Reclaim(h, e)
           \/ \E e \in pel : ReclaimGone(e)
           \/ \E p \in Pipelines : LockExpire(p)
           \/ \E j \in Jobs, n \in Copies : MoveDue(j, n)
           \/ \E j \in Jobs : \/ Trim(j) \/ SweepScan(j) \/ SweepRead(j)
                              \/ SweepMark(j) \/ SweepFault(j)
    PROVE  RowInv'
<1> USE QueueAssumption
    DEF SerialInv, RowInv, RowMatchesLive, GuardedOpen, RecordedFirst, BadPrefixFails, Published
<1>1. ASSUME NEW j \in Jobs, Enqueue(j) PROVE RowInv'
  <2>1. /\ UNCHANGED <<pc, entry, verdict, missed>> /\ live[j] = "absent"
        /\ live'[j] = "queued"
        /\ \A k \in Jobs : k # j => live'[k] = live[k] /\ row'[k] = row[k]
    BY <1>1 DEF Enqueue, handlerVars, ghosts, TypeOK
  <2>2. \A h \in Handlers : Active(h) => JobOf(h) # j /\ JobOf(h) \in Jobs
    BY <2>1, ActiveEntry DEF DeliveryInv, AbsentNowhere
  <2> QED
    BY <2>1, <2>2 DEF JobOf, Active
<1>2. ASSUME NEW h \in Handlers, NEW e \in queue \cup pel, Claim(h, e) \/ Reclaim(h, e)
      PROVE  RowInv'
  <2>1. /\ UNCHANGED <<live, row, missed>> /\ e \in Entries /\ Handle(h, e)
    BY <1>2 DEF Claim, Reclaim, redisVars, ghosts, TypeOK
  <2>2. /\ \A g \in Handlers : g # h => /\ pc'[g] = pc[g] /\ entry'[g] = entry[g]
                                        /\ verdict'[g] = verdict[g]
        /\ entry'[h] = e
        /\ pc'[h] \in {"ack", "fence", "guard"}
        /\ pc'[h] # "ack" => (pc'[h] = "fence" <=> e[1] \in BadPrefix)
        /\ pc'[h] = "fence" => verdict'[h] = "failed"
    BY <2>1 DEF Handle, TypeOK
  <2> QED
    BY <2>1, <2>2 DEF JobOf, Active
<1>3. ASSUME \/ \E e \in queue : ClaimLost(e)
             \/ \E e \in pel : ReclaimGone(e)
             \/ \E p \in Pipelines : LockExpire(p)
             \/ \E j \in Jobs, n \in Copies : MoveDue(j, n)
             \/ \E j \in Jobs : Trim(j) \/ SweepScan(j) \/ SweepRead(j) \/ SweepFault(j)
      PROVE  RowInv'
  <2>1. UNCHANGED <<pc, entry, verdict, live, row, missed>>
    BY <1>3 DEF ClaimLost, ReclaimGone, LockExpire, MoveDue, Trim, SweepScan, SweepRead,
       SweepFault, redisVars, handlerVars, ghosts
  <2> QED
    BY <2>1 DEF JobOf, Active
<1>4. ASSUME NEW j \in Jobs, SweepMark(j) PROVE RowInv'
  <2>1. UNCHANGED <<pc, entry, verdict, row, missed>>
    BY <1>4 DEF SweepMark, handlerVars, ghosts
  <2>2. /\ live'[j] = "abandoned"
        /\ \A k \in Jobs : k # j => live'[k] = live[k]
    BY <1>4 DEF SweepMark, TypeOK
  <2>3. \A h \in Handlers : Active(h) => JobOf(h) \in Jobs
    BY ActiveEntry
  <2> QED
    BY <2>1, <2>2, <2>3 DEF JobOf, Active
<1> QED
  BY <1>1, <1>2, <1>3, <1>4

\* What a handler's step does to its own job, when the guard can be read.
LEMMA RowOwn ==
    ASSUME "guard" \notin FaultAt, SerialInv, RowInv, NEW h \in Handlers, StepOf(h),
           NEW j \in Jobs, j = JobOf(h)
    PROVE  /\ live'[j] \in Published /\ row'[j] # "none" /\ j \notin missed' => row'[j] = live'[j]
           /\ pc'[h] \notin {"idle", "guard", "release", "ack"} /\ j \notin BadPrefix
                  => live'[j] \notin Published
           /\ pc'[h] = "publish" => row'[j] \in {"none", verdict'[h]} \/ j \in missed'
           /\ j \in BadPrefix => live'[j] # "completed"
           /\ pc'[h] # "idle" /\ j \in BadPrefix =>
                  /\ pc'[h] \in {"fence", "record", "publish", "release", "ack"}
                  /\ pc'[h] \in {"fence", "record", "publish"} => verdict'[h] = "failed"
<1>1. Active(h)
  BY StepLocals DEF SerialInv
<1> USE <1>1 DEF SerialInv, RowInv, RowMatchesLive, GuardedOpen, RecordedFirst,
                 BadPrefixFails, Published, TypeOK, Active
<1> USE DEF Goto, Return, Finish, redisVars, ghosts
<1>2. CASE Guard(h)
  BY <1>2 DEF Guard, IsTerminal, Terminal
<1>3. CASE Count(h) \/ Lock(h) \/ LockBusy(h) \/ Uncount(h) \/ Defer(h)
  BY <1>3 DEF Count, Lock, LockBusy, Uncount, Defer
<1>4. CASE Start(h) \/ Requeue(h)
  BY <1>4 DEF Start, Requeue
<1>5. CASE MarkRunning(h)
  BY <1>5 DEF MarkRunning, UpdateRow
<1>6. CASE \/ \E s \in {"completed", "failed"} : RunEnds(h, s)
           \/ RunConfigRead(h) \/ RunCancelled(h) \/ Retry(h)
  BY <1>6 DEF RunEnds, RunConfigRead, RunCancelled, Retry, AfterRetry
<1>7. CASE Fence(h)
  BY <1>7 DEF Fence
<1>8. CASE Record(h)
  BY <1>8 DEF Record, UpdateRow
<1>9. CASE Publish(h)
  BY <1>9 DEF Publish, PublishEffect
<1>10. CASE Release(h) \/ Ack(h) \/ Heartbeat(h)
  BY <1>10 DEF Release, Ack, Heartbeat
<1>11. CASE FaultReturn(h) \/ Crash(h)
  BY <1>11 DEF FaultReturn, Crash
<1>12. CASE FaultApplied(h)
  BY <1>12 DEF FaultApplied, PublishEffect
<1>13. CASE FaultSkip(h)
  BY <1>13 DEF FaultSkip, Fault, AfterRetry
<1>14. CASE FaultCount(h)
  BY <1>14 DEF FaultCount
<1> QED
  BY <1>2, <1>3, <1>4, <1>5, <1>6, <1>7, <1>8, <1>9, <1>10, <1>11, <1>12, <1>13, <1>14
  DEF StepOf, HandlerStep

\* A handler's step keeps the invariant: its own job by RowOwn, the others'
\* because nobody else works on that job.
LEMMA RowHandler ==
    ASSUME "guard" \notin FaultAt, SerialInv, RowInv, NEW h \in Handlers, StepOf(h)
    PROVE  RowInv'
<1>1. Active(h) /\ JobOf(h) \in Jobs
  BY StepLocals, ActiveEntry DEF SerialInv
<1>2. pc'[h] # "idle" => JobOf(h)' = JobOf(h)
  BY StepLocals DEF SerialInv, JobOf
<1>3. ASSUME NEW g \in Handlers, g # h, pc'[g] # "idle"
      PROVE  /\ Active(g) /\ JobOf(g)' = JobOf(g) /\ JobOf(g) \in Jobs /\ JobOf(g) # JobOf(h)
             /\ pc'[g] = pc[g] /\ verdict'[g] = verdict[g]
             /\ live'[JobOf(g)] = live[JobOf(g)] /\ row'[JobOf(g)] = row[JobOf(g)]
             /\ JobOf(g) \in missed' <=> JobOf(g) \in missed
  <2>1. Active(g) /\ pc'[g] = pc[g] /\ verdict'[g] = verdict[g]
    BY <1>3, StepLocals DEF SerialInv, Active
  <2>2. /\ JobOf(g)' = JobOf(g) /\ JobOf(g) \in Jobs /\ JobOf(g) # JobOf(h)
        /\ live'[JobOf(g)] = live[JobOf(g)] /\ row'[JobOf(g)] = row[JobOf(g)]
    BY <1>3, <2>1, OthersApart
  <2>3. JobOf(g) \in missed' <=> JobOf(g) \in missed
    BY <2>2, StepRecords DEF SerialInv
  <2> QED
    BY <2>1, <2>2, <2>3
<1>4. RowMatchesLive'
  <2>1. ASSUME NEW k \in Jobs, k # JobOf(h)
        PROVE  live'[k] = live[k] /\ row'[k] = row[k] /\ (k \in missed' <=> k \in missed)
    BY <2>1, StepRecords DEF SerialInv
  <2> QED
    BY <1>1, <2>1, RowOwn DEF RowInv, RowMatchesLive, Published
<1>5. GuardedOpen'
  BY <1>1, <1>2, <1>3, RowOwn DEF RowInv, GuardedOpen, Active
<1>6. RecordedFirst'
  BY <1>1, <1>2, <1>3, RowOwn DEF RowInv, RecordedFirst, Active
<1>7. BadPrefixFails'
  <2>1. \A j \in BadPrefix : live'[j] # "completed"
    <3>1. ASSUME NEW k \in Jobs, k # JobOf(h) PROVE live'[k] = live[k]
      BY <3>1, StepRecords DEF SerialInv
    <3> QED
      BY <1>1, <3>1, RowOwn, QueueAssumption DEF RowInv, BadPrefixFails
  <2> QED
    BY <1>1, <1>2, <1>3, <2>1, RowOwn DEF RowInv, BadPrefixFails, Active
<1> QED
  BY <1>4, <1>5, <1>6, <1>7 DEF RowInv

\* Every step keeps RowInv.
LEMMA RowStep ==
    ASSUME "guard" \notin FaultAt, SerialInv
    PROVE  RowInv /\ [Next]_vars => RowInv'
<1>1. CASE UNCHANGED vars
  BY <1>1 DEF vars, RowInv, RowMatchesLive, GuardedOpen, RecordedFirst, BadPrefixFails,
              Active, JobOf
<1>2. CASE Next
  BY <1>2, RowDeliver, RowHandler, NextCases
<1> QED
  BY <1>1, <1>2

\* mark_finished comes before the live hash, and the guard before any write:
\* with whatever crashes between the two, re-runs, trims, sweeps and failed
\* writes, a terminal status in the live hash is the one in the job's row.
\* Only the failed read of the guard, which lets a settled job run again, and
\* a worker overtaken by its TTLs are excluded.
THEOREM RowAgrees ==
    ASSUME MaxStalls = 0, "guard" \notin FaultAt
    PROVE  Spec => []RowMatchesLive
<1>1. SerialInv /\ RowInv /\ [Next]_vars => (SerialInv /\ RowInv)'
  BY SerialStep, RowStep
<1>2. Init => SerialInv /\ RowInv
  BY SerialInit, RowInit
<1>3. SerialInv /\ RowInv => RowMatchesLive
  BY DEF RowInv
<1> QED
  BY <1>1, <1>2, <1>3, PTL DEF Spec
-----------------------------------------------------------------------------
(* Refinement.  Three facts about locks connect the two levels: a handler   *)
(* locks within its attempts, so a lock never bears the fence of a handler  *)
(* that has given up or has a bad prefix; and, by SerialInv, at most one    *)
(* handler works on a job, so that one decides whether the job is Held.     *)

\* What a lock bears was taken within the attempts by a job with a good prefix.
LockWithinAttempts ==
    \A p \in Pipelines :
        lock[p] # Free => lock[p][2] <= MaxAttempts /\ lock[p][1] \notin BadPrefix

\* And so will what it is about to bear; who gives up was counted beyond.
LockingWithinAttempts ==
    \A h \in Handlers :
        pc[h] = "lock" => att[h] <= MaxAttempts /\ JobOf(h) \notin BadPrefix

FenceInv == LockWithinAttempts /\ LockingWithinAttempts

\* The invariants the step simulation uses.
RefineInv == SerialInv /\ BoundInv /\ RowInv /\ FenceInv /\ Untrimmed

\* The handler is the one that makes its job Held.
HeldBy(h) == Owning(h) /\ lock[PipeOf(h)] = FenceOf(h)

\* No lock is taken.
LEMMA FenceInit == Init => FenceInv
  BY DEF Init, FenceInv, LockWithinAttempts, LockingWithinAttempts

\* A handler's step leaves the locks alone, takes the vacant lock of its
\* pipeline, or releases it under its own fence.
LEMMA StepLock ==
    ASSUME TypeOK, NEW h \in Handlers, StepOf(h)
    PROVE  \/ lock' = lock
           \/ /\ pc[h] = "lock" /\ lock[PipeOf(h)] = Free
              /\ lock' = [lock EXCEPT ![PipeOf(h)] = FenceOf(h)]
           \/ lock' = ReleaseLock(h)
<1>1. CASE HandlerStep(h) \/ Heartbeat(h)
  BY <1>1 DEF HandlerStep, Guard, Count, Lock, LockBusy, Uncount, Defer, Start, MarkRunning,
     RunEnds, RunConfigRead, RunCancelled, Retry, Requeue, Fence, Record, Publish, Release,
     Ack, Heartbeat, Vacant, redisVars
<1>2. CASE FaultReturn(h) \/ FaultApplied(h) \/ FaultSkip(h) \/ FaultCount(h) \/ Crash(h)
  BY <1>2 DEF FaultReturn, FaultApplied, FaultSkip, FaultCount, Crash, Vacant, redisVars
<1> QED
  BY <1>1, <1>2 DEF StepOf

\* Every step keeps FenceInv: the count decides between locking and giving up.
LEMMA FenceStep ==
    ASSUME TypeOK, BadPrefixFails, FenceInv, Next
    PROVE  FenceInv'
<1> USE DEF FenceInv, LockWithinAttempts, LockingWithinAttempts
<1>1. ASSUME NEW h \in Handlers, StepOf(h) PROVE FenceInv'
  <2>1. Active(h) /\ PipeOf(h) \in Pipelines
    BY <1>1, StepLocals, ActiveEntry
  <2>2. LockWithinAttempts'
    <3>1. CASE lock' = lock
      BY <3>1
    <3>2. CASE /\ pc[h] = "lock" /\ lock[PipeOf(h)] = Free
               /\ lock' = [lock EXCEPT ![PipeOf(h)] = FenceOf(h)]
      BY <2>1, <3>2 DEF FenceOf, TypeOK
    <3>3. CASE lock' = ReleaseLock(h)
      BY <2>1, <3>3 DEF ReleaseLock, TypeOK
    <3> QED
      BY <1>1, <3>1, <3>2, <3>3, StepLock
  <2>3. ASSUME NEW g \in Handlers, pc'[g] = "lock"
        PROVE  att'[g] <= MaxAttempts /\ JobOf(g)' \notin BadPrefix
    <3>1. CASE g # h
      BY <1>1, <2>3, <3>1, StepLocals DEF JobOf
    <3>2. CASE g = h
      <4>1. pc[h] = "count" /\ JobOf(h)' = JobOf(h) /\ (Count(h) \/ FaultCount(h))
        <5> USE <2>3, <3>2 DEF Goto, Return, Finish, TypeOK
        <5>1. ~Heartbeat(h) /\ ~FaultReturn(h) /\ ~FaultApplied(h) /\ ~FaultSkip(h) /\ ~Crash(h)
          BY <2>1 DEF Heartbeat, FaultReturn, FaultApplied, FaultSkip, Crash, AfterRetry
        <5>2. HandlerStep(h) => Count(h)
          BY DEF HandlerStep, Guard, Lock, LockBusy, Uncount, Defer, Start, MarkRunning,
             RunEnds, RunConfigRead, RunCancelled, Retry, AfterRetry, Requeue, Fence, Record,
             Publish, Release, Ack
        <5> QED
          BY <1>1, <5>1, <5>2, StepLocals DEF StepOf, Count, FaultCount, JobOf
      <4>2. JobOf(h) \notin BadPrefix
        BY <2>1, <4>1 DEF BadPrefixFails
      <4>3. att'[h] <= MaxAttempts
        <5>1. CASE FaultCount(h)
          BY <5>1, QueueAssumption DEF FaultCount, TypeOK
        <5>2. CASE Count(h)
          <6>1. Capped(attempts[JobOf(h)] + 1) \in Int
            BY <2>1, CappedType, ActiveEntry DEF TypeOK
          <6>2. PICK n \in Int :
                    /\ att' = [att EXCEPT ![h] = n]
                    /\ pc' = [pc EXCEPT ![h] = IF GivesUp(n) THEN "fence" ELSE "lock"]
            BY <5>2, <6>1 DEF Count
          <6>3. ~(n > MaxAttempts)
            BY <2>3, <3>2, <6>2 DEF GivesUp, TypeOK
          <6> QED
            BY <6>2, <6>3, QueueAssumption DEF TypeOK
        <5> QED
          BY <4>1, <5>1, <5>2
      <4> QED
        BY <3>2, <4>1, <4>2, <4>3
    <3> QED
      BY <3>1, <3>2
  <2> QED
    BY <2>2, <2>3
<1>2. ASSUME NEW h \in Handlers, NEW e \in queue \cup pel, Claim(h, e) \/ Reclaim(h, e)
      PROVE  FenceInv'
  <2>1. lock' = lock /\ Handle(h, e)
    BY <1>2 DEF Claim, Reclaim, redisVars
  <2>2. /\ pc'[h] # "lock"
        /\ \A g \in Handlers : g # h => /\ pc'[g] = pc[g] /\ entry'[g] = entry[g]
                                        /\ att'[g] = att[g]
    BY <2>1 DEF Handle, TypeOK
  <2> QED
    BY <2>1, <2>2 DEF JobOf
<1>3. ASSUME \/ \E j \in Jobs : Enqueue(j)
             \/ \E e \in queue : ClaimLost(e)
             \/ \E e \in pel : ReclaimGone(e)
             \/ \E p \in Pipelines : LockExpire(p)
             \/ \E j \in Jobs, n \in Copies : MoveDue(j, n)
             \/ \E j \in Jobs : \/ Trim(j) \/ SweepScan(j) \/ SweepRead(j)
                                \/ SweepMark(j) \/ SweepFault(j)
      PROVE  FenceInv'
  <2>1. UNCHANGED <<pc, entry, att>>
    BY <1>3 DEF Enqueue, ClaimLost, ReclaimGone, LockExpire, MoveDue, Trim, SweepScan,
       SweepRead, SweepMark, SweepFault, redisVars, handlerVars
  <2>2. \A p \in Pipelines : lock'[p] = lock[p] \/ lock'[p] = Free
    BY <1>3 DEF Enqueue, ClaimLost, ReclaimGone, LockExpire, MoveDue, Trim, SweepScan,
       SweepRead, SweepMark, SweepFault, redisVars, TypeOK
  <2> QED
    BY <2>1, <2>2 DEF JobOf
<1> QED
  BY <1>1, <1>2, <1>3, NextCases

\* The invariants of the simulation hold in every state.
LEMMA RefineStep ==
    ASSUME MaxStalls = 0, Trimming = FALSE, "guard" \notin FaultAt, "count" \notin FaultAt
    PROVE  RefineInv /\ [Next]_vars => RefineInv'
<1> SUFFICES ASSUME RefineInv, [Next]_vars PROVE RefineInv'
  OBVIOUS
<1>1. SerialInv' /\ RowInv'
  BY SerialStep, RowStep DEF RefineInv
<1>2. CASE UNCHANGED vars
  <2>1. BoundInv'
    BY <1>2, BoundQuiet DEF vars, RefineInv, SerialInv
  <2>2. FenceInv'
    BY <1>2 DEF vars, RefineInv, FenceInv, LockWithinAttempts, LockingWithinAttempts, JobOf
  <2>3. Untrimmed'
    BY <1>2 DEF vars, RefineInv, Untrimmed
  <2> QED
    BY <1>1, <2>1, <2>2, <2>3 DEF RefineInv
<1>3. CASE Next
  BY <1>1, <1>3, BoundStep, FenceStep, UntrimmedStep DEF RefineInv, SerialInv, RowInv
<1> QED
  BY <1>2, <1>3

\* One handler at most works on a job: the job is Held iff by that handler.
LEMMA HeldByOne ==
    ASSUME SerialInv, NEW h \in Handlers, Active(h), NEW j \in Jobs, j = JobOf(h)
    PROVE  Held(j) <=> HeldBy(h)
  BY DEF Held, HeldBy, Owning, Active, SerialInv, DeliveryInv, OneHandler, PipeOf

\* A job nobody works on is not Held.
LEMMA HeldByNone ==
    ASSUME NEW j \in Jobs, \A h \in Handlers : Active(h) => JobOf(h) # j
    PROVE  ~Held(j)
  BY DEF Held, Owning, Active

\* A handler's step leaves it open to the others whether they hold.
LEMMA HeldOthers ==
    ASSUME SerialInv, NEW h \in Handlers, StepOf(h), NEW j \in Jobs, j # JobOf(h)
    PROVE  Held(j)' <=> Held(j)
<1>1. Active(h) /\ PipeOf(h) \in Pipelines /\ FenceOf(h) # Free
  BY StepLocals, ActiveEntry DEF SerialInv
<1>2. ASSUME NEW g \in Handlers, g # h, Owning(g), JobOf(g) = j
      PROVE  (lock[PipelineOf[j]] = FenceOf(g)) <=> (lock'[PipelineOf[j]] = FenceOf(g))
  <2>1. Active(g) /\ PipelineOf[j] \in Pipelines /\ FenceOf(g) # Free
    BY <1>2, ActiveEntry, QueueAssumption DEF Owning, Active, SerialInv
  <2>2. FenceOf(g) # FenceOf(h)
    BY <1>2 DEF FenceOf
  <2>3. CASE lock' = lock
    BY <2>3
  <2>4. CASE /\ lock[PipeOf(h)] = Free
             /\ lock' = [lock EXCEPT ![PipeOf(h)] = FenceOf(h)]
    BY <1>1, <2>1, <2>2, <2>4 DEF SerialInv, TypeOK
  <2>5. CASE lock' = ReleaseLock(h)
    BY <1>1, <2>1, <2>2, <2>5 DEF ReleaseLock, SerialInv, TypeOK
  <2> QED
    BY <2>3, <2>4, <2>5, StepLock DEF SerialInv
<1>3. \A g \in Handlers : g # h => /\ (Owning(g)' <=> Owning(g)) /\ JobOf(g)' = JobOf(g)
                                   /\ FenceOf(g)' = FenceOf(g)
  BY StepLocals DEF SerialInv, Owning, JobOf, FenceOf
<1>4. Owning(h)' => JobOf(h)' # j
  BY StepLocals DEF SerialInv, Owning, JobOf
<1> QED
  BY <1>2, <1>3, <1>4 DEF Held, Owning

\* The mapped status of a job is all that a step of one handler changes.
LEMMA StatusOthers ==
    ASSUME SerialInv, NEW h \in Handlers, StepOf(h), NEW j \in Jobs, j # JobOf(h)
    PROVE  Status(j)' = Status(j)
  BY HeldOthers, StepRecords DEF SerialInv, Status

\* How the abstract state changes when one job's status does.
LEMMA StatusChange ==
    ASSUME NEW j \in Jobs, NEW s, Status(j)' = s,
           \A k \in Jobs : k # j => Status(k)' = Status(k)
    PROVE  [k \in Jobs |-> Status(k)]' = [[k \in Jobs |-> Status(k)] EXCEPT ![j] = s]
  OBVIOUS

\* try_lock succeeds: the job waited, had attempts left, and no job of its
\* pipeline was running.
LEMMA RefineLock ==
    ASSUME RefineInv, NEW h \in Handlers, Lock(h)
    PROVE  Lifecycle!Next
<1>1. Active(h) /\ JobOf(h) \in Jobs /\ PipeOf(h) \in Pipelines /\ StepOf(h)
  BY ActiveEntry DEF RefineInv, SerialInv, Lock, Active, StepOf, HandlerStep
<1> PICK j \in Jobs : j = JobOf(h)
  BY <1>1
<1>2. lock[PipelineOf[j]] = Free
  BY DEF Lock, Vacant, PipeOf
<1>3. \A k \in Jobs : PipelineOf[k] = PipelineOf[j] => ~Held(k)
  <2>1. \A g \in Handlers : Active(g) => FenceOf(g) # Free
    BY ActiveEntry DEF RefineInv, SerialInv
  <2> QED
    BY <1>2, <2>1 DEF Held, Owning, Active
<1>4. live[j] # "absent" /\ live[j] \notin {"completed", "failed"}
  <2>1. j \notin BadPrefix
    BY <1>1 DEF RefineInv, RowInv, BadPrefixFails, Lock
  <2> QED
    BY <1>1, <2>1 DEF RefineInv, RowInv, GuardedOpen, Published, SerialInv, DeliveryInv,
                      AbsentNowhere, Lock
<1>5. Status(j) = "waiting" /\ \A k \in Jobs : PipelineOf[k] = PipelineOf[j] =>
                                                    Status(k) # "running"
  <2>1. Status(j) = "waiting"
    BY <1>3, <1>4 DEF Status
  <2>2. ASSUME NEW k \in Jobs, PipelineOf[k] = PipelineOf[j] PROVE Status(k) # "running"
    BY <1>3, <2>2 DEF Status
  <2> QED
    BY <2>1, <2>2
<1>6. Status(j)' = "running"
  <2>1. live' = live /\ pc'[h] = "start" /\ entry' = entry /\ att' = att
        /\ lock' = [lock EXCEPT ![PipeOf(h)] = FenceOf(h)]
    BY DEF Lock, Goto, RefineInv, SerialInv, TypeOK
  <2>2. Held(j)'
    BY <1>1, <2>1 DEF Held, Owning, PipeOf, FenceOf, JobOf, RefineInv, SerialInv, TypeOK
  <2> QED
    BY <1>4, <2>1, <2>2 DEF Status
<1>7. runs[j] < MaxAttempts /\ runs' = [runs EXCEPT ![j] = @ + 1]
  <2>1. runs' = [runs EXCEPT ![j] = @ + 1]
    BY DEF Lock
  <2>2. runs[j] + Cardinality(Locking(j)) <= MaxAttempts /\ runs[j] \in Nat
    BY DEF RefineInv, BoundInv, SerialInv, TypeOK
  <2>3. Cardinality(Locking(j)) # 0 /\ Cardinality(Locking(j)) \in Nat
    BY WaitingFinite, FS_EmptySet DEF Locking, Lock
  <2> QED
    BY <2>1, <2>2, <2>3, QueueAssumption
<1>8. [k \in Jobs |-> Status(k)]' = [[k \in Jobs |-> Status(k)] EXCEPT ![j] = "running"]
  BY <1>1, <1>6, StatusOthers, StatusChange DEF RefineInv
<1>9. Lifecycle!Begin(j)
  BY <1>5, <1>7, <1>8 DEF Lifecycle!Begin
<1> QED
  BY <1>9 DEF Lifecycle!Next

\* The live hash receives the result: the job ends, or a job with a bad prefix
\* that had failed fails again.
LEMMA RefinePublish ==
    ASSUME RefineInv, NEW h \in Handlers, StepOf(h), pc[h] = "publish", PublishEffect(h),
           runs' = runs
    PROVE  Lifecycle!Next \/ UNCHANGED <<[j \in Jobs |-> Status(j)], runs>>
<1>1. Active(h) /\ JobOf(h) \in Jobs /\ verdict[h] \in {"completed", "failed"}
  BY ActiveEntry DEF RefineInv, SerialInv, TypeOK, Active
<1> PICK j \in Jobs : j = JobOf(h)
  BY <1>1
<1>2. Status(j)' = verdict[h]
  BY <1>1 DEF PublishEffect, Status, RefineInv, SerialInv, TypeOK
<1>3. [k \in Jobs |-> Status(k)]' = [[k \in Jobs |-> Status(k)] EXCEPT ![j] = verdict[h]]
  BY <1>2, StatusOthers, StatusChange DEF RefineInv
<1>4. live[j] # "absent"
  BY <1>1 DEF RefineInv, SerialInv, DeliveryInv, AbsentNowhere
<1>5. CASE live[j] \notin {"completed", "failed"}
  <2>1. Status(j) \in {"waiting", "running"}
    BY <1>4, <1>5 DEF Status
  <2>2. Lifecycle!Finish(j, verdict[h])
    BY <1>3, <2>1 DEF Lifecycle!Finish
  <2> QED
    BY <1>1, <2>2 DEF Lifecycle!Next, Lifecycle!Results
<1>6. CASE live[j] \in {"completed", "failed"}
  <2>1. j \in BadPrefix
    BY <1>6 DEF RefineInv, RowInv, GuardedOpen, Published
  <2>2. verdict[h] = "failed" /\ live[j] = "failed"
    BY <1>1, <1>6, <2>1 DEF RefineInv, RowInv, BadPrefixFails
  <2>3. Status(j) = verdict[h]
    BY <2>2 DEF Status
  <2>4. \A k \in Jobs : Status(k)' = Status(k)
    BY <1>2, <2>3, StatusOthers DEF RefineInv
  <2> QED
    BY <2>4
<1> QED
  BY <1>5, <1>6

\* Any other step of a handler leaves a settled job settled, starts nothing,
\* and can only make its job no longer Held.
LEMMA StepQuiet ==
    ASSUME RefineInv, NEW h \in Handlers, StepOf(h), ~Lock(h),
           ~(pc[h] = "publish" /\ PublishEffect(h)), NEW j \in Jobs, j = JobOf(h)
    PROVE  /\ runs' = runs
           /\ \/ live'[j] = live[j]
              \/ {live[j], live'[j]} \cap {"absent", "completed", "failed"} = {}
           /\ HeldBy(h)' => HeldBy(h)
<1>1. Active(h) /\ j \in Jobs /\ PipeOf(h) \in Pipelines
  BY StepLocals, ActiveEntry DEF RefineInv, SerialInv
<1>2. runs' = runs
  <2> USE DEF ghosts
  <2>1. CASE HandlerStep(h) \/ Heartbeat(h)
    BY <2>1 DEF HandlerStep, Guard, Count, LockBusy, Uncount, Defer, Start, MarkRunning,
       RunEnds, RunConfigRead, RunCancelled, Retry, Requeue, Fence, Record, Publish, Release,
       Ack, Heartbeat
  <2>2. CASE FaultReturn(h) \/ FaultApplied(h) \/ FaultSkip(h) \/ FaultCount(h) \/ Crash(h)
    BY <2>2 DEF FaultReturn, FaultApplied, FaultSkip, FaultCount, Crash
  <2> QED
    BY <2>1, <2>2 DEF StepOf
<1>3. \/ live'[j] = live[j]
      \/ pc[h] \in {"start", "requeue"} /\ live'[j] \in {"running", "queued"}
  <2> USE DEF redisVars, RefineInv, SerialInv, TypeOK
  <2>1. CASE HandlerStep(h) \/ Heartbeat(h)
    BY <1>1, <2>1 DEF HandlerStep, Guard, Count, LockBusy, Uncount, Defer, Start, MarkRunning,
       RunEnds, RunConfigRead, RunCancelled, Retry, Requeue, Fence, Record, Publish, Release,
       Ack, Heartbeat
  <2>2. CASE FaultReturn(h) \/ FaultApplied(h) \/ FaultSkip(h) \/ FaultCount(h) \/ Crash(h)
    BY <2>2 DEF FaultReturn, FaultApplied, FaultSkip, FaultCount, Crash
  <2> QED
    BY <2>1, <2>2 DEF StepOf
<1>4. pc[h] \in {"start", "requeue"} => live[j] \notin {"absent", "completed", "failed"}
  <2>1. pc[h] \in {"start", "requeue"} => j \notin BadPrefix
    BY <1>1 DEF RefineInv, RowInv, BadPrefixFails
  <2> QED
    BY <1>1, <2>1 DEF RefineInv, RowInv, GuardedOpen, Published, SerialInv, DeliveryInv,
                      AbsentNowhere
<1>5. ASSUME HeldBy(h)' PROVE HeldBy(h)
  <2>1. pc'[h] # "idle" /\ entry'[h] = entry[h] /\ PipeOf(h)' = PipeOf(h) /\ JobOf(h)' = JobOf(h)
    BY <1>5, StepLocals DEF HeldBy, Owning, JobOf, PipeOf, RefineInv, SerialInv
  <2>2. Owning(h)' /\ lock'[PipeOf(h)] = FenceOf(h)'
    BY <1>5, <2>1 DEF HeldBy
  <2>3. ASSUME pc[h] = "count" PROVE FALSE
    <3>1. Count(h)
      BY <2>1, <2>2, <2>3 DEF StepOf, HandlerStep, Guard, LockBusy, Uncount, Defer, Start,
         MarkRunning, RunEnds, RunConfigRead, RunCancelled, Retry, Requeue, Fence, Record,
         Publish, Release, Ack, Heartbeat, FaultReturn, FaultApplied, FaultSkip, FaultCount,
         Crash, Return, Owning, RefineInv, SerialInv, TypeOK
    <3>2. Capped(attempts[JobOf(h)] + 1) \in Int
      BY <1>1, CappedType DEF RefineInv, SerialInv, TypeOK
    <3>3. PICK n \in Int :
              /\ att' = [att EXCEPT ![h] = n] /\ lock' = lock
              /\ pc' = [pc EXCEPT ![h] = IF GivesUp(n) THEN "fence" ELSE "lock"]
      BY <3>1, <3>2 DEF Count
    <3>4. n > MaxAttempts /\ att'[h] = n
      BY <2>2, <3>3 DEF Owning, GivesUp, RefineInv, SerialInv, TypeOK
    <3>5. lock[PipeOf(h)] # Free /\ lock[PipeOf(h)][2] = n
      BY <1>1, <2>1, <2>2, <3>3, <3>4, ActiveEntry, QueueAssumption DEF FenceOf, Free, JobOf
    <3> QED
      BY <1>1, <3>4, <3>5, QueueAssumption DEF RefineInv, FenceInv, LockWithinAttempts
  <2>4. CASE pc[h] # "count"
    <3>1. Owning(h) /\ att'[h] = att[h]
      <4> USE <2>1, <2>2, <2>4 DEF Owning, Goto, Return, Finish, RefineInv, SerialInv, TypeOK
      <4>1. CASE HandlerStep(h) \/ Heartbeat(h)
        BY <4>1 DEF HandlerStep, Guard, Count, LockBusy, Uncount, Defer, Start, MarkRunning,
           RunEnds, RunConfigRead, RunCancelled, Retry, AfterRetry, Requeue, Fence, Record,
           Publish, Release, Ack, Heartbeat
      <4>2. CASE FaultReturn(h) \/ FaultApplied(h) \/ FaultSkip(h) \/ FaultCount(h) \/ Crash(h)
        BY <4>2 DEF FaultReturn, FaultApplied, FaultSkip, FaultCount, Crash, AfterRetry
      <4> QED
        BY <4>1, <4>2 DEF StepOf
    <3>2. FenceOf(h)' = FenceOf(h)
      BY <2>1, <3>1 DEF FenceOf
    <3>3. lock[PipeOf(h)] = FenceOf(h)
      <4>1. pc[h] # "lock"
        BY <3>1 DEF Owning
      <4>2. CASE lock' = lock
        BY <2>2, <3>2, <4>2
      <4>3. CASE lock' = ReleaseLock(h)
        BY <2>2, <3>2, <4>3 DEF ReleaseLock, RefineInv, SerialInv, TypeOK
      <4> QED
        BY <4>1, <4>2, <4>3, StepLock DEF RefineInv, SerialInv
    <3> QED
      BY <3>1, <3>3 DEF HeldBy
  <2> QED
    BY <2>3, <2>4
<1> QED
  BY <1>2, <1>3, <1>4, <1>5

\* A handler's step is a step of the lifecycle or changes nothing there.
LEMMA RefineHandler ==
    ASSUME RefineInv, NEW h \in Handlers, StepOf(h)
    PROVE  Lifecycle!Next \/ UNCHANGED <<[j \in Jobs |-> Status(j)], runs>>
<1>1. Active(h) /\ JobOf(h) \in Jobs
  BY StepLocals, ActiveEntry DEF RefineInv, SerialInv
<1> PICK j \in Jobs : j = JobOf(h)
  BY <1>1
<1>2. CASE Lock(h)
  BY <1>2, RefineLock
<1>3. CASE pc[h] = "publish" /\ PublishEffect(h)
  <2>1. runs' = runs
    BY <1>3 DEF StepOf, HandlerStep, Guard, Count, Lock, LockBusy, Uncount, Defer, Start,
       MarkRunning, RunEnds, RunConfigRead, RunCancelled, Retry, Requeue, Fence, Record,
       Publish, Release, Ack, Heartbeat, FaultReturn, FaultApplied, FaultSkip, FaultCount,
       Crash, ghosts
  <2> QED
    BY <1>3, <2>1, RefinePublish
<1>4. CASE ~Lock(h) /\ ~(pc[h] = "publish" /\ PublishEffect(h))
  <2>1. /\ runs' = runs
        /\ \/ live'[j] = live[j]
           \/ {live[j], live'[j]} \cap {"absent", "completed", "failed"} = {}
        /\ HeldBy(h)' => HeldBy(h)
    BY <1>4, StepQuiet
  <2>2. Held(j)' => Held(j)
    <3>1. ASSUME NEW g \in Handlers, Owning(g)', JobOf(g)' = j PROVE g = h
      <4>1. g # h => Active(g) /\ JobOf(g) = j
        BY <3>1, StepLocals DEF Owning, Active, JobOf, RefineInv, SerialInv
      <4> QED
        BY <1>1, <4>1 DEF RefineInv, SerialInv, DeliveryInv, OneHandler
    <3>2. Held(j)' => HeldBy(h)'
      BY <3>1 DEF Held, HeldBy, PipeOf
    <3>3. HeldBy(h) => Held(j)
      BY <1>1, HeldByOne DEF RefineInv
    <3> QED
      BY <2>1, <3>2, <3>3
  <2>3. \/ Status(j)' = Status(j)
        \/ Status(j) = "running" /\ Status(j)' = "waiting"
    BY <2>1, <2>2 DEF Status
  <2>4. CASE Status(j)' = Status(j)
    <3>1. \A k \in Jobs : Status(k)' = Status(k)
      BY <2>4, StatusOthers DEF RefineInv
    <3> QED
      BY <2>1, <3>1
  <2>5. CASE Status(j) = "running" /\ Status(j)' = "waiting"
    <3>1. [k \in Jobs |-> Status(k)]' = [[k \in Jobs |-> Status(k)] EXCEPT ![j] = "waiting"]
      BY <2>5, StatusOthers, StatusChange DEF RefineInv
    <3>2. Lifecycle!Interrupt(j)
      BY <2>1, <2>5, <3>1 DEF Lifecycle!Interrupt
    <3> QED
      BY <3>2 DEF Lifecycle!Next
  <2> QED
    BY <2>3, <2>4, <2>5
<1> QED
  BY <1>2, <1>3, <1>4

\* Handing an entry nobody works on to an idle handler makes nobody a holder:
\* the fence of a bad prefix is on no lock.
LEMMA RefineHandle ==
    ASSUME RefineInv, NEW h \in Handlers, NEW e \in Entries, pc[h] = "idle", Handle(h, e),
           \A g \in Handlers : Active(g) => JobOf(g) # e[1],
           UNCHANGED <<live, lock, runs>>
    PROVE  UNCHANGED <<[j \in Jobs |-> Status(j)], runs>>
<1>1. \A g \in Handlers : g # h => /\ (Owning(g)' <=> Owning(g)) /\ JobOf(g)' = JobOf(g)
                                   /\ FenceOf(g)' = FenceOf(g)
  BY DEF Handle, Owning, JobOf, FenceOf, RefineInv, SerialInv, TypeOK
<1>2. ~Owning(h) /\ JobOf(h)' = e[1] /\ e[1] \in Jobs
  BY DEF Owning, JobOf, Handle, Entries, RefineInv, SerialInv, TypeOK
<1>3. ASSUME Owning(h)' PROVE lock[PipelineOf[e[1]]] # FenceOf(h)'
  <2>1. e[1] \in BadPrefix
    BY <1>3 DEF Handle, Owning, RefineInv, SerialInv, TypeOK
  <2>2. PipelineOf[e[1]] \in Pipelines
    BY <1>2, QueueAssumption
  <2>3. FenceOf(h)' # Free /\ FenceOf(h)'[1] = e[1]
    BY <1>2, QueueAssumption DEF FenceOf, Free
  <2> QED
    BY <2>1, <2>2, <2>3 DEF RefineInv, FenceInv, LockWithinAttempts
<1>4. ASSUME NEW j \in Jobs PROVE Held(j)' <=> Held(j)
  BY <1>1, <1>2, <1>3 DEF Held
<1>5. \A j \in Jobs : Status(j)' = Status(j)
  BY <1>4 DEF Status
<1> QED
  BY <1>5

\* A submission is one; the deliveries, the clocks and the other loops are
\* not visible in the lifecycle.
LEMMA RefineDeliver ==
    ASSUME MaxStalls = 0, RefineInv,
           \/ \E j \in Jobs : Enqueue(j)
           \/ \E h \in Handlers, e \in queue : Claim(h, e)
           \/ \E e \in queue : ClaimLost(e)
           \/ \E h \in Handlers, e \in pel : Reclaim(h, e)
           \/ \E e \in pel : ReclaimGone(e)
           \/ \E p \in Pipelines : LockExpire(p)
           \/ \E j \in Jobs, n \in Copies : MoveDue(j, n)
           \/ \E j \in Jobs : \/ Trim(j) \/ SweepScan(j) \/ SweepRead(j)
                              \/ SweepMark(j) \/ SweepFault(j)
    PROVE  Lifecycle!Next \/ UNCHANGED <<[j \in Jobs |-> Status(j)], runs>>
<1> USE DEF RefineInv
<1>1. ASSUME NEW j \in Jobs, Enqueue(j) PROVE Lifecycle!Next
  <2>1. /\ UNCHANGED <<lock, pc, entry, att, runs>> /\ live[j] = "absent"
        /\ live'[j] = "queued" /\ \A k \in Jobs : k # j => live'[k] = live[k]
    BY <1>1 DEF Enqueue, handlerVars, ghosts, SerialInv, TypeOK
  <2>2. \A k \in Jobs : Held(k)' <=> Held(k)
    BY <2>1 DEF Held, Owning, JobOf, FenceOf
  <2>3. ~Held(j)
    BY <2>1, HeldByNone DEF SerialInv, DeliveryInv, AbsentNowhere
  <2>4. Status(j) = "absent" /\ Status(j)' = "waiting"
    BY <2>1, <2>2, <2>3 DEF Status
  <2>5. \A k \in Jobs : k # j => Status(k)' = Status(k)
    BY <2>1, <2>2 DEF Status
  <2>6. [k \in Jobs |-> Status(k)]' = [[k \in Jobs |-> Status(k)] EXCEPT ![j] = "waiting"]
    BY <2>4, <2>5, StatusChange
  <2>7. Lifecycle!Submit(j)
    BY <2>1, <2>4, <2>6 DEF Lifecycle!Submit
  <2> QED
    BY <2>7 DEF Lifecycle!Next
<1>2. ASSUME NEW h \in Handlers, NEW e \in queue, Claim(h, e)
      PROVE  UNCHANGED <<[j \in Jobs |-> Status(j)], runs>>
  <2>1. \A g \in Handlers : Active(g) => JobOf(g) # e[1]
    BY DEF SerialInv, DeliveryInv, HandledOnce
  <2> QED
    BY <1>2, <2>1, RefineHandle DEF Claim, ghosts, SerialInv, TypeOK
<1>3. ASSUME NEW h \in Handlers, NEW e \in pel, Reclaim(h, e)
      PROVE  UNCHANGED <<[j \in Jobs |-> Status(j)], runs>>
  <2>1. \A g \in Handlers : entry[g] # e
    BY <1>3 DEF Reclaim, SerialInv, TypeOK
  <2>2. \A g \in Handlers : Active(g) => JobOf(g) # e[1]
    BY <2>1 DEF SerialInv, DeliveryInv, HandledOnce
  <2> QED
    BY <1>3, <2>2, RefineHandle DEF Reclaim, redisVars, ghosts, SerialInv, TypeOK
<1>4. ASSUME NEW p \in Pipelines, LockExpire(p)
      PROVE  UNCHANGED <<[j \in Jobs |-> Status(j)], runs>>
  <2>1. /\ UNCHANGED <<pc, entry, att, live, runs>>
        /\ ~\E h \in Handlers : Owning(h) /\ FenceOf(h) = lock[p]
        /\ lock' = [lock EXCEPT ![p] = Free]
    BY <1>4 DEF LockExpire, handlerVars, ghosts, SerialInv, TypeOK
  <2>2. ASSUME NEW j \in Jobs PROVE Held(j)' <=> Held(j)
    <3>1. ASSUME NEW g \in Handlers, Owning(g), JobOf(g) = j
          PROVE  (lock[PipelineOf[j]] = FenceOf(g)) <=> (lock'[PipelineOf[j]] = FenceOf(g))
      <4>1. PipelineOf[j] \in Pipelines /\ FenceOf(g) # Free
        BY <3>1, ActiveEntry, QueueAssumption DEF Owning, Active, SerialInv
      <4> QED
        BY <2>1, <3>1, <4>1 DEF SerialInv, TypeOK
    <3>2. \A g \in Handlers : /\ Owning(g)' <=> Owning(g)
                              /\ JobOf(g)' = JobOf(g) /\ FenceOf(g)' = FenceOf(g)
      BY <2>1 DEF Owning, JobOf, FenceOf
    <3> QED
      BY <3>1, <3>2 DEF Held
  <2>3. \A j \in Jobs : Status(j)' = Status(j)
    BY <2>1, <2>2 DEF Status
  <2> QED
    BY <2>1, <2>3
<1>5. ASSUME \/ \E e \in queue : ClaimLost(e)
             \/ \E e \in pel : ReclaimGone(e)
             \/ \E j \in Jobs, n \in Copies : MoveDue(j, n)
             \/ \E j \in Jobs : \/ Trim(j) \/ SweepScan(j) \/ SweepRead(j)
                                \/ SweepMark(j) \/ SweepFault(j)
      PROVE  UNCHANGED <<[j \in Jobs |-> Status(j)], runs>>
  <2>1. UNCHANGED <<lock, pc, entry, att, live, runs>>
    BY <1>5 DEF ClaimLost, ReclaimGone, MoveDue, Trim, SweepScan, SweepRead, SweepMark,
       SweepFault, redisVars, handlerVars, ghosts, Untrimmed
  <2>2. \A j \in Jobs : Status(j)' = Status(j)
    BY <2>1 DEF Status, Held, Owning, JobOf, FenceOf
  <2> QED
    BY <2>1, <2>2
<1> QED
  BY <1>1, <1>2, <1>3, <1>4, <1>5

\* The queue implements the life of a job as JobLifecycle states it: runs
\* serialized per pipeline and bounded, one result that never changes, no run
\* after it.  Assumed are what the run assumes: no live worker is overtaken,
\* nothing is trimmed, the guard's HGET and the HINCRBY do not fail.
THEOREM ImplementsLifecycle ==
    ASSUME MaxStalls = 0, Trimming = FALSE, "guard" \notin FaultAt, "count" \notin FaultAt
    PROVE  Spec => Implements
<1>1. Init => RefineInv
  BY SerialInit, BoundInit, RowInit, FenceInit, DropInit DEF RefineInv, DropInv
<1>2. RefineInv /\ [Next]_vars => RefineInv'
  BY RefineStep
<1>3. Init => Lifecycle!Init
  <2> SUFFICES ASSUME Init PROVE Lifecycle!Init
    OBVIOUS
  <2>1. \A j \in Jobs : Status(j) = "absent"
    BY DEF Init, Status
  <2> QED
    BY <2>1 DEF Init, Lifecycle!Init
<1>4. RefineInv /\ [Next]_vars => [Lifecycle!Next]_<<[j \in Jobs |-> Status(j)], runs>>
  <2> SUFFICES ASSUME RefineInv, [Next]_vars
               PROVE  Lifecycle!Next \/ UNCHANGED <<[j \in Jobs |-> Status(j)], runs>>
    OBVIOUS
  <2>1. CASE UNCHANGED vars
    <3>1. \A j \in Jobs : Status(j)' = Status(j)
      BY <2>1 DEF vars, Status, Held, Owning, JobOf, FenceOf
    <3> QED
      BY <2>1, <3>1 DEF vars
  <2>2. CASE Next
    BY <2>2, RefineHandler, RefineDeliver, NextCases
  <2> QED
    BY <2>1, <2>2
<1> QED
  BY <1>1, <1>2, <1>3, <1>4, PTL DEF Spec, Implements, Lifecycle!Spec
=============================================================================
