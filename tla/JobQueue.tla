------------------------------ MODULE JobQueue ------------------------------
(***************************************************************************)
(* The job queue of karet-worker: src/src/queue.rs, with the two Postgres  *)
(* updates of src/src/db.rs that it makes.                                 *)
(*                                                                         *)
(* Jobs travel on a Redis stream read through one consumer group.  A       *)
(* claimed entry stays in the group's pending list (PEL) until it is       *)
(* acked; handle_claimed works on it in a sequence of Redis and Postgres   *)
(* commands, each of which is one step here.  A per-pipeline lock with a   *)
(* TTL serializes runs, a delayed ZSET holds jobs waiting for a retry, a   *)
(* live hash holds a job's status and attempt count.  Every worker also    *)
(* runs a mover (ZSET -> stream), a reclaimer (PEL entries of dead         *)
(* workers) and an orphan sweep (live hashes whose entry was trimmed).     *)
(*                                                                         *)
(* A handler is one call of handle_claimed, from a consumer loop or from   *)
(* a reclaimer loop of any worker.  Clock time is abstracted: a delayed    *)
(* job may be due, a dead worker's lock may expire and its entry may       *)
(* become idle at any moment.  The steps at which a worker that is still   *)
(* alive is overtaken by one of those clocks are the stalls.               *)
(***************************************************************************)
EXTENDS Integers, FiniteSets

CONSTANTS
    Jobs,           \* job ids
    Handlers,       \* concurrent calls of handle_claimed
    Pipelines,      \* pipeline slugs, one lock each
    PipelineOf,     \* JobMessage.pipeline
    MaxAttempts,    \* QueueSettings.max_attempts
    Poison,         \* jobs whose payload does not parse
    BadPrefix,      \* jobs whose prefix validate_pipeline_prefix rejects
    Webhook,        \* jobs the debounce scheduler enqueues: no Postgres row
    FaultAt,        \* steps at which a Redis or Postgres command may fail
    MaxFaults,      \* bound on failed commands
    MaxCrashes,     \* bound on handlers lost with their worker
    MaxStalls,      \* bound on TTL / idle expiries against a live handler
    MaxCopies,      \* bound on stream entries of one job that are in use
    Trimming,       \* BOOLEAN: may MAXLEN trim entries?
    None

Copies == 1 .. MaxCopies

\* attempts saturates here: far enough above MaxAttempts that the handlers
\* now between HINCRBY 1 and HINCRBY -1 cannot bring it back to the limit.
AttemptCap == MaxAttempts + Cardinality(Handlers) + 1

ASSUME QueueAssumption ==
    /\ IsFiniteSet(Handlers)
    /\ PipelineOf \in [Jobs -> Pipelines]
    /\ MaxAttempts \in Nat \ {0}
    /\ Poison \subseteq Jobs /\ BadPrefix \subseteq Jobs /\ Webhook \subseteq Jobs
    /\ MaxFaults \in Nat /\ MaxCrashes \in Nat /\ MaxStalls \in Nat
    /\ MaxCopies \in Nat \ {0}
    /\ Trimming \in BOOLEAN
    /\ None \notin Jobs

VARIABLES
    queue,      \* stream entries not yet delivered to the group
    pel,        \* stream entries delivered and not acked
    gone,       \* enqueued jobs with no entry left in the stream
    delayed,    \* karet:jobs:delayed, a ZSET of payloads
    live,       \* status field of the live hash
    attempts,   \* attempts field of the live hash
    lock,       \* per-pipeline lock: the fence of its holder
    row,        \* status column of the job's Postgres row
    pc, entry, att, verdict,    \* locals of a handle_claimed call
    lost,       \* handlers whose heartbeat has set `cancelled`
    sweep,      \* progress of an orphan sweep over a job
    faults, crashes, stalls,    \* used budget
    runs,       \* ghost: executions of the job that were started
    latest,     \* ghost: the last attempt of the job that took the lock
    finished,   \* ghost: jobs whose terminal status was published
    missed      \* ghost: jobs whose mark_finished failed

redisVars   == <<queue, pel, gone, delayed, live, attempts, lock>>
handlerVars == <<pc, entry, att, verdict, lost>>
budget      == <<faults, crashes, stalls>>
ghosts      == <<runs, latest, finished, missed>>
vars == <<queue, pel, gone, delayed, live, attempts, lock, row, pc, entry, att,
          verdict, lost, sweep, faults, crashes, stalls, runs, latest,
          finished, missed>>

Entries  == Jobs \X Copies
NoEntry  == <<None, 0>>
Free     == <<None, 0>>
Terminal == {"completed", "failed", "abandoned"}
Steps    == {"guard", "count", "lock", "uncount", "defer", "start", "row", "run",
             "fence", "record", "publish", "release", "ack", "retry", "requeue"}

-----------------------------------------------------------------------------
(* State predicates and handler moves.                                      *)

JobOf(h)   == entry[h][1]
PipeOf(h)  == PipelineOf[JobOf(h)]
FenceOf(h) == <<JobOf(h), att[h]>>          \* fence(job_id, attempt)
Active(h)  == pc[h] # "idle"

\* The steps between try_lock and the end of finish_job, when the lock is
\* this handler's unless it lost it.
Owning(h) == pc[h] \in {"start", "row", "run", "retry",
                        "fence", "record", "publish", "release"}

\* The steps at which the pipeline's job is being executed.
Executing(h) == pc[h] \in {"start", "row", "run"}

EntriesOf(j) == {e \in Entries : e[1] = j}

InUse(e) == e \in queue \/ e \in pel \/ \E h \in Handlers : entry[h] = e

\* XADD "*": an entry id distinct from every one in use.
NextCopy(j, n) == /\ ~InUse(<<j, n>>)
                  /\ \A m \in Copies : m < n => InUse(<<j, m>>)

Goto(h, step) == /\ pc' = [pc EXCEPT ![h] = step]
                 /\ UNCHANGED <<entry, att, verdict, lost>>

Return(h) == /\ pc' = [pc EXCEPT ![h] = "idle"]
             /\ entry' = [entry EXCEPT ![h] = NoEntry]
             /\ att' = [att EXCEPT ![h] = 0]
             /\ verdict' = [verdict EXCEPT ![h] = "none"]
             /\ lost' = lost \ {h}

\* Mutant of Finish: the terminal status is not passed on.
FinishNoStatus(h, status) == Goto(h, "fence")

\* Enter finish_job with this terminal status.
Finish(h, status) == /\ pc' = [pc EXCEPT ![h] = "fence"]
                     /\ verdict' = [verdict EXCEPT ![h] = status]
                     /\ UNCHANGED <<entry, att, lost>>

\* Mutant of UpdateRow: a terminal row is never overwritten.
UpdateOpenRow(j, status) ==
    IF row[j] \in {"none", "completed", "failed"} THEN row ELSE [row EXCEPT ![j] = status]

\* A plain UPDATE: it changes nothing when the row does not exist.
UpdateRow(j, status) == IF row[j] = "none" THEN row ELSE [row EXCEPT ![j] = status]

\* RELEASE_LOCK_LUA: DEL only under the caller's own fence.
ReleaseLock(h) == IF lock[PipeOf(h)] = FenceOf(h)
                    THEN [lock EXCEPT ![PipeOf(h)] = Free] ELSE lock

\* Mutant of Vacant: SET without NX.
VacantAlways(p) == TRUE

\* SET NX succeeds.
Vacant(p) == lock[p] = Free

\* Mutant of IsTerminal: a failed job is taken for an open one.
IsCompleted(status) == status \in {"completed", "abandoned"}

\* The statuses that stop a redelivery.
IsTerminal(status) == status \in Terminal

\* Mutant of GivesUp: off by one.
GivesUpLate(n) == n > MaxAttempts + 1

GivesUp(n) == n > MaxAttempts

Capped(n) == IF n > AttemptCap THEN AttemptCap ELSE n

-----------------------------------------------------------------------------
Init == /\ queue = {} /\ pel = {} /\ gone = {} /\ delayed = {}
        /\ live = [j \in Jobs |-> "absent"]
        /\ attempts = [j \in Jobs |-> 0]
        /\ lock = [p \in Pipelines |-> Free]
        /\ row = [j \in Jobs |-> "none"]
        /\ pc = [h \in Handlers |-> "idle"]
        /\ entry = [h \in Handlers |-> NoEntry]
        /\ att = [h \in Handlers |-> 0]
        /\ verdict = [h \in Handlers |-> "none"]
        /\ lost = {}
        /\ sweep = [j \in Jobs |-> "none"]
        /\ faults = 0 /\ crashes = 0 /\ stalls = 0
        /\ runs = [j \in Jobs |-> 0]
        /\ latest = [j \in Jobs |-> 0]
        /\ finished = {}
        /\ missed = {}

\* enqueue: XADD, the live hash and the index entry in one MULTI.  The web
\* app inserts the Postgres row of the jobs it submits; the debounce
\* scheduler, the worker's own caller of enqueue, inserts none.
Enqueue(j) ==
    /\ live[j] = "absent"
    /\ queue' = queue \cup {<<j, 1>>}
    /\ live' = [live EXCEPT ![j] = "queued"]
    /\ row' = IF j \in Webhook THEN row ELSE [row EXCEPT ![j] = "queued"]
    /\ UNCHANGED <<pel, gone, delayed, attempts, lock, handlerVars, sweep, budget, ghosts>>

\* The head of handle_claimed: a poison payload is acked away, a bad prefix
\* goes straight to finish_job as attempt 1, anything else to the guard.
Handle(h, e) ==
    /\ entry' = [entry EXCEPT ![h] = e]
    /\ pc' = [pc EXCEPT ![h] = IF e[1] \in Poison THEN "ack"
                                ELSE IF e[1] \in BadPrefix THEN "fence" ELSE "guard"]
    /\ att' = [att EXCEPT ![h] = IF e[1] \in BadPrefix \ Poison THEN 1 ELSE 0]
    /\ verdict' = [verdict EXCEPT ![h] = IF e[1] \in BadPrefix \ Poison THEN "failed" ELSE "none"]
    /\ UNCHANGED lost

\* consumer_loop: XREADGROUP COUNT 1, then handle_claimed.
Claim(h, e) ==
    /\ pc[h] = "idle" /\ e \in queue
    /\ queue' = queue \ {e} /\ pel' = pel \cup {e}
    /\ Handle(h, e)
    /\ UNCHANGED <<gone, delayed, live, attempts, lock, row, sweep, budget, ghosts>>

\* The entry is delivered but its handler cannot connect (or the reply of
\* XREADGROUP is lost): it stays in the PEL with nobody working on it.
ClaimLost(e) ==
    /\ "claim" \in FaultAt /\ faults < MaxFaults /\ e \in queue
    /\ faults' = faults + 1
    /\ queue' = queue \ {e} /\ pel' = pel \cup {e}
    /\ UNCHANGED <<gone, delayed, live, attempts, lock, row, handlerVars, sweep,
                   crashes, stalls, ghosts>>

\* reclaimer_loop: XAUTOCLAIM of an entry idle longer than reclaim_idle_ms.
\* The heartbeat keeps a live handler's entry from becoming idle, so taking
\* it from one is a stall.
Reclaim(h, e) ==
    /\ pc[h] = "idle" /\ e \in pel /\ e[1] \notin gone
    /\ IF \E g \in Handlers : entry[g] = e
         THEN stalls < MaxStalls /\ stalls' = stalls + 1
         ELSE stalls' = stalls
    /\ Handle(h, e)
    /\ UNCHANGED <<redisVars, row, sweep, faults, crashes, ghosts>>

\* XAUTOCLAIM drops a pending entry whose message was trimmed.
ReclaimGone(e) ==
    /\ e \in pel /\ e[1] \in gone
    /\ \A g \in Handlers : entry[g] # e
    /\ pel' = pel \ {e}
    /\ UNCHANGED <<queue, gone, delayed, live, attempts, lock, row, handlerVars,
                   sweep, budget, ghosts>>

\* Mutant of Guard: the redelivered entry of a terminal job is not acked.
GuardNoAck(h) ==
    /\ pc[h] = "guard"
    /\ IF IsTerminal(live[JobOf(h)]) THEN Return(h) ELSE Goto(h, "count")
    /\ UNCHANGED <<redisVars, row, sweep, budget, ghosts>>

\* Redelivery guard: HGET status; a job already terminal is acked.
Guard(h) ==
    /\ pc[h] = "guard"
    /\ Goto(h, IF IsTerminal(live[JobOf(h)]) THEN "ack" ELSE "count")
    /\ UNCHANGED <<redisVars, row, sweep, budget, ghosts>>

\* HINCRBY attempts 1, then give up or try the lock.
Count(h) ==
    LET n == Capped(attempts[JobOf(h)] + 1) IN
    /\ pc[h] = "count"
    /\ attempts' = [attempts EXCEPT ![JobOf(h)] = n]
    /\ att' = [att EXCEPT ![h] = n]
    /\ pc' = [pc EXCEPT ![h] = IF GivesUp(n) THEN "fence" ELSE "lock"]
    /\ verdict' = [verdict EXCEPT ![h] = IF GivesUp(n) THEN "failed" ELSE "none"]
    /\ UNCHANGED <<queue, pel, gone, delayed, live, lock, row, entry, lost, sweep,
                   budget, ghosts>>

\* try_lock: SET NX PX.
Lock(h) ==
    /\ pc[h] = "lock" /\ Vacant(PipeOf(h))
    /\ lock' = [lock EXCEPT ![PipeOf(h)] = FenceOf(h)]
    /\ Goto(h, "start")
    /\ runs' = [runs EXCEPT ![JobOf(h)] = @ + 1]
    /\ latest' = [latest EXCEPT ![JobOf(h)] = att[h]]
    /\ UNCHANGED <<queue, pel, gone, delayed, live, attempts, row, sweep, budget,
                   finished, missed>>

LockBusy(h) ==
    /\ pc[h] = "lock" /\ ~Vacant(PipeOf(h))
    /\ Goto(h, "uncount")
    /\ UNCHANGED <<redisVars, row, sweep, budget, ghosts>>

\* Lock-busy does not burn an attempt: HINCRBY attempts -1.
Uncount(h) ==
    /\ pc[h] = "uncount"
    /\ attempts' = [attempts EXCEPT ![JobOf(h)] = @ - 1]
    /\ Goto(h, "defer")
    /\ UNCHANGED <<queue, pel, gone, delayed, live, lock, row, sweep, budget, ghosts>>

\* Mutant of DeferEffect: the delivery is not acked.
DeferNoAck(h) == delayed' = delayed \cup {JobOf(h)} /\ UNCHANGED pel

\* defer: ZADD delayed and XACK in one MULTI.  The ZSET member is the
\* payload, so two deliveries of a job leave one member.
DeferEffect(h) == /\ delayed' = delayed \cup {JobOf(h)}
                  /\ pel' = pel \ {entry[h]}

Defer(h) ==
    /\ pc[h] = "defer"
    /\ DeferEffect(h)
    /\ Return(h)
    /\ UNCHANGED <<queue, gone, live, attempts, lock, row, sweep, budget, ghosts>>

\* HSET status running.
Start(h) ==
    /\ pc[h] = "start"
    /\ live' = [live EXCEPT ![JobOf(h)] = "running"]
    /\ Goto(h, "row")
    /\ UNCHANGED <<queue, pel, gone, delayed, attempts, lock, row, sweep, budget, ghosts>>

\* db::mark_running, after which the heartbeat task is spawned.
MarkRunning(h) ==
    /\ pc[h] = "row"
    /\ row' = UpdateRow(JobOf(h), "running")
    /\ Goto(h, "run")
    /\ UNCHANGED <<redisVars, sweep, budget, ghosts>>

\* One tick of the heartbeat task: renew_lock under the own fence, else set
\* `cancelled`; then XCLAIM, which drops the PEL entry of a trimmed message.
Heartbeat(h) ==
    /\ pc[h] = "run" /\ h \notin lost
    /\ IF lock[PipeOf(h)] = FenceOf(h)
         THEN /\ JobOf(h) \in gone /\ entry[h] \in pel
              /\ pel' = pel \ {entry[h]}
              /\ UNCHANGED lost
         ELSE /\ lost' = lost \cup {h}
              /\ UNCHANGED pel
    /\ UNCHANGED <<queue, gone, delayed, live, attempts, lock, row, pc, entry, att,
                   verdict, sweep, budget, ghosts>>

\* execute_job returns.  Ok with no errors, or NoFiles: completed.  Ok with
\* per-mapping errors, ConfigParse, ConfigInvalid or Dimension: failed.
RunEnds(h, status) ==
    /\ pc[h] = "run" /\ status \in {"completed", "failed"}
    /\ Finish(h, status)
    /\ UNCHANGED <<redisVars, row, sweep, budget, ghosts>>

\* JobError::ConfigRead: possibly transient, retried.
RunConfigRead(h) ==
    /\ pc[h] = "run"
    /\ Goto(h, "retry")
    /\ UNCHANGED <<redisVars, row, sweep, budget, ghosts>>

\* JobError::Cancelled: touch nothing.
RunCancelled(h) ==
    /\ pc[h] = "run" /\ h \in lost
    /\ Return(h)
    /\ UNCHANGED <<redisVars, row, sweep, budget, ghosts>>

\* The ConfigRead arm: release_lock, then finish_job on the last attempt,
\* else back to queued.  Option::and evaluates the second part even when the
\* release failed.
AfterRetry(h) == IF att[h] >= MaxAttempts THEN Finish(h, "failed") ELSE Goto(h, "requeue")

Retry(h) ==
    /\ pc[h] = "retry"
    /\ lock' = ReleaseLock(h)
    /\ AfterRetry(h)
    /\ UNCHANGED <<queue, pel, gone, delayed, live, attempts, row, sweep, budget, ghosts>>

\* Mutant of Requeue: acked instead of deferred.
RequeueAcks(h) ==
    /\ pc[h] = "requeue"
    /\ live' = [live EXCEPT ![JobOf(h)] = "queued"]
    /\ Goto(h, "ack")
    /\ UNCHANGED <<queue, pel, gone, delayed, attempts, lock, row, sweep, budget, ghosts>>

\* HSET status queued, then defer with the backoff.
Requeue(h) ==
    /\ pc[h] = "requeue"
    /\ live' = [live EXCEPT ![JobOf(h)] = "queued"]
    /\ Goto(h, "defer")
    /\ UNCHANGED <<queue, pel, gone, delayed, attempts, lock, row, sweep, budget, ghosts>>

\* Mutant of FenceOk: only the holder may finish.
FenceOwnOnly(h) == lock[PipeOf(h)] = FenceOf(h)

\* finish_job, its first step: GET the lock; proceed when it is free or the
\* own one, otherwise return without recording or acking.
FenceOk(h) == lock[PipeOf(h)] \in {Free, FenceOf(h)}

\* Mutant of Fence: a fenced-out attempt acks the entry.
FenceAcks(h) ==
    /\ pc[h] = "fence"
    /\ Goto(h, IF FenceOk(h) THEN "record" ELSE "ack")
    /\ UNCHANGED <<redisVars, row, sweep, budget, ghosts>>

Fence(h) ==
    /\ pc[h] = "fence"
    /\ IF FenceOk(h) THEN Goto(h, "record") ELSE Return(h)
    /\ UNCHANGED <<redisVars, row, sweep, budget, ghosts>>

\* db::mark_finished.
Record(h) ==
    /\ pc[h] = "record"
    /\ row' = UpdateRow(JobOf(h), verdict[h])
    /\ missed' = missed \ {JobOf(h)}
    /\ Goto(h, "publish")
    /\ UNCHANGED <<redisVars, sweep, budget, runs, latest, finished>>

\* HSET the terminal status in the live hash.
PublishEffect(h) == /\ live' = [live EXCEPT ![JobOf(h)] = verdict[h]]
                    /\ finished' = finished \cup {JobOf(h)}

Publish(h) ==
    /\ pc[h] = "publish"
    /\ PublishEffect(h)
    /\ Goto(h, "release")
    /\ UNCHANGED <<queue, pel, gone, delayed, attempts, lock, row, sweep, budget,
                   runs, latest, missed>>

Release(h) ==
    /\ pc[h] = "release"
    /\ lock' = ReleaseLock(h)
    /\ Goto(h, "ack")
    /\ UNCHANGED <<queue, pel, gone, delayed, live, attempts, row, sweep, budget, ghosts>>

\* XACK, the last command of every path that ends a delivery.
Ack(h) ==
    /\ pc[h] = "ack"
    /\ pel' = pel \ {entry[h]}
    /\ Return(h)
    /\ UNCHANGED <<queue, gone, delayed, live, attempts, lock, row, sweep, budget, ghosts>>

-----------------------------------------------------------------------------
(* Failed commands.                                                         *)

Fault(h) == /\ pc[h] \in FaultAt /\ faults < MaxFaults
            /\ faults' = faults + 1
            /\ UNCHANGED <<crashes, stalls>>

\* The command has no effect and its error makes the handler return.  The
\* XACK at the end ignores its error and returns all the same.
FaultReturn(h) ==
    /\ pc[h] \in {"lock", "defer", "fence", "publish", "release", "ack"}
    /\ Fault(h)
    /\ Return(h)
    /\ UNCHANGED <<redisVars, row, sweep, ghosts>>

\* The server applied the command, its reply was lost, the handler returns.
FaultApplied(h) ==
    /\ Fault(h)
    /\ \/ /\ pc[h] = "lock" /\ Vacant(PipeOf(h))
          /\ lock' = [lock EXCEPT ![PipeOf(h)] = FenceOf(h)]
          /\ UNCHANGED <<pel, delayed, live, finished>>
       \/ /\ pc[h] = "release"
          /\ lock' = ReleaseLock(h)
          /\ UNCHANGED <<pel, delayed, live, finished>>
       \/ /\ pc[h] = "publish"
          /\ PublishEffect(h)
          /\ UNCHANGED <<pel, delayed, lock>>
       \/ /\ pc[h] = "defer"
          /\ DeferEffect(h)
          /\ UNCHANGED <<live, lock, finished>>
    /\ Return(h)
    /\ UNCHANGED <<queue, gone, attempts, row, sweep, runs, latest, missed>>

\* The error is ignored or logged and the handler goes on: the guard reads
\* no status, a status or row write is skipped, the release of the ConfigRead
\* arm is skipped.
FaultSkip(h) ==
    /\ Fault(h)
    /\ \/ pc[h] = "guard"   /\ Goto(h, "count")
       \/ pc[h] = "uncount" /\ Goto(h, "defer")
       \/ pc[h] = "start"   /\ Goto(h, "row")
       \/ pc[h] = "row"     /\ Goto(h, "run")
       \/ pc[h] = "record"  /\ Goto(h, "publish")
       \/ pc[h] = "retry"   /\ AfterRetry(h)
       \/ pc[h] = "requeue" /\ Goto(h, "defer")
    /\ missed' = IF pc[h] = "record" THEN missed \cup {JobOf(h)} ELSE missed
    /\ UNCHANGED <<redisVars, row, sweep, runs, latest, finished>>

\* HINCRBY fails, applied or not: the handler goes on as attempt 1.
FaultCount(h) ==
    /\ pc[h] = "count" /\ Fault(h)
    /\ \E n \in {0, 1} : attempts' = [attempts EXCEPT ![JobOf(h)] = Capped(@ + n)]
    /\ att' = [att EXCEPT ![h] = 1]
    /\ pc' = [pc EXCEPT ![h] = "lock"]
    /\ UNCHANGED <<queue, pel, gone, delayed, live, lock, row, entry, verdict, lost,
                   sweep, ghosts>>

-----------------------------------------------------------------------------
(* The environment of the handlers: clocks, crashes, the other loops.       *)

\* A worker dies: its handler vanishes, its entry and lock stay behind.
Crash(h) ==
    /\ Active(h) /\ crashes < MaxCrashes
    /\ crashes' = crashes + 1
    /\ Return(h)
    /\ UNCHANGED <<redisVars, row, sweep, faults, stalls, ghosts>>

\* The lock's PX runs out.  Against a holder that is alive it is a stall.
LockExpire(p) ==
    /\ lock[p] # Free
    /\ IF \E h \in Handlers : Owning(h) /\ FenceOf(h) = lock[p]
         THEN stalls < MaxStalls /\ stalls' = stalls + 1
         ELSE stalls' = stalls
    /\ lock' = [lock EXCEPT ![p] = Free]
    /\ UNCHANGED <<queue, pel, gone, delayed, live, attempts, row, handlerVars, sweep,
                   faults, crashes, ghosts>>

\* delayed_mover_loop: MOVE_DUE_LUA takes a due member back to the stream.
MoveDue(j, n) ==
    /\ j \in delayed /\ NextCopy(j, n)
    /\ delayed' = delayed \ {j}
    /\ queue' = queue \cup {<<j, n>>}
    /\ gone' = gone \ {j}
    /\ UNCHANGED <<pel, live, attempts, lock, row, handlerVars, sweep, budget, ghosts>>

\* XADD MAXLEN trims the entries of a job, delivered or not.
Trim(j) ==
    /\ Trimming /\ live[j] # "absent" /\ j \notin gone
    /\ queue' = queue \ EntriesOf(j)
    /\ gone' = gone \cup {j}
    /\ UNCHANGED <<pel, delayed, live, attempts, lock, row, handlerVars, sweep, budget, ghosts>>

\* sweep_orphaned_live_hashes as one job meets it.  XRANGE shows no entry of
\* the job (an unparseable entry in the stream stops the sweep) ...
SweepScan(j) ==
    /\ sweep[j] = "none" /\ j \in gone
    /\ \A k \in Poison : live[k] = "absent" \/ k \in gone
    /\ sweep' = [sweep EXCEPT ![j] = "suspect"]
    /\ UNCHANGED <<redisVars, row, handlerVars, budget, ghosts>>

\* Mutant of Sweepable: running hashes are left to the reclaimer.
SweepableQueued(status) == status = "queued"

Sweepable(status) == status \in {"queued", "running"}

\* ... then HGET status: only queued and running hashes are swept ...
SweepRead(j) ==
    /\ sweep[j] = "suspect"
    /\ sweep' = [sweep EXCEPT ![j] = IF Sweepable(live[j]) THEN "mark" ELSE "none"]
    /\ UNCHANGED <<redisVars, row, handlerVars, budget, ghosts>>

\* ... then HSET status abandoned.
SweepMark(j) ==
    /\ sweep[j] = "mark"
    /\ sweep' = [sweep EXCEPT ![j] = "none"]
    /\ live' = [live EXCEPT ![j] = "abandoned"]
    /\ UNCHANGED <<queue, pel, gone, delayed, attempts, lock, row, handlerVars, budget, ghosts>>

\* One of its commands fails: the sweep ends, the next one starts over.
SweepFault(j) ==
    /\ sweep[j] # "none" /\ "sweep" \in FaultAt /\ faults < MaxFaults
    /\ sweep' = [sweep EXCEPT ![j] = "none"]
    /\ faults' = faults + 1
    /\ UNCHANGED <<redisVars, row, handlerVars, crashes, stalls, ghosts>>

-----------------------------------------------------------------------------
\* The step a handler takes when its commands succeed.
HandlerStep(h) ==
    \/ Guard(h) \/ Count(h) \/ Lock(h) \/ LockBusy(h) \/ Uncount(h) \/ Defer(h)
    \/ Start(h) \/ MarkRunning(h)
    \/ \E s \in {"completed", "failed"} : RunEnds(h, s)
    \/ RunConfigRead(h) \/ RunCancelled(h)
    \/ Retry(h) \/ Requeue(h)
    \/ Fence(h) \/ Record(h) \/ Publish(h) \/ Release(h) \/ Ack(h)

Next ==
    \/ \E j \in Jobs : Enqueue(j)
    \/ \E h \in Handlers, e \in queue : Claim(h, e)
    \/ \E e \in queue : ClaimLost(e)
    \/ \E h \in Handlers, e \in pel : Reclaim(h, e)
    \/ \E e \in pel : ReclaimGone(e)
    \/ \E h \in Handlers : HandlerStep(h)
    \/ \E h \in Handlers : Heartbeat(h)
    \/ \E h \in Handlers : FaultReturn(h)
    \/ \E h \in Handlers : FaultApplied(h)
    \/ \E h \in Handlers : FaultSkip(h)
    \/ \E h \in Handlers : FaultCount(h)
    \/ \E h \in Handlers : Crash(h)
    \/ \E p \in Pipelines : LockExpire(p)
    \/ \E j \in Jobs, n \in Copies : MoveDue(j, n)
    \/ \E j \in Jobs : Trim(j)
    \/ \E j \in Jobs : SweepScan(j)
    \/ \E j \in Jobs : SweepRead(j)
    \/ \E j \in Jobs : SweepMark(j)
    \/ \E j \in Jobs : SweepFault(j)

Spec == Init /\ [][Next]_vars

\* Handlers keep executing, the loops keep polling, TTLs run out.  Nothing is
\* assumed of enqueues, faults, crashes, stalls or trims.
Fairness ==
    /\ \A h \in Handlers : WF_vars(HandlerStep(h))
    /\ WF_vars(\E h \in Handlers, e \in queue : Claim(h, e))
    /\ WF_vars(\E h \in Handlers, e \in pel : Reclaim(h, e))
    /\ WF_vars(\E e \in pel : ReclaimGone(e))
    /\ \A p \in Pipelines : WF_vars(LockExpire(p))
    /\ \A j \in Jobs : WF_vars(\E n \in Copies : MoveDue(j, n))
    /\ \A j \in Jobs : WF_vars(SweepScan(j)) /\ WF_vars(SweepRead(j)) /\ WF_vars(SweepMark(j))

FairSpec == Spec /\ Fairness

-----------------------------------------------------------------------------
(* Properties.                                                              *)

\* Every variable keeps its type; an idle handler holds no entry, and an
\* active one holds an entry of the stream.
TypeOK ==
    /\ queue \subseteq Entries /\ pel \subseteq Entries
    /\ gone \subseteq Jobs /\ delayed \subseteq Jobs
    /\ live \in [Jobs -> {"absent", "queued", "running"} \cup Terminal]
    /\ attempts \in [Jobs -> Int]
    /\ lock \in [Pipelines -> (Jobs \X Int) \cup {Free}]
    /\ row \in [Jobs -> {"none", "queued", "running", "completed", "failed"}]
    /\ pc \in [Handlers -> Steps \cup {"idle"}]
    /\ entry \in [Handlers -> Entries \cup {NoEntry}]
    /\ \A h \in Handlers : pc[h] = "idle" <=> entry[h] = NoEntry
    /\ att \in [Handlers -> Int]
    /\ verdict \in [Handlers -> {"none", "completed", "failed"}]
    /\ \A h \in Handlers : pc[h] \in {"fence", "record", "publish"} => verdict[h] # "none"
    /\ lost \subseteq Handlers
    /\ sweep \in [Jobs -> {"none", "suspect", "mark"}]
    /\ faults \in 0 .. MaxFaults /\ crashes \in 0 .. MaxCrashes /\ stalls \in 0 .. MaxStalls
    /\ runs \in [Jobs -> Nat] /\ latest \in [Jobs -> Int]
    /\ finished \subseteq Jobs /\ missed \subseteq Jobs

\* "a per-pipeline lock serializes runs" (README.md): no two handlers execute
\* jobs of one pipeline at once.  What handle_claimed and the Lua scripts of
\* the lock promise as long as no live worker is overtaken by its TTLs.
RunsSerialized ==
    \A g, h \in Handlers :
        g # h /\ Executing(g) /\ Executing(h) => PipeOf(g) # PipeOf(h)

\* The places a job can be picked up from again.
Tokens(j) == Cardinality((queue \cup pel) \cap EntriesOf(j))
             + (IF j \in delayed THEN 1 ELSE 0)

\* No delivery is lost and none is duplicated by claim, reclaim, defer, move,
\* ack, crash or failed command: a job that is not terminal is in exactly one
\* of stream, PEL and delayed ZSET, a terminal one in at most one.
OneToken ==
    \A j \in Jobs : /\ Tokens(j) <= 1
                    /\ live[j] \in {"queued", "running"} /\ j \notin Poison => Tokens(j) = 1

\* finish_job writes the record before the live hash, so that "a crash re-runs
\* the job instead of losing history": a terminal status the live hash shows
\* is the one in the job's Postgres row, however often the job was re-run
\* after its row was written, unless it has no row or that write failed.
RowMatchesLive ==
    \A j \in Jobs : live[j] \in {"completed", "failed"} /\ row[j] # "none" /\ j \notin missed
                        => row[j] = live[j]

\* Even when live workers are overtaken by the reclaimer and the lock TTL, a
\* job leaves stream, PEL and delayed ZSET only once one of its attempts has
\* published a terminal status.
NoJobDropped ==
    \A j \in Jobs \ Poison :
        live[j] # "absent" /\ Tokens(j) = 0 => j \in finished

\* MAX_ATTEMPTS bounds the executions of a job, although HINCRBY -1 gives
\* attempts back and stale handlers count concurrently.
RunsBounded == \A j \in Jobs : runs[j] <= MaxAttempts

\* Every job ends: its live hash becomes terminal and stays so, whether an
\* attempt finishes, attempts run out or, its entries trimmed, it is swept.
EventuallySettled ==
    \A j \in Jobs \ Poison : live[j] = "queued" ~> [](live[j] \in Terminal)

\* The queue drains: in the end no entry is undelivered, pending or delayed
\* and no lock is held, poison entries and dead workers' locks included.
EventuallyDrained ==
    <>[](queue = {} /\ pel = {} /\ delayed = {} /\ \A p \in Pipelines : lock[p] = Free)
=============================================================================
