------------------------------- MODULE Worker -------------------------------
(***************************************************************************)
(* The life of one worker process (src/lib.rs, run, and the loops of        *)
(* src/queue.rs it spawns): start, serving, SIGTERM, drain, exit; and the   *)
(* consumer_ok flag that /health reports.                                  *)
(*                                                                         *)
(* What a delivery does to Redis is module JobQueue's subject; here a call  *)
(* of handle_claimed is its early returns, the run between the increment    *)
(* and the decrement of in_flight, and its return.  The queue is counted:   *)
(* entries to be read, entries stale in the PEL, payloads delayed.          *)
(***************************************************************************)
EXTENDS Integers, FiniteSets

CONSTANTS
    Consumers,      \* consumer loops: WORKER_CONCURRENCY, at least one
    MaxConns,       \* HTTP connections open at once
    MaxFed,         \* entries others put into the queue, stale ones included
    MaxFaults       \* failed Redis commands

ASSUME WorkerAssumption ==
    /\ IsFiniteSet(Consumers) /\ Consumers # {}
    /\ Consumers \cap {"mover", "reclaimer", "scheduler"} = {}
    /\ MaxConns \in Nat /\ MaxFed \in Nat /\ MaxFaults \in Nat

VARIABLES
    server,         \* where run() is
    conns,          \* open HTTP connections
    flag,           \* the shutdown watch channel
    loop,           \* loop -> what it does
    inFlight,       \* in_flight
    consumerOk,     \* consumer_ok
    ready, stale, delayed,
    late,           \* ghost: loop -> claims since the flag was set
    lastRead,       \* ghost: consumer -> how its last connect or read ended
    fed, faults

queueVars == <<ready, stale, delayed, fed>>
vars == <<server, conns, flag, loop, inFlight, consumerOk, late, lastRead, faults, queueVars>>

Loops == Consumers \cup {"mover", "reclaimer", "scheduler"}

\* Loops that call handle_claimed.
Claimers == Consumers \cup {"reclaimer"}

\* Where a loop looks at the flag.
Top(l) == IF l \in Consumers THEN "head" ELSE "tick"

Init ==
    /\ server = "boot"
    /\ conns = 0
    /\ flag = FALSE
    /\ loop = [l \in Loops |-> "unborn"]
    /\ inFlight = 0
    /\ consumerOk = TRUE
    /\ ready = 0 /\ stale = 0 /\ delayed = 0
    /\ late = [l \in Claimers |-> 0]
    /\ lastRead = [c \in Consumers |-> "none"]
    /\ fed = 0
    /\ faults = 0

Goto(l, label) == loop' = [loop EXCEPT ![l] = label]

Fault == faults < MaxFaults /\ faults' = faults + 1

-----------------------------------------------------------------------------
\* run()

\* A missing variable or an unreachable database ends it before any loop.
BootFails ==
    /\ server = "boot"
    /\ server' = "failed"
    /\ UNCHANGED <<conns, flag, loop, inFlight, consumerOk, late, lastRead, faults, queueVars>>

\* The loops are spawned before the port is bound.
SpawnLoops ==
    /\ server = "boot"
    /\ server' = "binding"
    /\ loop' = [l \in Loops |-> Top(l)]
    /\ UNCHANGED <<conns, flag, inFlight, consumerOk, late, lastRead, faults, queueVars>>

Bind ==
    /\ server = "binding"
    /\ server' = "serving"
    /\ UNCHANGED <<conns, flag, loop, inFlight, consumerOk, late, lastRead, faults, queueVars>>

\* run() returns the error: the runtime drops the loops wherever they are.
BindFails ==
    /\ server = "binding"
    /\ server' = "failed"
    /\ loop' = [l \in Loops |-> "dropped"]
    /\ UNCHANGED <<conns, flag, inFlight, consumerOk, late, lastRead, faults, queueVars>>

OpenConn ==
    /\ server = "serving"
    /\ conns < MaxConns
    /\ conns' = conns + 1
    /\ UNCHANGED <<server, flag, loop, inFlight, consumerOk, late, lastRead, faults, queueVars>>

CloseConn ==
    /\ conns > 0
    /\ conns' = conns - 1
    /\ UNCHANGED <<server, flag, loop, inFlight, consumerOk, late, lastRead, faults, queueVars>>

\* shutdown_signal: no new connections; the open ones are served to the end.
Signal ==
    /\ server = "serving"
    /\ server' = "draining"
    /\ UNCHANGED <<conns, flag, loop, inFlight, consumerOk, late, lastRead, faults, queueVars>>

\* Only then is the flag set.
SetFlag ==
    /\ server = "draining"
    /\ conns = 0
    /\ flag' = TRUE
    /\ server' = "joining"
    /\ UNCHANGED <<conns, loop, inFlight, consumerOk, late, lastRead, faults, queueVars>>

\* Waits for the consumers alone.
JoinedConsumers == \A c \in Consumers : loop[c] = "exited"

Joined == \A l \in Loops : loop[l] = "exited"

Exit ==
    /\ server = "joining"
    /\ Joined
    /\ server' = "exited"
    /\ UNCHANGED <<conns, flag, loop, inFlight, consumerOk, late, lastRead, faults, queueVars>>

-----------------------------------------------------------------------------
\* consumer_loop

\* Looks at the flag only while it reconnects.
ConsumerHeadBlind(c) ==
    /\ loop[c] = "head"
    /\ Goto(c, IF flag /\ lastRead[c] = "failed" THEN "exited" ELSE "read")
    /\ UNCHANGED <<server, conns, flag, inFlight, consumerOk, late, lastRead, faults, queueVars>>

ConsumerHead(c) ==
    /\ loop[c] = "head"
    /\ Goto(c, IF flag THEN "exited" ELSE "read")
    /\ UNCHANGED <<server, conns, flag, inFlight, consumerOk, late, lastRead, faults, queueVars>>

\* XREADGROUP answers: an entry, or nothing when BLOCK is over.
ReadReply(c) ==
    /\ loop[c] = "read"
    /\ consumerOk' = TRUE
    /\ lastRead' = [lastRead EXCEPT ![c] = "ok"]
    /\ \/ /\ ready > 0
          /\ ready' = ready - 1
          /\ Goto(c, "handle")
          /\ late' = [late EXCEPT ![c] = IF flag THEN @ + 1 ELSE @]
       \/ /\ ready = 0
          /\ Goto(c, "head")
          /\ UNCHANGED <<ready, late>>
    /\ UNCHANGED <<server, conns, flag, inFlight, stale, delayed, fed, faults>>

\* The failed read is only logged.
ReadFailsSilent(c) ==
    /\ loop[c] = "read"
    /\ Fault
    /\ lastRead' = [lastRead EXCEPT ![c] = "failed"]
    /\ Goto(c, "pause")
    /\ UNCHANGED <<server, conns, flag, inFlight, consumerOk, late, queueVars>>

\* The connection cannot be made, or the read fails: a pause, then again.
ReadFails(c) ==
    /\ loop[c] = "read"
    /\ Fault
    /\ consumerOk' = FALSE
    /\ lastRead' = [lastRead EXCEPT ![c] = "failed"]
    /\ Goto(c, "pause")
    /\ UNCHANGED <<server, conns, flag, inFlight, late, queueVars>>

\* A consumer that gives up when it loses its connection.
PauseGivesUp(c) ==
    /\ loop[c] = "pause"
    /\ Goto(c, "exited")
    /\ UNCHANGED <<server, conns, flag, inFlight, consumerOk, late, lastRead, faults, queueVars>>

\* The pause ends by itself or by a change of the flag.
PauseEnds(c) ==
    /\ loop[c] = "pause"
    /\ Goto(c, "head")
    /\ UNCHANGED <<server, conns, flag, inFlight, consumerOk, late, lastRead, faults, queueVars>>

-----------------------------------------------------------------------------
\* handle_claimed, called by a consumer or by the reclaimer

\* Where the caller goes on: the reclaimer asks for the next stale entry.
Back(l) == IF l \in Consumers THEN "head" ELSE "scan"

\* Returns before the run: finished, deferred, or left in the PEL.
HandleEarly(l) ==
    /\ loop[l] = "handle"
    /\ Goto(l, Back(l))
    /\ \/ UNCHANGED <<stale, delayed, faults>>
       \/ delayed' = delayed + 1 /\ UNCHANGED <<stale, faults>>
       \/ stale' = stale + 1 /\ Fault /\ UNCHANGED delayed
    /\ UNCHANGED <<server, conns, flag, inFlight, consumerOk, late, lastRead, ready, fed>>

\* The run is not counted.
HandleRunUncounted(l) ==
    /\ loop[l] = "handle"
    /\ Goto(l, "run")
    /\ UNCHANGED <<server, conns, flag, inFlight, consumerOk, late, lastRead, faults, queueVars>>

HandleRun(l) ==
    /\ loop[l] = "handle"
    /\ Goto(l, "run")
    /\ inFlight' = inFlight + 1
    /\ UNCHANGED <<server, conns, flag, consumerOk, late, lastRead, faults, queueVars>>

\* The run is over: recorded, deferred as its config could not be read, or left
\* in the PEL.
HandleReturn(l) ==
    /\ loop[l] = "run"
    /\ Goto(l, Back(l))
    /\ inFlight' = inFlight - 1
    /\ \/ UNCHANGED <<stale, delayed, faults>>
       \/ delayed' = delayed + 1 /\ UNCHANGED <<stale, faults>>
       \/ stale' = stale + 1 /\ Fault /\ UNCHANGED delayed
    /\ UNCHANGED <<server, conns, flag, consumerOk, late, lastRead, ready, fed>>

-----------------------------------------------------------------------------
\* The loops on an interval

\* Never looks at the flag.
MoverTickBlind ==
    /\ loop["mover"] = "tick"
    /\ delayed > 0
    /\ ready' = ready + delayed
    /\ delayed' = 0
    /\ UNCHANGED <<server, conns, flag, loop, inFlight, consumerOk, late, lastRead, stale, fed, faults>>

\* delayed_mover_loop: one batch per tick, or a failed script.
MoverTick ==
    /\ loop["mover"] = "tick"
    /\ \/ flag /\ Goto("mover", "exited") /\ UNCHANGED <<ready, delayed>>
       \/ ~flag /\ delayed > 0 /\ ready' = ready + delayed /\ delayed' = 0 /\ UNCHANGED loop
    /\ UNCHANGED <<server, conns, flag, inFlight, consumerOk, late, lastRead, stale, fed, faults>>

ReclaimerTick ==
    /\ loop["reclaimer"] = "tick"
    /\ Goto("reclaimer", IF flag THEN "exited" ELSE "scan")
    /\ UNCHANGED <<server, conns, flag, inFlight, consumerOk, late, lastRead, faults, queueVars>>

\* XAUTOCLAIM COUNT 1, repeated without a look at the flag until it finds
\* nothing; then every tenth time the sweep.
Reclaim ==
    /\ loop["reclaimer"] = "scan"
    /\ \/ /\ stale > 0
          /\ stale' = stale - 1
          /\ Goto("reclaimer", "handle")
          /\ late' = [late EXCEPT !["reclaimer"] = IF flag THEN @ + 1 ELSE @]
       \/ /\ stale = 0
          /\ Goto("reclaimer", "tick")
          /\ UNCHANGED <<stale, late>>
    /\ UNCHANGED <<server, conns, flag, inFlight, consumerOk, lastRead, ready, delayed, fed, faults>>

ReclaimFails ==
    /\ loop["reclaimer"] = "scan"
    /\ Fault
    /\ Goto("reclaimer", "tick")
    /\ UNCHANGED <<server, conns, flag, inFlight, consumerOk, late, lastRead, queueVars>>

\* debounce_scheduler_loop: pops due windows, enqueues their jobs.
SchedulerTick ==
    /\ loop["scheduler"] = "tick"
    /\ \/ flag /\ Goto("scheduler", "exited") /\ UNCHANGED fed
       \/ ~flag /\ fed < MaxFed /\ Goto("scheduler", "enqueue") /\ fed' = fed + 1
    /\ UNCHANGED <<server, conns, flag, inFlight, consumerOk, late, lastRead, faults,
                   ready, stale, delayed>>

SchedulerEnqueue ==
    /\ loop["scheduler"] = "enqueue"
    /\ Goto("scheduler", "tick")
    /\ ready' = ready + 1
    /\ UNCHANGED <<server, conns, flag, inFlight, consumerOk, late, lastRead, faults,
                   stale, delayed, fed>>

-----------------------------------------------------------------------------
\* Others: the web application enqueues, another worker dies with an entry.

Feed ==
    /\ fed < MaxFed
    /\ fed' = fed + 1
    /\ \/ ready' = ready + 1 /\ UNCHANGED stale
       \/ stale' = stale + 1 /\ UNCHANGED ready
    /\ UNCHANGED <<server, conns, flag, loop, inFlight, consumerOk, late, lastRead, faults, delayed>>

\* GET /health answers 200: on a connection of its own it reaches Redis, and the
\* consumers read.
HealthOk(reachable) == reachable /\ consumerOk

ConsumerStep(c) == ConsumerHead(c) \/ ReadReply(c) \/ PauseEnds(c)

HandlerStep(l) == HandleEarly(l) \/ HandleRun(l) \/ HandleReturn(l)

Next ==
    \/ BootFails \/ SpawnLoops \/ Bind \/ BindFails \/ OpenConn \/ CloseConn
    \/ Signal \/ SetFlag \/ Exit
    \/ \E c \in Consumers : ConsumerStep(c) \/ ReadFails(c)
    \/ \E l \in Claimers : HandlerStep(l)
    \/ MoverTick \/ ReclaimerTick \/ Reclaim \/ ReclaimFails
    \/ SchedulerTick \/ SchedulerEnqueue
    \/ Feed

Spec == Init /\ [][Next]_vars

\* The runtime schedules every loop, intervals tick, calls return, clients
\* close their connections.  No assumption on signals, feeds or failures; a
\* delivery may end in any of its ways.
FairSpec ==
    /\ Spec
    /\ WF_vars(CloseConn) /\ WF_vars(SetFlag) /\ WF_vars(Exit)
    /\ \A c \in Consumers : WF_vars(ConsumerStep(c))
    /\ \A l \in Claimers : WF_vars(HandlerStep(l))
    /\ WF_vars(MoverTick) /\ WF_vars(ReclaimerTick) /\ WF_vars(Reclaim)
    /\ WF_vars(SchedulerTick) /\ WF_vars(SchedulerEnqueue)

-----------------------------------------------------------------------------
\* Properties

TypeOK ==
    /\ server \in {"boot", "binding", "serving", "draining", "joining", "exited", "failed"}
    /\ conns \in 0 .. MaxConns
    /\ flag \in BOOLEAN /\ consumerOk \in BOOLEAN
    /\ loop \in [Loops -> {"unborn", "head", "read", "pause", "handle", "run", "tick",
                           "scan", "enqueue", "exited", "dropped"}]
    /\ inFlight \in Nat
    /\ ready \in Nat /\ stale \in Nat /\ delayed \in Nat
    /\ late \in [Claimers -> Nat]
    /\ lastRead \in [Consumers -> {"none", "ok", "failed"}]
    /\ fed \in 0 .. MaxFed /\ faults \in 0 .. MaxFaults

\* README: the worker "finishes in-flight jobs, then exits".  When run()
\* returns without an error no delivery is being handled by any loop, no
\* popped window waits for its enqueue, and in_flight is back to zero.
NothingAbandoned ==
    server = "exited" =>
        /\ inFlight = 0
        /\ \A l \in Loops : loop[l] \notin {"handle", "run", "enqueue"}

\* README: it "stops claiming".  A consumer that is blocked in XREADGROUP
\* when the flag is set may still be given one entry, and no more.
LateClaims == \A c \in Consumers : late[c] <= 1

\* /health reports 503 while no consumer loop can read the stream, also when
\* its own connection finds Redis reachable: however the loops' writes of the
\* one flag interleave, the last outcome of any of them is what it shows.
OutageReported == (\A c \in Consumers : lastRead[c] = "failed") => ~HealthOk(TRUE)

\* A worker that was told to stop exits, also when the reclaimer is in the
\* middle of a series of stale entries.
ExitsAfterSignal == server = "draining" ~> server = "exited"

\* Entries that wait in the stream are claimed by some consumer, failed reads
\* and reconnections in between or not, until the worker is told to stop.
StreamRead ==
    ready > 0 ~> (\E c \in Consumers : loop[c] = "handle") \/ flag
                                                           \/ server \in {"boot", "failed"}
=============================================================================
