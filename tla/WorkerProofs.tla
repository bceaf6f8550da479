---------------------------- MODULE WorkerProofs ----------------------------
(***************************************************************************)
(* What the life of a worker guarantees for any number of consumer loops,  *)
(* connections, entries and failed commands: a worker that exits leaves    *)
(* nothing running, a consumer claims at most one entry after it was told  *)
(* to stop, and /health shows an outage that every consumer sees.          *)
(***************************************************************************)
EXTENDS Worker, FiniteSetTheorems, TLAPS

\* Loops that are running a job.
Running == {l \in Claimers : loop[l] = "run"}

\* in_flight counts the running jobs, until a bind that failed drops the loops
\* wherever they are, and then none goes on.
Counted ==
    /\ server # "failed" => inFlight = Cardinality(Running)
    /\ server = "failed" => \A l \in Loops : loop[l] \in {"unborn", "dropped"}
    /\ server = "boot" => \A l \in Loops : loop[l] = "unborn"

\* run() returns only once every loop has.
AllJoined == server = "exited" => \A l \in Loops : loop[l] = "exited"

\* A consumer that is still in its read has claimed nothing since the flag was
\* set, and nobody has before.
Claims ==
    \A c \in Consumers : /\ late[c] <= 1
                         /\ loop[c] = "read" => late[c] = 0
                         /\ ~flag => late[c] = 0

LifeInv == TypeOK /\ Counted /\ AllJoined /\ Claims

-----------------------------------------------------------------------------
(* The loops.                                                               *)

\* The loops that may claim are finitely many, and so are those that run.
LEMMA RunningFinite == IsFiniteSet(Running)
<1>1. IsFiniteSet(Claimers)
  BY WorkerAssumption, FS_AddElement DEF Claimers
<1> QED
  BY <1>1, FS_Subset DEF Running

Labels == {"unborn", "head", "read", "pause", "handle", "run", "tick", "scan", "enqueue",
           "exited", "dropped"}

\* A loop that goes on leaves the others where they are.
LEMMA GotoType ==
    ASSUME TypeOK, NEW l \in Loops, NEW label \in Labels, Goto(l, label)
    PROVE  loop' \in [Loops -> Labels]
  BY DEF Goto, TypeOK, Labels

\* A loop that starts a run is one more, ...
LEMMA OneMore ==
    ASSUME TypeOK, NEW l \in Claimers, loop[l] # "run", Goto(l, "run")
    PROVE  Cardinality(Running') = Cardinality(Running) + 1
<1>1. Running' = Running \cup {l} /\ l \notin Running
  BY DEF Running, Goto, TypeOK, Loops, Claimers
<1>2. IsFiniteSet(Running)
  BY RunningFinite
<1> QED
  BY <1>1, <1>2, FS_AddElement

\* ... one that returns is one less ...
LEMMA OneLess ==
    ASSUME TypeOK, NEW l \in Claimers, loop[l] = "run", Goto(l, Back(l))
    PROVE  /\ Cardinality(Running') = Cardinality(Running) - 1
           /\ Cardinality(Running) \in Nat \ {0}
<1>1. Running' = Running \ {l} /\ l \in Running
  BY DEF Running, Goto, Back, TypeOK, Loops, Claimers
<1>2. IsFiniteSet(Running)
  BY RunningFinite
<1>3. Cardinality(Running) \in Nat /\ Cardinality(Running) # 0
  BY <1>1, <1>2, FS_CardinalityType, FS_EmptySet
<1>4. Cardinality(Running') = Cardinality(Running) - 1
  BY <1>1, <1>2, FS_RemoveElement
<1> QED
  BY <1>3, <1>4

\* ... and any other step of a loop leaves them as they are.
LEMMA NoneMore ==
    ASSUME TypeOK, NEW l \in Loops, NEW label, loop[l] # "run", label # "run", Goto(l, label)
    PROVE  Running' = Running
<1>1. \A k \in Claimers : loop'[k] = "run" <=> loop[k] = "run"
  BY DEF Goto, TypeOK, Loops, Claimers
<1> QED
  BY <1>1 DEF Running

\* At the start nothing runs.
LEMMA LifeInit == Init => LifeInv
<1> SUFFICES ASSUME Init PROVE LifeInv
  OBVIOUS
<1>1. TypeOK
  <2>1. 0 \in 0 .. MaxConns /\ 0 \in 0 .. MaxFed /\ 0 \in 0 .. MaxFaults
    BY WorkerAssumption
  <2> QED
    BY <2>1 DEF Init, TypeOK
<1>2. Running = {}
  BY DEF Init, Running, Loops, Claimers
<1>3. Counted
  BY <1>2, FS_EmptySet DEF Init, Counted
<1>4. AllJoined /\ Claims
  BY DEF Init, AllJoined, Claims, Claimers
<1> QED
  BY <1>1, <1>3, <1>4 DEF LifeInv

-----------------------------------------------------------------------------
(* The steps.                                                               *)

\* run() and its connections keep the invariant: the loops are spawned and
\* dropped together, and joined before the process exits.
LEMMA ServerStep ==
    ASSUME LifeInv,
           \/ BootFails \/ SpawnLoops \/ Bind \/ BindFails \/ OpenConn \/ CloseConn
           \/ Signal \/ SetFlag \/ Exit
    PROVE  LifeInv'
<1> USE DEF queueVars
<1>1. TypeOK /\ Counted /\ AllJoined /\ Claims
  BY DEF LifeInv
<1>2. Claims'
  <2>1. late' = late /\ (flag => flag')
    BY DEF BootFails, SpawnLoops, Bind, BindFails, OpenConn, CloseConn, Signal, SetFlag, Exit
  <2>2. \A c \in Consumers : loop'[c] = "read" => loop[c] = "read"
    BY DEF BootFails, SpawnLoops, Bind, BindFails, OpenConn, CloseConn, Signal, SetFlag, Exit,
       Top, Loops
  <2> QED
    BY <1>1, <2>1, <2>2 DEF Claims
<1>3. TypeOK'
  <2>1. CASE BootFails \/ Bind \/ Signal \/ SetFlag \/ Exit
    BY <1>1, <2>1 DEF TypeOK, BootFails, Bind, Signal, SetFlag, Exit
  <2>2. CASE SpawnLoops \/ BindFails
    BY <1>1, <2>2 DEF TypeOK, SpawnLoops, BindFails, Top
  <2>3. CASE OpenConn \/ CloseConn
    BY <1>1, <2>3, WorkerAssumption DEF TypeOK, OpenConn, CloseConn
  <2> QED
    BY <2>1, <2>2, <2>3
<1>4. Counted' /\ AllJoined'
  <2>1. CASE Bind \/ OpenConn \/ CloseConn \/ Signal \/ SetFlag \/ Exit
    <3>1. loop' = loop /\ inFlight' = inFlight /\ Running' = Running
      BY <2>1 DEF Bind, OpenConn, CloseConn, Signal, SetFlag, Exit, Running
    <3>2. /\ server' = "exited" => server = "exited" \/ Joined
          /\ server' \in {"failed", "boot"} => server' = server
          /\ server = "failed" => server' = "failed"
      BY <2>1 DEF Bind, OpenConn, CloseConn, Signal, SetFlag, Exit
    <3> QED
      BY <1>1, <3>1, <3>2 DEF Counted, AllJoined, Joined
  <2>2. CASE BootFails
    BY <1>1, <2>2 DEF BootFails, Counted, AllJoined
  <2>3. CASE SpawnLoops
    <3>1. Running = {} /\ Running' = {}
      BY <1>1, <2>3 DEF SpawnLoops, Counted, Running, Loops, Claimers, Top
    <3> QED
      BY <1>1, <2>3, <3>1 DEF SpawnLoops, Counted, AllJoined
  <2>4. CASE BindFails
    BY <1>1, <2>4 DEF BindFails, Counted, AllJoined
  <2> QED
    BY <2>1, <2>2, <2>3, <2>4
<1> QED
  BY <1>1, <1>2, <1>3, <1>4 DEF LifeInv

\* What the step of a loop leaves to check: it takes no part in the start, the
\* end, the connections or the flag.
LEMMA LoopStep ==
    ASSUME LifeInv, TypeOK', NEW l \in Loops, NEW label, Goto(l, label),
           loop[l] \notin {"unborn", "exited", "dropped"},
           server' = server, flag' = flag,
           inFlight' - inFlight = Cardinality(Running') - Cardinality(Running),
           \A c \in Consumers : c # l => late'[c] = late[c],
           l \in Consumers => /\ late'[l] <= 1
                              /\ label = "read" => late'[l] = 0
                              /\ ~flag => late'[l] = 0
    PROVE  LifeInv'
<1>1. TypeOK /\ Counted /\ AllJoined /\ Claims
  BY DEF LifeInv
<1>2. loop' = [loop EXCEPT ![l] = label]
  BY DEF Goto
<1>3. server \notin {"failed", "boot", "exited"}
  BY <1>1 DEF Counted, AllJoined
<1>4. inFlight = Cardinality(Running) /\ inFlight \in Nat /\ inFlight' \in Nat
  BY <1>1, <1>3 DEF Counted, TypeOK
<1>5. Cardinality(Running') \in Nat
  <2>1. IsFiniteSet(Running')
    <3>1. Running' \subseteq Claimers /\ IsFiniteSet(Consumers)
      BY WorkerAssumption DEF Running
    <3>2. IsFiniteSet(Claimers)
      BY <3>1, FS_AddElement DEF Claimers
    <3> QED
      BY <3>1, <3>2, FS_Subset
  <2> QED
    BY <2>1, FS_CardinalityType
<1>6. Counted' /\ AllJoined'
  BY <1>3, <1>4, <1>5 DEF Counted, AllJoined
<1>7. Claims'
  BY <1>1, <1>2 DEF Claims, TypeOK, Loops
<1> QED
  BY <1>6, <1>7 DEF LifeInv

\* A consumer reads only when it has seen the flag unset, and pauses when the
\* read fails.
LEMMA ConsumerStepInv ==
    ASSUME LifeInv, NEW c \in Consumers, ConsumerStep(c) \/ ReadFails(c)
    PROVE  LifeInv'
<1> USE DEF queueVars
<1>1. TypeOK /\ Claims
  BY DEF LifeInv
<1>2. c \in Loops /\ c \in Claimers
  BY DEF Loops, Claimers
<1>3. PICK label \in {"exited", "read", "handle", "head", "pause"} :
         /\ Goto(c, label)
         /\ loop[c] \in {"head", "read", "pause"}
         /\ label = "read" => loop[c] = "head" /\ ~flag
         /\ label = "handle" => loop[c] = "read"
         /\ late'[c] = (IF label = "handle" /\ flag THEN late[c] + 1 ELSE late[c])
         /\ \A k \in Claimers : k # c => late'[k] = late[k]
         /\ UNCHANGED <<server, flag, inFlight>>
  <2>1. CASE ConsumerHead(c)
    BY <2>1 DEF ConsumerHead
  <2>2. CASE ReadReply(c)
    <3>1. late'[c] \in Nat
      BY <1>1, <1>2, <2>2 DEF ReadReply, TypeOK
    <3> QED
      BY <1>1, <1>2, <2>2 DEF ReadReply, TypeOK
  <2>3. CASE PauseEnds(c)
    BY <2>3 DEF PauseEnds
  <2>4. CASE ReadFails(c)
    BY <2>4 DEF ReadFails
  <2> QED
    BY <2>1, <2>2, <2>3, <2>4 DEF ConsumerStep
<1>4. TypeOK'
  <2>1. CASE ConsumerHead(c)
    BY <1>1, <2>1 DEF ConsumerHead, Goto, TypeOK
  <2>2. CASE ReadReply(c)
    <3>1. UNCHANGED <<server, conns, flag, inFlight, stale, delayed, fed, faults>>
      BY <2>2 DEF ReadReply
    <3>2. consumerOk' \in BOOLEAN /\ lastRead' \in [Consumers -> {"none", "ok", "failed"}]
      BY <1>1, <2>2 DEF ReadReply, TypeOK
    <3>3. ready' \in Nat /\ late' \in [Claimers -> Nat]
      BY <1>1, <2>2 DEF ReadReply, TypeOK
    <3>4. loop' \in [Loops -> Labels]
      BY <1>1, <1>2, <1>3, GotoType DEF Labels
    <3> QED
      BY <1>1, <3>1, <3>2, <3>3, <3>4 DEF TypeOK, Labels
  <2>3. CASE PauseEnds(c)
    BY <1>1, <2>3 DEF PauseEnds, Goto, TypeOK
  <2>4. CASE ReadFails(c)
    <3>1. loop' \in [Loops -> Labels]
      BY <1>1, <1>2, <1>3, GotoType DEF Labels
    <3>2. faults' \in 0 .. MaxFaults /\ lastRead' \in [Consumers -> {"none", "ok", "failed"}]
      BY <1>1, <2>4, WorkerAssumption DEF ReadFails, Fault, TypeOK
    <3>3. UNCHANGED <<server, conns, flag, inFlight, late, queueVars>> /\ consumerOk' = FALSE
      BY <2>4 DEF ReadFails
    <3> QED
      BY <1>1, <3>1, <3>2, <3>3 DEF TypeOK, Labels
  <2> QED
    BY <2>1, <2>2, <2>3, <2>4 DEF ConsumerStep
<1>5. Running' = Running
  BY <1>1, <1>2, <1>3, NoneMore
<1>6. /\ late'[c] <= 1
      /\ label = "read" => late'[c] = 0
      /\ ~flag => late'[c] = 0
  <2>1. late[c] \in Nat /\ late[c] <= 1
    BY <1>1, <1>2 DEF TypeOK, Claims
  <2> QED
    BY <1>1, <1>3, <2>1 DEF Claims
<1>7. inFlight' - inFlight = Cardinality(Running') - Cardinality(Running)
  <2>1. Cardinality(Running) \in Nat
    BY RunningFinite, FS_CardinalityType
  <2> QED
    BY <1>1, <1>3, <1>5, <2>1 DEF TypeOK
<1>8. \A k \in Consumers : k # c => late'[k] = late[k]
  BY <1>3 DEF Claimers
<1> QED
  BY <1>2, <1>3, <1>4, <1>6, <1>7, <1>8, LoopStep

\* handle_claimed counts the run it starts and no other.
LEMMA HandlerStepInv ==
    ASSUME LifeInv, NEW l \in Claimers, HandlerStep(l)
    PROVE  LifeInv'
<1> USE DEF queueVars
<1>1. TypeOK /\ Claims /\ Counted
  BY DEF LifeInv
<1>2. l \in Loops /\ Back(l) \in {"head", "scan"}
  BY DEF Loops, Claimers, Back
<1>3. late' = late /\ server' = server /\ flag' = flag /\ loop[l] \in {"handle", "run"}
  BY DEF HandlerStep, HandleEarly, HandleRun, HandleReturn
<1>4. /\ \A c \in Consumers : c # l => late'[c] = late[c]
      /\ l \in Consumers => late'[l] <= 1 /\ (~flag => late'[l] = 0)
  BY <1>1, <1>3 DEF Claims
<1>5. Cardinality(Running) \in Nat /\ inFlight \in Nat
  BY <1>1, RunningFinite, FS_CardinalityType DEF TypeOK
<1>6. CASE HandleEarly(l)
  <2>1. Goto(l, Back(l)) /\ loop[l] = "handle" /\ inFlight' = inFlight
    BY <1>6 DEF HandleEarly
  <2>2. Running' = Running
    BY <1>1, <1>2, <2>1, NoneMore
  <2>3. TypeOK'
    <3>1. loop' \in [Loops -> Labels]
      BY <1>1, <1>2, <2>1, GotoType DEF Labels
    <3>2. stale' \in Nat /\ delayed' \in Nat /\ faults' \in 0 .. MaxFaults
      BY <1>1, <1>6, WorkerAssumption DEF HandleEarly, Fault, TypeOK
    <3>3. UNCHANGED <<server, conns, flag, inFlight, consumerOk, late, lastRead, ready, fed>>
      BY <1>6 DEF HandleEarly
    <3> QED
      BY <1>1, <3>1, <3>2, <3>3 DEF TypeOK, Labels
  <2>4. inFlight' - inFlight = Cardinality(Running') - Cardinality(Running)
    BY <1>5, <2>1, <2>2
  <2> QED
    BY <1>2, <1>3, <1>4, <2>1, <2>3, <2>4, LoopStep
<1>7. CASE HandleRun(l)
  <2>1. Goto(l, "run") /\ loop[l] = "handle" /\ inFlight' = inFlight + 1
    BY <1>7 DEF HandleRun
  <2>2. Cardinality(Running') = Cardinality(Running) + 1
    BY <1>1, <2>1, OneMore
  <2>3. TypeOK'
    <3>1. loop' \in [Loops -> Labels]
      BY <1>1, <1>2, <2>1, GotoType DEF Labels
    <3>2. UNCHANGED <<server, conns, flag, consumerOk, late, lastRead, faults, queueVars>>
      BY <1>7 DEF HandleRun
    <3> QED
      BY <1>1, <2>1, <3>1, <3>2 DEF TypeOK, Labels
  <2>4. inFlight' - inFlight = Cardinality(Running') - Cardinality(Running)
    BY <1>5, <2>1, <2>2
  <2> QED
    BY <1>2, <1>3, <1>4, <2>1, <2>3, <2>4, LoopStep
<1>8. CASE HandleReturn(l)
  <2>1. Goto(l, Back(l)) /\ loop[l] = "run" /\ inFlight' = inFlight - 1
    BY <1>8 DEF HandleReturn
  <2>2. Cardinality(Running') = Cardinality(Running) - 1 /\ Cardinality(Running) # 0
    BY <1>1, <2>1, OneLess
  <2>3. TypeOK'
    <3>1. inFlight = Cardinality(Running)
      BY <1>1, <1>2, <2>1 DEF Counted
    <3>2. inFlight' \in Nat
      BY <1>5, <2>1, <2>2, <3>1
    <3>3. loop' \in [Loops -> Labels]
      BY <1>1, <1>2, <2>1, GotoType DEF Labels
    <3>4. stale' \in Nat /\ delayed' \in Nat /\ faults' \in 0 .. MaxFaults
      BY <1>1, <1>8, WorkerAssumption DEF HandleReturn, Fault, TypeOK
    <3>5. UNCHANGED <<server, conns, flag, consumerOk, late, lastRead, ready, fed>>
      BY <1>8 DEF HandleReturn
    <3> QED
      BY <1>1, <3>2, <3>3, <3>4, <3>5 DEF TypeOK, Labels
  <2>4. inFlight' - inFlight = Cardinality(Running') - Cardinality(Running)
    BY <1>5, <2>1, <2>2
  <2> QED
    BY <1>2, <1>3, <1>4, <2>1, <2>3, <2>4, LoopStep
<1> QED
  BY <1>6, <1>7, <1>8 DEF HandlerStep

\* The loops on an interval start no run of their own; what the reclaimer claims
\* after the flag is not a consumer's claim.
LEMMA IntervalStepInv ==
    ASSUME LifeInv,
           MoverTick \/ ReclaimerTick \/ Reclaim \/ ReclaimFails \/ SchedulerTick \/ SchedulerEnqueue
    PROVE  LifeInv'
<1> USE DEF queueVars
<1>1. TypeOK /\ Claims
  BY DEF LifeInv
<1>2. "mover" \in Loops /\ "reclaimer" \in Loops /\ "scheduler" \in Loops /\ "reclaimer" \in Claimers
  BY DEF Loops, Claimers
<1>3. PICK l \in {"mover", "reclaimer", "scheduler"} :
         \E label \in {"tick", "scan", "handle", "enqueue", "exited"} :
            /\ Goto(l, label) /\ loop[l] \in {"tick", "scan", "enqueue"}
  <2>1. CASE MoverTick
    <3>1. loop["mover"] = "tick" /\ (Goto("mover", "exited") \/ loop' = loop)
      BY <2>1 DEF MoverTick
    <3>2. loop' = loop => Goto("mover", "tick")
      BY <1>1, <1>2, <3>1 DEF Goto, TypeOK
    <3> QED
      BY <3>1, <3>2
  <2>2. CASE ReclaimerTick \/ Reclaim \/ ReclaimFails
    BY <2>2 DEF ReclaimerTick, Reclaim, ReclaimFails
  <2>3. CASE SchedulerTick \/ SchedulerEnqueue
    BY <2>3 DEF SchedulerTick, SchedulerEnqueue
  <2> QED
    BY <2>1, <2>2, <2>3
<1>4. PICK label \in {"tick", "scan", "handle", "enqueue", "exited"} : Goto(l, label)
  BY <1>3
<1>5. l \in Loops /\ l \notin Consumers /\ loop[l] \notin {"unborn", "exited", "dropped", "run"}
  BY <1>2, <1>3, WorkerAssumption
<1>6. /\ UNCHANGED <<server, conns, flag, inFlight, consumerOk, lastRead>>
      /\ ready' \in Nat /\ stale' \in Nat /\ delayed' \in Nat
      /\ fed' \in 0 .. MaxFed /\ faults' \in 0 .. MaxFaults
  <2>1. CASE MoverTick \/ Reclaim
    BY <1>1, <2>1 DEF MoverTick, Reclaim, TypeOK
  <2>2. CASE ReclaimerTick \/ ReclaimFails
    BY <1>1, <2>2, WorkerAssumption DEF ReclaimerTick, ReclaimFails, Fault, TypeOK
  <2>3. CASE SchedulerTick \/ SchedulerEnqueue
    BY <1>1, <2>3, WorkerAssumption DEF SchedulerTick, SchedulerEnqueue, TypeOK
  <2> QED
    BY <2>1, <2>2, <2>3
<1>7. late' \in [Claimers -> Nat] /\ \A c \in Consumers : late'[c] = late[c]
  <2>1. late' = late \/ late' = [late EXCEPT !["reclaimer"] = IF flag THEN @ + 1 ELSE @]
    BY DEF MoverTick, ReclaimerTick, Reclaim, ReclaimFails, SchedulerTick, SchedulerEnqueue
  <2>2. late \in [Claimers -> Nat] /\ \A c \in Consumers : c \in Claimers /\ c # "reclaimer"
    BY <1>1, WorkerAssumption DEF TypeOK, Claimers
  <2> QED
    BY <2>1, <2>2
<1>8. TypeOK'
  <2>1. loop' \in [Loops -> Labels]
    BY <1>1, <1>4, <1>5, GotoType DEF Labels
  <2> QED
    BY <1>1, <1>6, <1>7, <2>1 DEF TypeOK, Labels
<1>9. Running' = Running
  BY <1>1, <1>4, <1>5, NoneMore
<1>10. inFlight' - inFlight = Cardinality(Running') - Cardinality(Running)
  <2>1. Cardinality(Running) \in Nat /\ inFlight \in Nat
    BY <1>1, RunningFinite, FS_CardinalityType DEF TypeOK
  <2> QED
    BY <1>6, <1>9, <2>1
<1> QED
  BY <1>4, <1>5, <1>6, <1>7, <1>8, <1>10, LoopStep

\* Every step keeps the invariant.
LEMMA LifeStep == LifeInv /\ [Next]_vars => LifeInv'
<1> SUFFICES ASSUME LifeInv, [Next]_vars PROVE LifeInv'
  OBVIOUS
<1>1. CASE \/ BootFails \/ SpawnLoops \/ Bind \/ BindFails \/ OpenConn \/ CloseConn
           \/ Signal \/ SetFlag \/ Exit
  BY <1>1, ServerStep
<1>2. CASE \E c \in Consumers : ConsumerStep(c) \/ ReadFails(c)
  BY <1>2, ConsumerStepInv
<1>3. CASE \E l \in Claimers : HandlerStep(l)
  BY <1>3, HandlerStepInv
<1>4. CASE \/ MoverTick \/ ReclaimerTick \/ Reclaim \/ ReclaimFails
           \/ SchedulerTick \/ SchedulerEnqueue
  BY <1>4, IntervalStepInv
<1>5. CASE Feed \/ UNCHANGED vars
  <2>1. UNCHANGED <<server, conns, flag, loop, inFlight, consumerOk, late, lastRead, faults, delayed>>
    BY <1>5 DEF Feed, vars, queueVars
  <2>2. TypeOK
    BY DEF LifeInv
  <2>3. ready' \in Nat /\ stale' \in Nat /\ fed' \in 0 .. MaxFed
    BY <1>5, <2>2, WorkerAssumption DEF Feed, vars, queueVars, TypeOK
  <2>4. TypeOK'
    BY <2>1, <2>2, <2>3 DEF TypeOK
  <2> QED
    BY <2>1, <2>4 DEF LifeInv, Counted, Running, AllJoined, Claims
<1> QED
  BY <1>1, <1>2, <1>3, <1>4, <1>5 DEF Next

\* The flag of /health follows the last outcome of any consumer.
LEMMA OutageStep == TypeOK /\ OutageReported /\ [Next]_vars => OutageReported'
<1> SUFFICES ASSUME TypeOK, OutageReported, [Next]_vars PROVE OutageReported'
  OBVIOUS
<1> USE DEF queueVars
<1>1. ASSUME NEW c \in Consumers, ReadReply(c) PROVE OutageReported'
  <2>1. lastRead'[c] = "ok"
    BY <1>1 DEF ReadReply, TypeOK
  <2> QED
    BY <2>1 DEF OutageReported
<1>2. ASSUME NEW c \in Consumers, ReadFails(c) PROVE OutageReported'
  BY <1>2 DEF ReadFails, OutageReported, HealthOk
<1>3. CASE UNCHANGED <<consumerOk, lastRead>>
  BY <1>3 DEF OutageReported, HealthOk
<1>4. ASSUME NEW c \in Consumers, ConsumerStep(c), ~ReadReply(c)
      PROVE  UNCHANGED <<consumerOk, lastRead>>
  BY <1>4 DEF ConsumerStep, ConsumerHead, PauseEnds
<1>5. ASSUME NEW l \in Claimers, HandlerStep(l) PROVE UNCHANGED <<consumerOk, lastRead>>
  BY <1>5 DEF HandlerStep, HandleEarly, HandleRun, HandleReturn
<1>6. \/ BootFails \/ SpawnLoops \/ Bind \/ BindFails \/ OpenConn \/ CloseConn
      \/ Signal \/ SetFlag \/ Exit
      \/ MoverTick \/ ReclaimerTick \/ Reclaim \/ ReclaimFails
      \/ SchedulerTick \/ SchedulerEnqueue \/ Feed \/ UNCHANGED vars
      => UNCHANGED <<consumerOk, lastRead>>
  BY DEF BootFails, SpawnLoops, Bind, BindFails, OpenConn, CloseConn, Signal, SetFlag, Exit,
     MoverTick, ReclaimerTick, Reclaim, ReclaimFails, SchedulerTick, SchedulerEnqueue, Feed, vars
<1> QED
  BY <1>1, <1>2, <1>3, <1>4, <1>5, <1>6 DEF Next

-----------------------------------------------------------------------------
(* The theorems.                                                            *)

\* The invariant that the theorems follow from.
LEMMA LifeInvariant == Spec => []LifeInv
  BY LifeInit, LifeStep, PTL DEF Spec

\* The types hold; in_flight in particular never goes below zero, a port that
\* cannot be bound or not.
THEOREM TypesHold == Spec => []TypeOK
<1>1. LifeInv => TypeOK
  BY DEF LifeInv
<1> QED
  BY <1>1, LifeInvariant, PTL

\* When run() returns no delivery is being handled and no popped window waits
\* for its enqueue, however many loops there are.
THEOREM ExitIsClean == Spec => []NothingAbandoned
<1>1. LifeInv => NothingAbandoned
  <2> SUFFICES ASSUME LifeInv, server = "exited" PROVE NothingAbandoned
    BY DEF NothingAbandoned
  <2>1. \A l \in Loops : loop[l] = "exited"
    BY DEF LifeInv, AllJoined
  <2>2. Running = {}
    BY <2>1 DEF Running, Loops, Claimers
  <2>3. inFlight = 0
    BY <2>2, FS_EmptySet DEF LifeInv, Counted
  <2> QED
    BY <2>1, <2>3 DEF NothingAbandoned
<1> QED
  BY <1>1, LifeInvariant, PTL

\* A consumer claims at most one entry after the flag is set: the one its
\* blocked XREADGROUP was given.
THEOREM FewLateClaims == Spec => []LateClaims
<1>1. LifeInv => LateClaims
  BY DEF LifeInv, Claims, LateClaims
<1> QED
  BY <1>1, LifeInvariant, PTL

\* While the last attempt of every consumer has failed, /health does not answer
\* 200, in whatever order their writes of the shared flag fell.
THEOREM OutageShown == Spec => []OutageReported
<1>1. Init => OutageReported
  BY WorkerAssumption DEF Init, OutageReported
<1>2. LifeInv => TypeOK
  BY DEF LifeInv
<1> QED
  BY <1>1, <1>2, LifeInvariant, OutageStep, PTL DEF Spec
=============================================================================
