------------------------------ MODULE Debounce ------------------------------
(***************************************************************************)
(* The debouncing of upload events (src/queue.rs, lines 1083-1161): each    *)
(* event extends a quiet window of its pipeline, the scheduler of every     *)
(* worker pops the windows that are over and enqueues one job for each.     *)
(*                                                                         *)
(* An event is two Redis commands, SET NX GET of the batch start and ZADD   *)
(* of the due time, with any delay before each; a pop is one Lua script,    *)
(* the enqueues that follow it are commands of their own.  Time is counted  *)
(* in periods of the scheduler (1 s).  A failed command may or may not have *)
(* been applied.                                                           *)
(***************************************************************************)
EXTENDS Integers, FiniteSets

CONSTANTS
    Slugs,          \* pipelines
    Handlers,       \* concurrent calls of post_s3_events, of all workers
    Workers,        \* worker processes, each with one scheduler
    Quiet,          \* QUIET_MS
    MaxWait,        \* MAX_WAIT_MS
    PopLimit,       \* the LIMIT of POP_DUE_LUA
    Lag,            \* how long a due window may wait for a scheduler
    MaxTime,        \* the clock stops here
    LastArrival,    \* no event arrives later, so that windows can end
    MaxArrivals,    \* how many events, or requests of module Webhook, arrive
    MaxFaults,      \* how many commands may fail, workers die
    None

ASSUME DebounceAssumption ==
    /\ Quiet \in Nat /\ MaxWait \in Nat /\ Lag \in Nat /\ MaxTime \in Nat
    /\ Quiet <= MaxWait /\ Lag < 3 * MaxWait
    /\ MaxFaults \in Nat /\ MaxArrivals \in Nat /\ LastArrival \in Nat
    /\ PopLimit \in Nat \ {0}
    /\ None \notin Int

VARIABLES
    clock,
    first,          \* slug -> value of its karet:debounce:first key
    score,          \* slug -> its score in the debounce ZSET
    call,           \* handler -> the debounce_event it is in
    due,            \* worker -> slugs popped and not yet enqueued
    owed,           \* ghost: an event is recorded and no job followed it yet
    oldest,         \* ghost: when the first event of the window was recorded
    faults,         \* how many faults have happened
    arrivals        \* how many events or requests have arrived

debounceVars == <<clock, first, score, call, due, owed, oldest, faults, arrivals>>

Time == 0 .. MaxTime

\* debounce_event between now_ms() and its return: start is unknown before
\* the SET, and the batch start the ZADD will use after it.
Calls == [slug : Slugs, now : Time, start : Time \cup {None}]

DebounceInit ==
    /\ clock = 0
    /\ first = [p \in Slugs |-> None]
    /\ score = [p \in Slugs |-> None]
    /\ call = [h \in Handlers |-> None]
    /\ due = [w \in Workers |-> {}]
    /\ owed = [p \in Slugs |-> FALSE]
    /\ oldest = [p \in Slugs |-> None]
    /\ faults = 0
    /\ arrivals = 0

Arrival == arrivals < MaxArrivals /\ clock <= LastArrival /\ arrivals' = arrivals + 1

Fault == faults < MaxFaults /\ faults' = faults + 1

-----------------------------------------------------------------------------
\* debounce_event

\* The clock is read.  Webhook takes the slug from the ones the key routes to.
BeginEvent(h, p) ==
    call' = [call EXCEPT ![h] = [slug |-> p, now |-> clock, start |-> None]]

\* The key holds its expiry instead of the batch start.
FirstAfterExpiry(p, t) == IF first[p] = None THEN t + 4 * MaxWait ELSE first[p]

\* The value of the first key after SET NX with t.
FirstAfter(p, t) == IF first[p] = None THEN t ELSE first[p]

\* SET first NX GET PX: only the first event of a batch sets it.
SetFirst(h) ==
    /\ call[h] # None
    /\ call[h].start = None
    /\ LET p == call[h].slug
           f == FirstAfter(p, call[h].now)
       IN  /\ first' = [first EXCEPT ![p] = f]
           /\ call' = [call EXCEPT ![h].start = f]
    /\ UNCHANGED <<clock, score, due, owed, oldest, faults, arrivals>>

\* A window that every event extends, without the cap.
FireAtNoCap(now, start) == now + Quiet

FireAt(now, start) ==
    IF now + Quiet <= start + MaxWait THEN now + Quiet ELSE start + MaxWait

\* An event that finds a window open leaves the ZADD to the one that opened it.
AddEffectFirstOnly(h) ==
    LET p == call[h].slug
    IN  /\ score' = [score EXCEPT ![p] = IF call[h].now = call[h].start
                                         THEN FireAt(call[h].now, call[h].start) ELSE @]
        /\ owed' = [owed EXCEPT ![p] = TRUE]
        /\ oldest' = [oldest EXCEPT ![p] = IF score[p] = None THEN clock ELSE @]

\* ZADD of the due time.
AddEffect(h) ==
    LET p == call[h].slug
    IN  /\ score' = [score EXCEPT ![p] = FireAt(call[h].now, call[h].start)]
        /\ owed' = [owed EXCEPT ![p] = TRUE]
        /\ oldest' = [oldest EXCEPT ![p] = IF score[p] = None THEN clock ELSE @]

AddScore(h) ==
    /\ call[h] # None
    /\ call[h].start # None
    /\ AddEffect(h)
    /\ call' = [call EXCEPT ![h] = None]
    /\ UNCHANGED <<clock, first, due, faults, arrivals>>

\* A failed SET or ZADD ends debounce_event with an error; the handler logs
\* it and goes on with the next slug.
SetFails(h) ==
    /\ call[h] # None
    /\ call[h].start = None
    /\ Fault
    /\ \/ first' = [first EXCEPT ![call[h].slug] = FirstAfter(call[h].slug, call[h].now)]
       \/ UNCHANGED first
    /\ call' = [call EXCEPT ![h] = None]
    /\ UNCHANGED <<clock, score, due, owed, oldest, arrivals>>

AddFails(h) ==
    /\ call[h] # None
    /\ call[h].start # None
    /\ Fault
    /\ \/ AddEffect(h)
       \/ UNCHANGED <<score, owed, oldest>>
    /\ call' = [call EXCEPT ![h] = None]
    /\ UNCHANGED <<clock, first, due, arrivals>>

-----------------------------------------------------------------------------
\* debounce_scheduler_loop

IsDue(p) == score[p] # None /\ score[p] <= clock

Due == {p \in Slugs : IsDue(p)}

\* The slugs one run of the script returns: the most overdue, at most LIMIT.
Poppable(D) ==
    /\ D \subseteq Due
    /\ D # {}
    /\ Cardinality(D) <= PopLimit
    /\ D = Due \/ Cardinality(D) = PopLimit
    /\ \A p \in D, q \in Due \ D : score[p] <= score[q]

Without(f, D) == [p \in Slugs |-> IF p \in D THEN None ELSE f[p]]

\* Removes every due slug, also those above the LIMIT that are not returned.
PoppedAll(D) ==
    /\ score' = Without(score, Due)
    /\ oldest' = Without(oldest, Due)
    /\ first' = Without(first, Due)

\* ZREM and DEL of every slug returned.
Popped(D) ==
    /\ score' = Without(score, D)
    /\ oldest' = Without(oldest, D)
    /\ first' = Without(first, D)

PopDue(w) ==
    /\ due[w] = {}
    /\ \E D \in SUBSET Slugs :
          /\ Poppable(D)
          /\ Popped(D)
          /\ due' = [due EXCEPT ![w] = D]
    /\ UNCHANGED <<clock, call, owed, faults, arrivals>>

\* Events whose slug is dropped after a pop are served by no job, unless a
\* later event of the slug has opened a window again.
Forgotten(D, s) == [p \in Slugs |-> owed[p] /\ (p \in D => s[p] # None)]

\* The reply of the script is lost: what it popped is gone.
PopReplyLost(w) ==
    /\ due[w] = {}
    /\ Fault
    /\ \E D \in SUBSET Slugs :
          /\ Poppable(D)
          /\ Popped(D)
          /\ owed' = Forgotten(D, score')
    /\ UNCHANGED <<clock, call, due, arrivals>>

\* Holds a job back while a newer window of its slug is open.
EnqueueDueQuiet(w) ==
    /\ \E p \in due[w] :
          /\ score[p] = None
          /\ due' = [due EXCEPT ![w] = @ \ {p}]
          /\ owed' = [owed EXCEPT ![p] = FALSE]
    /\ UNCHANGED <<clock, first, score, call, oldest, faults, arrivals>>

\* enqueue of the job of one slug.  The job lists the lake when it starts, so
\* it covers every upload whose event is recorded by now.
EnqueueDue(w) ==
    /\ \E p \in due[w] :
          /\ due' = [due EXCEPT ![w] = @ \ {p}]
          /\ owed' = [owed EXCEPT ![p] = FALSE]
    /\ UNCHANGED <<clock, first, score, call, oldest, faults, arrivals>>

\* A failed enqueue is only logged.
EnqueueFails(w) ==
    /\ Fault
    /\ \E p \in due[w] :
          /\ due' = [due EXCEPT ![w] = @ \ {p}]
          /\ \/ owed' = Forgotten({p}, score)
             \/ owed' = [owed EXCEPT ![p] = FALSE]
    /\ UNCHANGED <<clock, first, score, call, oldest, arrivals>>

-----------------------------------------------------------------------------
\* Redis and time

FirstTTL == 4 * MaxWait

\* PX of the first key, which is set at the time of its value or later.
FirstExpires(p) ==
    /\ first[p] # None
    /\ clock >= first[p] + FirstTTL
    /\ first' = [first EXCEPT ![p] = None]
    /\ UNCHANGED <<clock, score, call, due, owed, oldest, faults, arrivals>>

\* Time passes; a scheduler polls every second, so no window stays due for
\* longer than Lag.
Tick ==
    /\ clock < MaxTime
    /\ \A p \in Slugs : score[p] # None => clock < score[p] + Lag
    /\ clock' = clock + 1
    /\ UNCHANGED <<first, score, call, due, owed, oldest, faults, arrivals>>

\* A scheduler, or the whole worker, stops between the pop and the enqueues.
SchedulerDies(w) ==
    /\ Fault
    /\ due[w] # {}
    /\ due' = [due EXCEPT ![w] = {}]
    /\ owed' = Forgotten(due[w], score)
    /\ UNCHANGED <<clock, first, score, call, oldest, arrivals>>

-----------------------------------------------------------------------------
\* The debouncer by itself: events of any slug arrive at any time.

Event(h) ==
    /\ call[h] = None
    /\ Arrival
    /\ \E p \in Slugs : BeginEvent(h, p)
    /\ UNCHANGED <<clock, first, score, due, owed, oldest, faults>>

EventStep(h) == SetFirst(h) \/ AddScore(h)

SchedulerStep(w) == PopDue(w) \/ EnqueueDue(w)

DebounceNext ==
    \/ \E h \in Handlers : Event(h) \/ EventStep(h) \/ SetFails(h) \/ AddFails(h)
    \/ \E w \in Workers : \/ SchedulerStep(w)
                          \/ PopReplyLost(w) \/ EnqueueFails(w) \/ SchedulerDies(w)
    \/ \E p \in Slugs : FirstExpires(p)
    \/ Tick

DebounceSpec == DebounceInit /\ [][DebounceNext]_debounceVars

\* Calls return, schedulers poll and time passes; nobody has to upload or fail.
DebounceFairSpec ==
    /\ DebounceSpec
    /\ \A h \in Handlers : WF_debounceVars(EventStep(h))
    /\ \A w \in Workers : WF_debounceVars(SchedulerStep(w))
    /\ WF_debounceVars(Tick)

-----------------------------------------------------------------------------
\* Properties

DebounceTypeOK ==
    /\ clock \in Time
    /\ first \in [Slugs -> Time \cup {None}]
    /\ score \in [Slugs -> Int \cup {None}]
    /\ call \in [Handlers -> Calls \cup {None}]
    /\ due \in [Workers -> SUBSET Slugs]
    /\ owed \in [Slugs -> BOOLEAN]
    /\ oldest \in [Slugs -> Time \cup {None}]
    /\ faults \in 0 .. MaxFaults
    /\ arrivals \in 0 .. MaxArrivals

\* An upload event that was recorded, and that no failure has dropped since,
\* still has an open window or a job about to be enqueued, whatever events,
\* pops and expiries come between its two commands.
EventsKept ==
    \A p \in Slugs : owed[p] => score[p] # None \/ \E w \in Workers : p \in due[w]

\* However many events follow, and however the SET and ZADD of several of
\* them interleave with a pop that deletes the batch start, a window is over
\* within the quiet time and the maximal wait after its first event was
\* recorded.  (debounce_event promises the maximal wait alone, which holds
\* when no pop comes between the SET and the ZADD of that event.)
WaitBounded ==
    \A p \in Slugs : score[p] # None => score[p] <= oldest[p] + Quiet + Lag + MaxWait

\* Every recorded event that no failure drops is followed by a job.
EventServed == \A p \in Slugs : owed[p] ~> ~owed[p]
=============================================================================
