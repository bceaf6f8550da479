--------------------------- MODULE DebounceProofs ---------------------------
(***************************************************************************)
(* Proofs about Debounce, for all numbers of pipelines, handlers and        *)
(* workers and all time bounds: events are kept until a failure or a job,   *)
(* and a window ends in bounded time.                                      *)
(***************************************************************************)
EXTENDS Debounce, TLAPS

-----------------------------------------------------------------------------
\* The inductive invariant

\* A due time x that can do no harm to a window opened at o whose batch start
\* is f, at time t: it is near the first event, or within the maximal wait of
\* the batch start, or so long past that time cannot pass before the pop.
Harmless(x, o, f, t) ==
    \/ x <= o + Quiet
    \/ f # None /\ x <= f + MaxWait
    \/ x + Lag <= t

\* An open window with due time x: its batch start, if it has one, was set
\* soon after the first event, and the clock is tied to one of the two.
Open(x, o, f, t) ==
    /\ o # None
    /\ o <= t
    /\ f # None => f <= o + Quiet + Lag
    /\ t <= o + Quiet + Lag \/ (f # None /\ t <= f + MaxWait + Lag)
    /\ Harmless(x, o, f, t)

\* Clocks that were read are not ahead of the clock.
ReadBefore ==
    /\ \A p \in Slugs : first[p] # None => first[p] <= clock
    /\ \A h \in Handlers : call[h] # None => call[h].now <= clock

\* The call of h will set a due time for p, and has read the batch start.
Sets(h, p) == call[h] # None /\ call[h].slug = p /\ call[h].start # None

\* The window of p, and the due times that calls in progress will give it.
Window(p) ==
    /\ Open(score[p], oldest[p], first[p], clock)
    /\ \A h \in Handlers : Sets(h, p) =>
          Harmless(FireAt(call[h].now, call[h].start), oldest[p], first[p], clock)

WindowInv == ReadBefore /\ \A p \in Slugs : score[p] # None => Window(p)

-----------------------------------------------------------------------------
\* Types

\* A due time is a number, no later than each of its two limits.
LEMMA FireAtBounds ==
    ASSUME NEW now \in Int, NEW start \in Int
    PROVE  /\ FireAt(now, start) \in Int
           /\ FireAt(now, start) # None
           /\ FireAt(now, start) <= now + Quiet
           /\ FireAt(now, start) <= start + MaxWait
BY DebounceAssumption DEF FireAt

LEMMA TypeInit == DebounceInit => DebounceTypeOK
BY DebounceAssumption DEF DebounceInit, DebounceTypeOK, Time

LEMMA TypeStep == DebounceTypeOK /\ [DebounceNext]_debounceVars => DebounceTypeOK'
<1> SUFFICES ASSUME DebounceTypeOK, [DebounceNext]_debounceVars PROVE DebounceTypeOK'
  OBVIOUS
<1> USE DebounceAssumption DEF DebounceTypeOK, Time
<1>1. ASSUME NEW h \in Handlers, Event(h) PROVE DebounceTypeOK'
  BY <1>1 DEF Event, Arrival, BeginEvent, Calls
<1>2. ASSUME NEW h \in Handlers, SetFirst(h) PROVE DebounceTypeOK'
  <2>1. call[h] \in Calls
    BY <1>2 DEF SetFirst
  <2>2. FirstAfter(call[h].slug, call[h].now) \in Time
    BY <2>1 DEF FirstAfter, Calls
  <2>3. call' \in [Handlers -> Calls \cup {None}]
    BY <1>2, <2>1, <2>2 DEF SetFirst, Calls
  <2> QED
    BY <1>2, <2>1, <2>2, <2>3 DEF SetFirst, Calls
<1>3. ASSUME NEW h \in Handlers, call[h] # None, call[h].start # None, AddEffect(h)
      PROVE  /\ score' \in [Slugs -> Int \cup {None}]
             /\ owed' \in [Slugs -> BOOLEAN]
             /\ oldest' \in [Slugs -> Time \cup {None}]
  <2>1. call[h].slug \in Slugs /\ call[h].now \in Int /\ call[h].start \in Int
    BY <1>3 DEF Calls
  <2>2. FireAt(call[h].now, call[h].start) \in Int
    BY <2>1, FireAtBounds
  <2> QED
    BY <1>3, <2>1, <2>2 DEF AddEffect
<1>4. ASSUME NEW h \in Handlers, AddScore(h) PROVE DebounceTypeOK'
  BY <1>3, <1>4 DEF AddScore
<1>5. ASSUME NEW h \in Handlers, SetFails(h) PROVE DebounceTypeOK'
  <2>1. call[h] \in Calls
    BY <1>5 DEF SetFails
  <2>2. FirstAfter(call[h].slug, call[h].now) \in Time
    BY <2>1 DEF FirstAfter, Calls
  <2> QED
    BY <1>5, <2>1, <2>2 DEF SetFails, Fault, Calls
<1>6. ASSUME NEW h \in Handlers, AddFails(h) PROVE DebounceTypeOK'
  BY <1>3, <1>6 DEF AddFails, Fault
<1>7. ASSUME NEW D \in SUBSET Slugs, Popped(D)
      PROVE  /\ first' \in [Slugs -> Time \cup {None}]
             /\ score' \in [Slugs -> Int \cup {None}]
             /\ oldest' \in [Slugs -> Time \cup {None}]
  BY <1>7 DEF Popped, Without
<1>8. ASSUME NEW w \in Workers, PopDue(w) PROVE DebounceTypeOK'
  BY <1>7, <1>8 DEF PopDue
<1>9. ASSUME NEW w \in Workers, EnqueueDue(w) PROVE DebounceTypeOK'
  BY <1>9 DEF EnqueueDue
<1>10. ASSUME NEW w \in Workers, PopReplyLost(w) PROVE DebounceTypeOK'
  BY <1>7, <1>10 DEF PopReplyLost, Fault, Forgotten
<1>11. ASSUME NEW w \in Workers, EnqueueFails(w) PROVE DebounceTypeOK'
  <2>1. PICK p \in due[w] :
            /\ due' = [due EXCEPT ![w] = @ \ {p}]
            /\ owed' = Forgotten({p}, score) \/ owed' = [owed EXCEPT ![p] = FALSE]
    BY <1>11 DEF EnqueueFails
  <2>2. owed' \in [Slugs -> BOOLEAN]
    BY <2>1 DEF Forgotten
  <2>3. due' \in [Workers -> SUBSET Slugs]
    BY <2>1
  <2> QED
    BY <1>11, <2>2, <2>3 DEF EnqueueFails, Fault
<1>12. ASSUME NEW w \in Workers, SchedulerDies(w) PROVE DebounceTypeOK'
  BY <1>12 DEF SchedulerDies, Fault, Forgotten
<1>13. ASSUME NEW p \in Slugs, FirstExpires(p) PROVE DebounceTypeOK'
  BY <1>13 DEF FirstExpires
<1>14. CASE Tick
  BY <1>14 DEF Tick
<1>15. CASE UNCHANGED debounceVars
  BY <1>15 DEF debounceVars
<1> QED
  BY <1>1, <1>2, <1>4, <1>5, <1>6, <1>8, <1>9, <1>10, <1>11, <1>12, <1>13, <1>14, <1>15
     DEF DebounceNext, EventStep, SchedulerStep

\* Types are kept by every interleaving of handlers, schedulers and failures.
THEOREM TypeCorrect == DebounceSpec => []DebounceTypeOK
BY TypeInit, TypeStep, PTL DEF DebounceSpec

-----------------------------------------------------------------------------
\* Events

LEMMA KeptStep ==
    DebounceTypeOK /\ EventsKept /\ [DebounceNext]_debounceVars => EventsKept'
<1> SUFFICES ASSUME DebounceTypeOK, EventsKept, [DebounceNext]_debounceVars,
                    NEW p \in Slugs, owed'[p]
             PROVE  score'[p] # None \/ \E w \in Workers : p \in due'[w]
  BY DEF EventsKept
<1> DEFINE Kept == score'[p] # None \/ \E w \in Workers : p \in due'[w]
<1>0. owed[p] => score[p] # None \/ \E w \in Workers : p \in due[w]
  BY DEF EventsKept
<1> USE <1>0 DEF DebounceTypeOK
<1>1. ASSUME UNCHANGED <<score, due, owed>> PROVE Kept
  BY <1>1
<1>2. ASSUME NEW h \in Handlers, call[h] # None, call[h].start # None, AddEffect(h),
             UNCHANGED due
      PROVE  Kept
  <2>1. call[h].slug \in Slugs /\ call[h].now \in Int /\ call[h].start \in Int
    BY <1>2 DEF Calls, Time
  <2>2. FireAt(call[h].now, call[h].start) # None
    BY <2>1, FireAtBounds
  <2> QED
    BY <1>2, <2>1, <2>2 DEF AddEffect
<1>3. ASSUME NEW h \in Handlers, AddScore(h) \/ AddFails(h) PROVE Kept
  BY <1>1, <1>2, <1>3 DEF AddScore, AddFails
<1>4. ASSUME NEW w \in Workers, PopDue(w) PROVE Kept
  BY <1>4 DEF PopDue, Popped, Without
<1>5. ASSUME NEW w \in Workers, EnqueueDue(w) PROVE Kept
  BY <1>5 DEF EnqueueDue
<1>6. ASSUME NEW w \in Workers, PopReplyLost(w) PROVE Kept
  BY <1>6 DEF PopReplyLost, Popped, Without, Forgotten
<1>7. ASSUME NEW w \in Workers, EnqueueFails(w) PROVE Kept
  BY <1>7 DEF EnqueueFails, Forgotten
<1>8. ASSUME NEW w \in Workers, SchedulerDies(w) PROVE Kept
  BY <1>8 DEF SchedulerDies, Forgotten
<1>9. ASSUME NEW h \in Handlers, Event(h) \/ SetFirst(h) \/ SetFails(h) PROVE Kept
  BY <1>1, <1>9 DEF Event, SetFirst, SetFails
<1>10. ASSUME NEW q \in Slugs, FirstExpires(q) PROVE Kept
  BY <1>1, <1>10 DEF FirstExpires
<1>11. ASSUME Tick \/ UNCHANGED debounceVars PROVE Kept
  BY <1>1, <1>11 DEF Tick, debounceVars
<1> HIDE DEF Kept
<1>12. Kept
  BY <1>3, <1>4, <1>5, <1>6, <1>7, <1>8, <1>9, <1>10, <1>11
     DEF DebounceNext, EventStep, SchedulerStep
<1> QED
  BY <1>12 DEF Kept

\* A recorded event keeps its window, or a scheduler has popped it, until a
\* job is enqueued or a failure drops it, for all values of the constants.
THEOREM EventsAreKept == DebounceSpec => []EventsKept
<1>1. DebounceInit => EventsKept
  BY DEF DebounceInit, EventsKept
<1> QED
  BY <1>1, TypeCorrect, KeptStep, PTL DEF DebounceSpec

-----------------------------------------------------------------------------
\* Windows

LEMMA ReadBeforeStep ==
    DebounceTypeOK /\ ReadBefore /\ [DebounceNext]_debounceVars => ReadBefore'
<1> SUFFICES ASSUME DebounceTypeOK, ReadBefore, [DebounceNext]_debounceVars
             PROVE  ReadBefore'
  OBVIOUS
<1> USE DebounceAssumption DEF DebounceTypeOK, ReadBefore, Time
<1>1. ASSUME NEW h \in Handlers, Event(h) PROVE ReadBefore'
  BY <1>1 DEF Event, BeginEvent
<1>2. ASSUME NEW h \in Handlers, call[h] # None
      PROVE  FirstAfter(call[h].slug, call[h].now) <= clock
  BY <1>2 DEF FirstAfter, Calls
<1>3. ASSUME NEW h \in Handlers, SetFirst(h) PROVE ReadBefore'
  <2>1. call[h] \in Calls /\ call[h] # None
    BY <1>3 DEF SetFirst
  <2>2. \A g \in Handlers : call'[g] # None => call[g] # None /\ call'[g].now = call[g].now
    BY <1>3, <2>1 DEF SetFirst, Calls
  <2>3. \A p \in Slugs : first'[p] # None => first'[p] <= clock
    BY <1>3, <1>2, <2>1 DEF SetFirst, Calls
  <2> QED
    BY <1>3, <2>2, <2>3 DEF SetFirst
<1>4. ASSUME NEW h \in Handlers, AddScore(h) \/ AddFails(h) PROVE ReadBefore'
  BY <1>4 DEF AddScore, AddFails
<1>5. ASSUME NEW h \in Handlers, SetFails(h) PROVE ReadBefore'
  <2>1. \A p \in Slugs : first'[p] # None => first'[p] <= clock
    BY <1>5, <1>2 DEF SetFails, Calls
  <2> QED
    BY <1>5, <2>1 DEF SetFails
<1>6. ASSUME NEW w \in Workers, PopDue(w) \/ PopReplyLost(w) PROVE ReadBefore'
  BY <1>6 DEF PopDue, PopReplyLost, Popped, Without
<1>7. ASSUME NEW w \in Workers, EnqueueDue(w) \/ EnqueueFails(w) \/ SchedulerDies(w)
      PROVE  ReadBefore'
  BY <1>7 DEF EnqueueDue, EnqueueFails, SchedulerDies
<1>8. ASSUME NEW p \in Slugs, FirstExpires(p) PROVE ReadBefore'
  BY <1>8 DEF FirstExpires
<1>9. CASE Tick
  BY <1>9 DEF Tick, Calls
<1>10. CASE UNCHANGED debounceVars
  BY <1>10 DEF debounceVars
<1> QED
  BY <1>1, <1>3, <1>4, <1>5, <1>6, <1>7, <1>8, <1>9, <1>10
     DEF DebounceNext, EventStep, SchedulerStep

\* Types of what a window of p is made of.
LEMMA Numbers ==
    ASSUME DebounceTypeOK
    PROVE  /\ clock \in Int
           /\ \A p \in Slugs : /\ first[p] # None => first[p] \in Int
                               /\ score[p] # None => score[p] \in Int
                               /\ oldest[p] # None => oldest[p] \in Int
           /\ \A h \in Handlers : call[h] # None =>
                 /\ call[h].slug \in Slugs
                 /\ call[h].now \in Int
                 /\ call[h].start # None =>
                       /\ call[h].start \in Int
                       /\ FireAt(call[h].now, call[h].start) \in Int
<1> USE DEF DebounceTypeOK, Time
<1>1. \A h \in Handlers : call[h] # None => call[h] \in Calls
  OBVIOUS
<1>2. \A h \in Handlers : call[h] # None =>
          /\ call[h].slug \in Slugs
          /\ call[h].now \in Int
          /\ call[h].start # None => call[h].start \in Int
  BY <1>1 DEF Calls
<1>3. \A h \in Handlers : call[h] # None /\ call[h].start # None =>
          FireAt(call[h].now, call[h].start) \in Int
  BY <1>2, FireAtBounds
<1>4. clock \in Int
  OBVIOUS
<1>5. \A p \in Slugs :
          /\ first[p] # None => first[p] \in Int
          /\ score[p] # None => score[p] \in Int
          /\ oldest[p] # None => oldest[p] \in Int
  OBVIOUS
<1> QED
  BY <1>2, <1>3, <1>4, <1>5

\* What can happen to an open window: its batch start is set ...
LEMMA OpenSet ==
    ASSUME NEW x \in Int, NEW y \in Int, NEW o \in Int, NEW t \in Int,
           NEW g \in Int, g <= t, Open(x, o, None, t)
    PROVE  /\ Open(x, o, g, t)
           /\ Harmless(y, o, None, t) => Harmless(y, o, g, t)
BY DebounceAssumption DEF Open, Harmless

\* ... or expires: too late for a window that follows it ...
LEMMA OpenExpire ==
    ASSUME NEW x \in Int, NEW y \in Int, NEW o \in Int, NEW t \in Int,
           NEW f \in Int, t >= f + FirstTTL, Open(x, o, f, t)
    PROVE  /\ Open(x, o, None, t)
           /\ Harmless(y, o, f, t) => Harmless(y, o, None, t)
BY DebounceAssumption DEF Open, Harmless, FirstTTL

\* ... time passes ...
LEMMA OpenTick ==
    ASSUME NEW x \in Int, NEW y \in Int, NEW o \in Int, NEW t \in Int,
           NEW f \in Int \cup {None}, t < x + Lag, Open(x, o, f, t)
    PROVE  /\ Open(x, o, f, t + 1)
           /\ Harmless(y, o, f, t) => Harmless(y, o, f, t + 1)
BY DebounceAssumption DEF Open, Harmless

\* ... a call opens it ...
LEMMA OpenNew ==
    ASSUME NEW x \in Int, NEW t \in Int, NEW f \in Int \cup {None},
           f # None => f <= t, x <= t + Quiet
    PROVE  Open(x, t, f, t)
BY DebounceAssumption DEF Open, Harmless

\* ... and what an open window is worth.
LEMMA OpenBound ==
    ASSUME NEW x \in Int, NEW o \in Int, NEW t \in Int, NEW f \in Int \cup {None},
           Open(x, o, f, t)
    PROVE  x <= o + Quiet + Lag + MaxWait
BY DebounceAssumption DEF Open, Harmless

LEMMA WindowStep ==
    ASSUME DebounceTypeOK, WindowInv, [DebounceNext]_debounceVars,
           NEW p \in Slugs, score'[p] # None
    PROVE  Window(p)'
<1>0. /\ score[p] # None => Window(p)
      /\ ReadBefore
  BY DEF WindowInv
<1> DEFINE Value(h) == FireAt(call[h].now, call[h].start)
<1>1. ASSUME UNCHANGED <<score[p], first[p], oldest[p], clock>>,
             \A h \in Handlers : Sets(h, p)' => Sets(h, p) /\ call'[h] = call[h]
      PROVE  Window(p)'
  BY <1>0, <1>1 DEF Window
<1>2. ASSUME NEW h \in Handlers, Event(h) PROVE Window(p)'
  <2>1. \A g \in Handlers : Sets(g, p)' => Sets(g, p) /\ call'[g] = call[g]
    BY <1>2 DEF Event, BeginEvent, DebounceTypeOK, Sets
  <2> QED
    BY <1>1, <1>2, <2>1 DEF Event
<1>3. ASSUME NEW g \in Int, first'[p] = g, first[p] # None => g = first[p], g <= clock,
             UNCHANGED <<score[p], oldest[p], clock>>,
             \A h \in Handlers : Sets(h, p)' =>
                 \/ Sets(h, p) /\ call'[h] = call[h]
                 \/ call'[h].now \in Int /\ call'[h].start = g
      PROVE  Window(p)'
  <2>1. /\ score[p] # None /\ Window(p)
        /\ score[p] \in Int /\ oldest[p] \in Int /\ clock \in Int
    BY <1>0, <1>3, Numbers DEF Window, Open
  <2>2. Open(score[p], oldest[p], g, clock)
    BY <1>3, <2>1, OpenSet DEF Window
  <2>3. ASSUME NEW h \in Handlers, Sets(h, p)'
        PROVE  Harmless(FireAt(call'[h].now, call'[h].start), oldest[p], g, clock)
    <3>1. CASE Sets(h, p) /\ call'[h] = call[h]
      <4>1. Value(h) \in Int
        BY <3>1, Numbers DEF Sets
      <4>2. Harmless(Value(h), oldest[p], first[p], clock)
        BY <2>1, <3>1 DEF Window
      <4>3. Harmless(Value(h), oldest[p], g, clock)
        <5> HIDE DEF Value
        <5> QED
          BY <1>3, <2>1, <4>1, <4>2, OpenSet DEF Window
      <4> QED
        BY <3>1, <4>3
    <3>2. CASE call'[h].now \in Int /\ call'[h].start = g
      <4>1. /\ FireAt(call'[h].now, g) <= g + MaxWait
            /\ g # None
        BY <3>2, FireAtBounds, DebounceAssumption
      <4> QED
        BY <3>2, <4>1 DEF Harmless
    <3> QED
      BY <1>3, <2>3, <3>1, <3>2
  <2> QED
    BY <1>3, <2>2, <2>3 DEF Window
<1>4. ASSUME NEW h \in Handlers, call[h] # None
      PROVE  LET g == FirstAfter(call[h].slug, call[h].now)
             IN  /\ g \in Int /\ g <= clock
                 /\ first[call[h].slug] # None => g = first[call[h].slug]
  BY <1>0, <1>4, Numbers DEF FirstAfter, ReadBefore
<1>5. ASSUME NEW h \in Handlers, SetFirst(h) PROVE Window(p)'
  <2>1. call[h] \in Calls /\ call[h] # None /\ call[h].slug \in Slugs /\ call[h].now \in Int
    BY <1>5, Numbers DEF SetFirst, DebounceTypeOK
  <2> DEFINE f == FirstAfter(call[h].slug, call[h].now)
  <2>2. /\ call' = [call EXCEPT ![h].start = f]
        /\ first' = [first EXCEPT ![call[h].slug] = f]
        /\ UNCHANGED <<clock, score, oldest>>
    BY <1>5 DEF SetFirst
  <2>3. /\ call'[h].slug = call[h].slug /\ call'[h].now = call[h].now /\ call'[h].start = f
        /\ \A g \in Handlers \ {h} : call'[g] = call[g]
    BY <2>1, <2>2 DEF DebounceTypeOK, Calls
  <2>4. f \in Int /\ f <= clock /\ (first[call[h].slug] # None => f = first[call[h].slug])
    BY <1>4, <2>1
  <2> HIDE DEF f
  <2>5. CASE call[h].slug # p
    BY <1>1, <2>2, <2>3, <2>5 DEF DebounceTypeOK, Sets
  <2>6. CASE call[h].slug = p
    <3>1. first'[p] = f
      BY <2>2, <2>6 DEF DebounceTypeOK
    <3>2. \A g \in Handlers : Sets(g, p)' =>
              \/ Sets(g, p) /\ call'[g] = call[g]
              \/ call'[g].now \in Int /\ call'[g].start = f
      BY <2>1, <2>3 DEF Sets
    <3> QED
      BY <1>3, <2>2, <2>4, <2>6, <3>1, <3>2
  <2> QED
    BY <2>5, <2>6
<1>6. ASSUME NEW h \in Handlers, SetFails(h) PROVE Window(p)'
  <2>1. call[h] \in Calls /\ call[h] # None /\ call[h].slug \in Slugs
    BY <1>6, Numbers DEF SetFails, DebounceTypeOK
  <2> DEFINE f == FirstAfter(call[h].slug, call[h].now)
  <2>2. /\ first' = [first EXCEPT ![call[h].slug] = f] \/ UNCHANGED first
        /\ UNCHANGED <<clock, score, oldest>>
    BY <1>6 DEF SetFails
  <2>3. \A g \in Handlers : Sets(g, p)' => Sets(g, p) /\ call'[g] = call[g]
    BY <1>6 DEF SetFails, DebounceTypeOK, Sets
  <2>4. f \in Int /\ f <= clock /\ (first[call[h].slug] # None => f = first[call[h].slug])
    BY <1>4, <2>1
  <2> HIDE DEF f
  <2>5. CASE first'[p] = first[p]
    BY <1>1, <2>2, <2>3, <2>5
  <2>6. CASE first'[p] # first[p]
    <3>1. call[h].slug = p /\ first'[p] = f
      BY <2>1, <2>2, <2>6 DEF DebounceTypeOK
    <3> QED
      BY <1>3, <2>2, <2>3, <2>4, <3>1
  <2> QED
    BY <2>5, <2>6
<1>7. ASSUME NEW h \in Handlers, Sets(h, call[h].slug), AddEffect(h),
             call' = [call EXCEPT ![h] = None], UNCHANGED <<clock, first>>
      PROVE  Window(p)'
  <2>1. /\ call[h] # None /\ call[h].slug \in Slugs
        /\ call[h].now \in Int /\ call[h].start \in Int /\ Value(h) \in Int
        /\ Value(h) <= call[h].now + Quiet /\ call[h].now <= clock
    BY <1>0, <1>7, Numbers, FireAtBounds DEF Sets, ReadBefore
  <2>2. \A g \in Handlers : Sets(g, p)' => Sets(g, p) /\ call'[g] = call[g]
    BY <1>7 DEF DebounceTypeOK, Sets
  <2>3. CASE call[h].slug # p
    BY <1>1, <1>7, <2>2, <2>3 DEF AddEffect, DebounceTypeOK
  <2>4. CASE call[h].slug = p /\ score[p] # None
    <3>1. score'[p] = Value(h) /\ oldest'[p] = oldest[p]
      BY <1>7, <2>4 DEF AddEffect, DebounceTypeOK
    <3>2. Window(p) /\ Harmless(Value(h), oldest[p], first[p], clock)
      BY <1>0, <1>7, <2>4 DEF Window
    <3> HIDE DEF Value
    <3>3. Open(score'[p], oldest[p], first[p], clock)
      BY <3>1, <3>2 DEF Window, Open
    <3> QED
      BY <1>7, <2>2, <3>1, <3>2, <3>3 DEF Window
  <2>5. CASE call[h].slug = p /\ score[p] = None
    <3>1. score'[p] = Value(h) /\ oldest'[p] = clock
      BY <1>7, <2>5 DEF AddEffect, DebounceTypeOK
    <3>2. clock \in Int /\ first[p] \in Int \cup {None} /\ (first[p] # None => first[p] <= clock)
      BY <1>0, Numbers DEF ReadBefore
    <3>3. Value(h) <= clock + Quiet
      <4> HIDE DEF Value
      <4> QED
        BY <2>1, <3>2, DebounceAssumption
    <3>4. Open(score'[p], clock, first[p], clock)
      <4> HIDE DEF Value
      <4> QED
        BY <2>1, <3>1, <3>2, <3>3, OpenNew
    <3>5. ASSUME NEW g \in Handlers, Sets(g, p)
          PROVE  Harmless(Value(g), clock, first[p], clock)
      <4>1. /\ Value(g) \in Int /\ call[g].now \in Int
            /\ Value(g) <= call[g].now + Quiet /\ call[g].now <= clock
        BY <1>0, <3>5, Numbers, FireAtBounds DEF Sets, ReadBefore
      <4> HIDE DEF Value
      <4> QED
        BY <3>2, <4>1, DebounceAssumption DEF Harmless
    <3> QED
      BY <1>7, <2>2, <3>1, <3>4, <3>5 DEF Window
  <2> QED
    BY <2>3, <2>4, <2>5
<1>8. ASSUME NEW h \in Handlers, AddScore(h) PROVE Window(p)'
  BY <1>7, <1>8 DEF AddScore, Sets
<1>9. ASSUME NEW h \in Handlers, AddFails(h) PROVE Window(p)'
  <2>1. CASE AddEffect(h)
    BY <1>7, <1>9, <2>1 DEF AddFails, Sets
  <2>2. CASE UNCHANGED <<score, owed, oldest>>
    <3>1. \A g \in Handlers : Sets(g, p)' => Sets(g, p) /\ call'[g] = call[g]
      BY <1>9 DEF AddFails, DebounceTypeOK, Sets
    <3> QED
      BY <1>1, <1>9, <2>2, <3>1 DEF AddFails
  <2> QED
    BY <1>9, <2>1, <2>2 DEF AddFails
<1>10. ASSUME UNCHANGED <<score[p], first[p], oldest[p], clock, call>> PROVE Window(p)'
  BY <1>1, <1>10 DEF Sets
<1>11. ASSUME NEW w \in Workers, PopDue(w) \/ PopReplyLost(w) PROVE Window(p)'
  <2>1. PICK D \in SUBSET Slugs : Popped(D)
    BY <1>11 DEF PopDue, PopReplyLost
  <2>2. p \notin D /\ UNCHANGED <<score[p], first[p], oldest[p]>>
    BY <2>1 DEF Popped, Without
  <2> QED
    BY <1>10, <1>11, <2>2 DEF PopDue, PopReplyLost
<1>12. ASSUME NEW w \in Workers, EnqueueDue(w) \/ EnqueueFails(w) \/ SchedulerDies(w)
       PROVE  Window(p)'
  BY <1>10, <1>12 DEF EnqueueDue, EnqueueFails, SchedulerDies
<1>13. ASSUME NEW q \in Slugs, FirstExpires(q) PROVE Window(p)'
  <2>1. CASE q # p
    BY <1>10, <1>13, <2>1 DEF FirstExpires, DebounceTypeOK
  <2>2. CASE q = p
    <3>1. /\ first[p] # None /\ clock >= first[p] + FirstTTL /\ first'[p] = None
          /\ UNCHANGED <<score, oldest, clock, call>>
      BY <1>13, <2>2 DEF FirstExpires, DebounceTypeOK
    <3>2. /\ Window(p)
          /\ score[p] \in Int /\ oldest[p] \in Int /\ first[p] \in Int /\ clock \in Int
      BY <1>0, <3>1, Numbers DEF Window, Open
    <3>3. Open(score[p], oldest[p], None, clock)
      BY <3>1, <3>2, OpenExpire DEF Window
    <3>4. ASSUME NEW h \in Handlers, Sets(h, p)
          PROVE  Harmless(Value(h), oldest[p], None, clock)
      <4>1. Value(h) \in Int /\ Harmless(Value(h), oldest[p], first[p], clock)
        BY <3>2, <3>4, Numbers DEF Window, Sets
      <4> HIDE DEF Value
      <4> QED
        BY <3>1, <3>2, <4>1, OpenExpire DEF Window
    <3> QED
      BY <3>1, <3>3, <3>4 DEF Window, Sets
  <2> QED
    BY <2>1, <2>2
<1>14. ASSUME Tick PROVE Window(p)'
  <2>1. /\ UNCHANGED <<score, oldest, first, call>> /\ clock' = clock + 1
        /\ clock < score[p] + Lag
    BY <1>14 DEF Tick
  <2>2. /\ Window(p)
        /\ score[p] \in Int /\ oldest[p] \in Int /\ first[p] \in Int \cup {None} /\ clock \in Int
    BY <1>0, <2>1, Numbers DEF Window, Open
  <2>3. Open(score[p], oldest[p], first[p], clock + 1)
    BY <2>1, <2>2, OpenTick DEF Window
  <2>4. ASSUME NEW h \in Handlers, Sets(h, p)
        PROVE  Harmless(Value(h), oldest[p], first[p], clock + 1)
    <3>1. Value(h) \in Int /\ Harmless(Value(h), oldest[p], first[p], clock)
      BY <2>2, <2>4, Numbers DEF Window, Sets
    <3> HIDE DEF Value
    <3> QED
      BY <2>1, <2>2, <3>1, OpenTick DEF Window
  <2> QED
    BY <2>1, <2>3, <2>4 DEF Window, Sets
<1>15. ASSUME UNCHANGED debounceVars PROVE Window(p)'
  BY <1>10, <1>15 DEF debounceVars
<1> QED
  BY <1>2, <1>5, <1>6, <1>8, <1>9, <1>11, <1>12, <1>13, <1>14, <1>15
     DEF DebounceNext, EventStep, SchedulerStep

LEMMA WindowInvariant == DebounceSpec => []WindowInv
<1>1. DebounceInit => WindowInv
  BY DEF DebounceInit, WindowInv, ReadBefore
<1>2. DebounceTypeOK /\ WindowInv /\ [DebounceNext]_debounceVars => WindowInv'
  BY ReadBeforeStep, WindowStep DEF WindowInv
<1> QED
  BY <1>1, <1>2, TypeCorrect, PTL DEF DebounceSpec

\* The invariant bounds the wait.
LEMMA WindowsEnd == DebounceTypeOK /\ WindowInv => WaitBounded
<1> SUFFICES ASSUME DebounceTypeOK, WindowInv, NEW p \in Slugs, score[p] # None
             PROVE  score[p] <= oldest[p] + Quiet + Lag + MaxWait
  BY DEF WaitBounded
<1>1. Open(score[p], oldest[p], first[p], clock)
  BY DEF WindowInv, Window
<1>2. /\ score[p] \in Int /\ oldest[p] \in Int /\ clock \in Int
      /\ first[p] \in Int \cup {None}
  BY <1>1, Numbers DEF Open
<1> QED
  BY <1>1, <1>2, OpenBound

\* However the SET and the ZADD of events interleave with pops and expiries,
\* no window lasts longer than the quiet time, the maximal wait and the lag of
\* the scheduler after its first event.
THEOREM WaitIsBounded == DebounceSpec => []WaitBounded
BY WindowsEnd, TypeCorrect, WindowInvariant, PTL

=============================================================================
