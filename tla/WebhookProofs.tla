---------------------------- MODULE WebhookProofs ----------------------------
(***************************************************************************)
(* The webhook with the debouncer under it, for all numbers of workers,     *)
(* requests, pipelines and configs and all time bounds: lookups follow the  *)
(* published configs once these have settled, and what DebounceProofs shows *)
(* of the debouncer by itself holds when its events come from requests and  *)
(* workers die.                                                            *)
(***************************************************************************)
EXTENDS Webhook, DebounceProofs, SequenceTheorems

-----------------------------------------------------------------------------
(* The inductive invariant.                                                 *)

Tables == [entries : SUBSET Entries, builtAt : Time \cup {None}, whole : BOOLEAN]
Builds == [todo : SUBSET Slugs, entries : SUBSET Entries, asOf : Time \cup {None},
           whole : BOOLEAN]

\* What TypeOK says, and the types of the rest.
RouteTypes ==
    /\ pc \in [Handlers -> {"idle", "record", "list", "read", "slug"}]
    /\ records \in [Handlers -> Seq(Records)]
    /\ slugs \in [Handlers -> SUBSET Slugs]
    /\ build \in [Handlers -> Builds]
    /\ cache \in [Workers -> Tables]
    /\ store \in [Slugs -> Configs \cup {None}]
    /\ published \in [Slugs -> Time]

\* A request in progress is at a record that reports an upload.
AtUpload(h) == pc[h] # "idle" => records[h] # <<>> /\ Relevant(Head(records[h]))

\* The entries of a table for p are the sources of its published config.
Lists(entries, p) ==
    /\ \A e \in entries : e.slug = p => store[p] # None /\ e.prefix \in store[p]
    /\ store[p] # None => \A d \in store[p] : [prefix |-> d, slug |-> p] \in entries

\* A build is not older than BuildTime; a config published before its LIST is
\* the one it has read, or will read.
BuildSound(h) ==
    pc[h] = "read" =>
        /\ build[h].asOf # None /\ build[h].asOf <= clock /\ clock <= build[h].asOf + BuildTime
        /\ \A p \in build[h].todo : store[p] \in Configs
        /\ build[h].whole => \A p \in Slugs : published[p] < build[h].asOf =>
             /\ p \in build[h].todo => \A e \in build[h].entries : e.slug # p
             /\ p \notin build[h].todo => Lists(build[h].entries, p)

\* A table has the configs that were published before its build began.
TableSound(w) ==
    cache[w].builtAt # None =>
        /\ cache[w].builtAt <= clock
        /\ cache[w].whole => \A p \in Slugs :
             published[p] + BuildTime < cache[w].builtAt => Lists(cache[w].entries, p)

RouteInv == /\ RouteTypes
            /\ \A h \in Handlers : AtUpload(h) /\ BuildSound(h)
            /\ \A w \in Workers : TableSound(w)

-----------------------------------------------------------------------------
(* The debouncer under the webhook.                                         *)

\* A request is counted, or a fault, and the debouncer is not concerned.
Noted == /\ arrivals' \in 0 .. MaxArrivals /\ faults' \in 0 .. MaxFaults
         /\ UNCHANGED <<clock, first, score, call, due, owed, oldest>>

\* debounce_event is called for a slug the key routes to.
Begun == \E h \in Handlers, p \in Slugs :
            /\ BeginEvent(h, p)
            /\ UNCHANGED <<clock, first, score, due, owed, oldest, faults, arrivals>>

\* A worker dies with its calls and what it has popped.
Died == \E w \in Workers :
            /\ Fault
            /\ \A h \in Handlers : call'[h] \in {call[h], None}
            /\ call' = [h \in Handlers |-> call'[h]]
            /\ due' = [due EXCEPT ![w] = {}]
            /\ owed' = Forgotten(due[w], score)
            /\ UNCHANGED <<clock, first, score, oldest, arrivals>>

\* A step of the webhook is one of these or a step of the debouncer.
LEMMA DebouncePart ==
    ASSUME DebounceTypeOK, RouteTypes, [Next]_vars
    PROVE  [DebounceNext]_debounceVars \/ Noted \/ Begun \/ Died
<1> USE DebounceAssumption
<1>1. arrivals \in 0 .. MaxArrivals /\ faults \in 0 .. MaxFaults
  BY DEF DebounceTypeOK
<1>2. ASSUME NEW h \in Handlers, Accept(h) \/ Refuse(h) PROVE Noted
  BY <1>1, <1>2 DEF Accept, Refuse, Arrival, Noted
<1>3. ASSUME NEW h \in Handlers, ListFails(h) \/ ReadFails(h) PROVE Noted
  BY <1>1, <1>3 DEF ListFails, ReadFails, Fault, Noted
<1>4. ASSUME NEW h \in Handlers, NextSlug(h) PROVE Begun
  BY <1>4 DEF NextSlug, Begun, RouteTypes
<1>5. ASSUME NEW w \in Workers, WorkerDies(w) PROVE Died
  BY <1>5 DEF WorkerDies, Died
<1>6. ASSUME NEW h \in Handlers,
             \/ RouteHit(h) \/ RouteMiss(h) \/ ListConfigs(h) \/ ReadConfig(h) \/ SwapTable(h)
             \/ RecordDone(h)
      PROVE  UNCHANGED debounceVars
  BY <1>6 DEF RouteHit, RouteMiss, ListConfigs, ReadConfig, SwapTable, RecordDone
<1>7. ASSUME NEW p \in Slugs, Publish(p) \/ \E w \in Workers : Validate(w, p)
      PROVE  UNCHANGED debounceVars
  BY <1>7 DEF Publish, Validate
<1>8. ASSUME NEW h \in Handlers,
             \/ Debounced(SetFirst(h)) \/ Debounced(AddScore(h))
             \/ Debounced(SetFails(h)) \/ Debounced(AddFails(h))
      PROVE  DebounceNext
  BY <1>8 DEF Debounced, DebounceNext, EventStep
<1>9. ASSUME NEW w \in Workers, Debounced(SchedulerStep(w) \/ SchedulerFault(w))
      PROVE  DebounceNext
  BY <1>9 DEF Debounced, DebounceNext, SchedulerFault
<1>10. ASSUME NEW p \in Slugs, Debounced(FirstExpires(p)) PROVE DebounceNext
  BY <1>10 DEF Debounced, DebounceNext
<1>11. CASE Pass
  BY <1>11 DEF Pass, DebounceNext
<1>12. CASE UNCHANGED vars
  BY <1>12 DEF vars
<1> QED
  BY <1>2, <1>3, <1>4, <1>5, <1>6, <1>7, <1>8, <1>9, <1>10, <1>11, <1>12
     DEF Next, HandlerStep, HandlerFault

\* Its types are kept, ...
LEMMA DebounceTypesStep ==
    ASSUME DebounceTypeOK, RouteTypes, [Next]_vars
    PROVE  DebounceTypeOK'
<1> USE DEF DebounceTypeOK
<1>1. CASE Noted
  BY <1>1 DEF Noted
<1>2. CASE Begun
  <2>1. PICK h \in Handlers, p \in Slugs :
          /\ BeginEvent(h, p)
          /\ UNCHANGED <<clock, first, score, due, owed, oldest, faults, arrivals>>
    BY <1>2 DEF Begun
  <2>2. [slug |-> p, now |-> clock, start |-> None] \in Calls
    BY DEF Calls
  <2>3. call' \in [Handlers -> Calls \cup {None}]
    BY <2>1, <2>2 DEF BeginEvent
  <2> QED
    BY <2>1, <2>3
<1>3. CASE Died
  BY <1>3, DebounceAssumption DEF Died, Fault, Forgotten
<1>4. CASE [DebounceNext]_debounceVars
  BY <1>4, TypeStep
<1> QED
  BY <1>1, <1>2, <1>3, <1>4, DebouncePart

\* ... no recorded event is lost ...
LEMMA WebKeptStep ==
    ASSUME DebounceTypeOK, RouteTypes, EventsKept, [Next]_vars
    PROVE  EventsKept'
<1>1. CASE Noted
  BY <1>1 DEF Noted, EventsKept
<1>2. CASE Begun
  BY <1>2 DEF Begun, EventsKept
<1>3. CASE Died
  BY <1>3 DEF Died, Forgotten, EventsKept, DebounceTypeOK
<1>4. CASE [DebounceNext]_debounceVars
  BY <1>4, KeptStep
<1> QED
  BY <1>1, <1>2, <1>3, <1>4, DebouncePart

\* ... and no window is left open too long.
LEMMA WebWindowStep ==
    ASSUME DebounceTypeOK, RouteTypes, WindowInv, [Next]_vars
    PROVE  WindowInv'
<1>1. CASE Noted
  BY <1>1 DEF Noted, WindowInv, Window, ReadBefore, Sets
<1>2. CASE Begun \/ Died
  <2>1. UNCHANGED <<clock, first, score, oldest>>
    BY <1>2 DEF Begun, Died
  <2>2. \A h \in Handlers : \/ call'[h] \in {call[h], None}
                            \/ call'[h].now = clock /\ call'[h].start = None
    <3>1. CASE Died
      BY <3>1 DEF Died
    <3>2. CASE Begun
      BY <3>2 DEF Begun, BeginEvent, DebounceTypeOK
    <3> QED
      BY <1>2, <3>1, <3>2
  <2>3. ReadBefore'
    BY <2>1, <2>2 DEF WindowInv, ReadBefore, DebounceTypeOK, Time
  <2>4. ASSUME NEW p \in Slugs, score[p] # None PROVE Window(p)'
    <3>1. Window(p)
      BY <2>4 DEF WindowInv
    <3>2. \A h \in Handlers : Sets(h, p)' => Sets(h, p) /\ call'[h] = call[h]
      BY <2>2 DEF Sets
    <3> QED
      BY <2>1, <3>1, <3>2 DEF Window
  <2> QED
    BY <2>1, <2>3, <2>4 DEF WindowInv
<1>3. CASE [DebounceNext]_debounceVars
  BY <1>3, ReadBeforeStep, WindowStep DEF WindowInv
<1> QED
  BY <1>1, <1>2, <1>3, DebouncePart

-----------------------------------------------------------------------------
(* Types.                                                                   *)

\* The next record of a payload is one that reports an upload, or there is none.
LEMMA NextUpload ==
    ASSUME RouteTypes, NEW h \in Handlers, NEW rs \in Seq(Records), NextRecord(h, rs)
    PROVE  /\ records' \in [Handlers -> Seq(Records)]
           /\ pc' \in [Handlers -> {"idle", "record", "list", "read", "slug"}]
           /\ pc'[h] \in {"idle", "record"}
           /\ pc'[h] # "idle" => records'[h] # <<>> /\ Relevant(Head(records'[h]))
           /\ \A g \in Handlers : g # h => pc'[g] = pc[g] /\ records'[g] = records[g]
<1> USE DEF RouteTypes, Goto
<1>1. CASE /\ records' = [records EXCEPT ![h] = <<>>]
           /\ Goto(h, "idle")
  BY <1>1
<1>2. ASSUME NEW i \in DOMAIN rs, Relevant(rs[i]),
             records' = [records EXCEPT ![h] = SubSeq(rs, i, Len(rs))],
             Goto(h, "record")
      PROVE  /\ records' \in [Handlers -> Seq(Records)]
             /\ records'[h] # <<>> /\ Relevant(Head(records'[h]))
  <2>1. i \in 1 .. Len(rs) /\ Len(rs) \in i .. Len(rs)
    OBVIOUS
  <2>2. SubSeq(rs, i, Len(rs)) \in Seq(Records) /\ Len(SubSeq(rs, i, Len(rs))) = Len(rs) - i + 1
    <3>1. \A j \in i .. Len(rs) : rs[j] \in Records
      BY <2>1
    <3> HIDE DEF RouteTypes
    <3> QED
      BY <2>1, <3>1, SubSeqProperties
  <2>3. Head(SubSeq(rs, i, Len(rs))) = rs[i]
    BY <2>1, HeadTailOfSubSeq
  <2>4. SubSeq(rs, i, Len(rs)) # <<>>
    <3> DEFINE s == SubSeq(rs, i, Len(rs))
    <3>1. Len(s) # 0
      BY <2>1, <2>2
    <3> HIDE DEF s
    <3>2. s # <<>>
      BY <3>1
    <3> QED
      BY <3>2 DEF s
  <2>5. records'[h] = SubSeq(rs, i, Len(rs))
    BY <1>2
  <2> QED
    BY <1>2, <2>2, <2>3, <2>4, <2>5
<1> QED
  BY <1>1, <1>2 DEF NextRecord

\* What is built is a set of entries.
LEMMA EntriesType ==
    ASSUME NEW p \in Slugs, store[p] \in Configs
    PROVE  EntriesOf(p) \in SUBSET Entries
  BY WebhookAssumption DEF EntriesOf, Entries

\* Every step keeps the types.
LEMMA RouteTypesStep ==
    ASSUME DebounceTypeOK, RouteInv, [Next]_vars
    PROVE  RouteTypes'
<1> USE WebhookAssumption DEF RouteTypes, Goto, routeVars, webVars
<1>1. RouteTypes /\ clock \in Time
  BY DEF RouteInv, DebounceTypeOK
<1>2. ASSUME NEW h \in Handlers, Accept(h) \/ RecordDone(h) PROVE RouteTypes'
  <2>1. UNCHANGED <<slugs, build, cache, webVars>>
    BY <1>2 DEF Accept, RecordDone
  <2>2. PICK rs \in Seq(Records) : NextRecord(h, rs)
    <3>1. CASE Accept(h)
      BY <3>1 DEF Accept
    <3>2. CASE RecordDone(h)
      <4>1. records[h] # <<>>
        BY <3>2 DEF RecordDone, RouteInv, AtUpload
      <4>2. Tail(records[h]) \in Seq(Records)
        BY <1>1, <4>1, HeadTailProperties
      <4> QED
        BY <3>2, <4>2 DEF RecordDone
    <3> QED
      BY <1>2, <3>1, <3>2
  <2> QED
    BY <1>1, <2>1, <2>2, NextUpload
<1>3. ASSUME NEW h \in Handlers, RouteHit(h) PROVE RouteTypes'
  <2>1. MatchKey(cache[WorkerOf[h]].entries, KeyOf(h)) \in SUBSET Slugs
    BY <1>1 DEF MatchKey, Entries, Tables
  <2> QED
    BY <1>1, <1>3, <2>1 DEF RouteHit, Routed
<1>4. ASSUME NEW h \in Handlers, RouteMiss(h) PROVE RouteTypes'
  BY <1>1, <1>4 DEF RouteMiss
<1>5. ASSUME NEW h \in Handlers, ListConfigs(h) \/ ListFails(h) PROVE RouteTypes'
  <2>1. build' \in [Handlers -> Builds]
    <3>1. CASE ListConfigs(h)
      <4> DEFINE b == [NoBuild EXCEPT !.todo = {p \in Slugs : store[p] # None}, !.asOf = clock]
      <4>1. b \in Builds
        BY <1>1 DEF NoBuild, Builds
      <4>2. build' = [build EXCEPT ![h] = b]
        BY <3>1 DEF ListConfigs
      <4> HIDE DEF b
      <4> QED
        BY <1>1, <4>1, <4>2
    <3>2. CASE ListFails(h)
      <4> DEFINE b == [NoBuild EXCEPT !.asOf = clock, !.whole = FALSE]
      <4>1. b \in Builds
        BY <1>1 DEF NoBuild, Builds
      <4>2. build' = [build EXCEPT ![h] = b]
        BY <3>2 DEF ListFails
      <4> HIDE DEF b
      <4> QED
        BY <1>1, <4>1, <4>2
    <3> QED
      BY <1>5, <3>1, <3>2
  <2> QED
    BY <1>1, <1>5, <2>1 DEF ListConfigs, ListFails
<1>6. ASSUME NEW h \in Handlers, ReadConfig(h) \/ ReadFails(h) PROVE RouteTypes'
  <2>1. PICK p \in build[h].todo :
          \/ build' = [build EXCEPT ![h].todo = @ \ {p}, ![h].entries = @ \cup EntriesOf(p)]
          \/ build' = [build EXCEPT ![h].todo = @ \ {p}, ![h].whole = FALSE]
    BY <1>6 DEF ReadConfig, ReadFails
  <2>2. p \in Slugs /\ store[p] \in Configs
    BY <1>1, <1>6, <2>1 DEF RouteInv, BuildSound, ReadConfig, ReadFails, Builds
  <2>3. EntriesOf(p) \in SUBSET Entries
    BY <2>2, EntriesType
  <2>4. build' \in [Handlers -> Builds]
    <3>1. build[h] \in Builds
      BY <1>1
    <3>2. CASE build' = [build EXCEPT ![h].todo = @ \ {p}, ![h].entries = @ \cup EntriesOf(p)]
      <4> DEFINE b == [build[h] EXCEPT !.todo = @ \ {p}, !.entries = @ \cup EntriesOf(p)]
      <4>1. b \in Builds
        BY <2>3, <3>1 DEF Builds
      <4>2. build' = [build EXCEPT ![h] = b]
        BY <1>1, <3>2
      <4> HIDE DEF b
      <4> QED
        BY <1>1, <4>1, <4>2
    <3>3. CASE build' = [build EXCEPT ![h].todo = @ \ {p}, ![h].whole = FALSE]
      <4> DEFINE b == [build[h] EXCEPT !.todo = @ \ {p}, !.whole = FALSE]
      <4>1. b \in Builds
        BY <3>1 DEF Builds
      <4>2. build' = [build EXCEPT ![h] = b]
        BY <1>1, <3>3
      <4> HIDE DEF b
      <4> QED
        BY <1>1, <4>1, <4>2
    <3> QED
      BY <2>1, <3>2, <3>3
  <2> QED
    BY <1>1, <1>6, <2>4 DEF ReadConfig, ReadFails
<1>7. ASSUME NEW h \in Handlers, SwapTable(h) PROVE RouteTypes'
  <2>1. build[h].entries \in SUBSET Entries /\ build[h].whole \in BOOLEAN
    BY <1>1 DEF Builds
  <2>2. MatchKey(build[h].entries, KeyOf(h)) \in SUBSET Slugs
    BY <2>1 DEF MatchKey, Entries
  <2>3. Table(h) \in Tables /\ NoBuild \in Builds
    BY <1>1, <2>1 DEF Table, Tables, NoBuild, Builds
  <2> QED
    BY <1>1, <1>7, <2>2, <2>3 DEF SwapTable, Routed
<1>8. ASSUME NEW h \in Handlers, NextSlug(h) PROVE RouteTypes'
  BY <1>1, <1>8 DEF NextSlug
<1>9. ASSUME NEW w \in Workers, NEW p \in Slugs, Validate(w, p) PROVE RouteTypes'
  BY <1>1, <1>9 DEF Validate, Tables
<1>10. ASSUME NEW p \in Slugs, Publish(p) PROVE RouteTypes'
  BY <1>1, <1>10 DEF Publish
<1>11. ASSUME NEW w \in Workers, WorkerDies(w) PROVE RouteTypes'
  <2>1. NoTable \in Tables /\ NoBuild \in Builds /\ <<>> \in Seq(Records)
    BY DEF NoTable, NoBuild, Tables, Builds
  <2> QED
    BY <1>1, <1>11, <2>1 DEF WorkerDies
<1>12. CASE UNCHANGED <<routeVars, webVars>>
  BY <1>1, <1>12
<1>13. ASSUME NEW h \in Handlers, Refuse(h) PROVE UNCHANGED <<routeVars, webVars>>
  BY <1>13 DEF Refuse
<1>14. ASSUME NEW A, Debounced(A) PROVE UNCHANGED <<routeVars, webVars>>
  BY <1>14 DEF Debounced
<1>15. Pass \/ UNCHANGED vars => UNCHANGED <<routeVars, webVars>>
  BY DEF Pass, vars
<1> QED
  BY <1>2, <1>3, <1>4, <1>5, <1>6, <1>7, <1>8, <1>9, <1>10, <1>11, <1>12, <1>13, <1>14, <1>15
     DEF Next, HandlerStep, HandlerFault

-----------------------------------------------------------------------------
(* The steps.                                                               *)

\* Clauses of the requests and tables that a step leaves alone still hold while
\* no config is published and no time passes.
LEMMA Unmoved ==
    ASSUME UNCHANGED <<clock, store, published>>
    PROVE  /\ \A g \in Handlers : pc'[g] = pc[g] /\ build'[g] = build[g] /\ BuildSound(g)
                                  => BuildSound(g)'
           /\ \A g \in Handlers : pc'[g] # "read" => BuildSound(g)'
           /\ \A g \in Handlers : pc'[g] = pc[g] /\ records'[g] = records[g] /\ AtUpload(g)
                                  => AtUpload(g)'
           /\ \A w \in Workers : cache'[w] = cache[w] /\ TableSound(w) => TableSound(w)'
           /\ \A w \in Workers : cache'[w].builtAt = None => TableSound(w)'
  BY DEF BuildSound, AtUpload, TableSound, Lists

\* A build starts from a LIST, whose time bounds what it may have missed.
LEMMA ListSound ==
    ASSUME DebounceTypeOK, RouteInv, NEW h \in Handlers, ListConfigs(h) \/ ListFails(h)
    PROVE  RouteTypes' => RouteInv'
<1> SUFFICES ASSUME RouteTypes' PROVE RouteInv'
  OBVIOUS
<1> USE DEF Goto, webVars
<1>1. RouteTypes /\ clock \in Time /\ clock \in Int /\ clock # None
  BY DebounceAssumption DEF RouteInv, DebounceTypeOK, Time
<1>2. UNCHANGED <<clock, store, published, records, cache>> /\ pc[h] = "list" /\ pc'[h] = "read"
  BY <1>1 DEF ListConfigs, ListFails, debounceVars, RouteTypes
<1>3. \A g \in Handlers : g # h => pc'[g] = pc[g] /\ build'[g] = build[g]
  BY <1>1 DEF ListConfigs, ListFails, RouteTypes
<1>4. /\ build'[h].asOf = clock /\ build'[h].entries = {}
      /\ \/ build'[h].todo = {p \in Slugs : store[p] # None}
         \/ build'[h].todo = {} /\ build'[h].whole = FALSE
  <2>1. CASE ListConfigs(h)
    <3>1. build'[h] = [NoBuild EXCEPT !.todo = {p \in Slugs : store[p] # None}, !.asOf = clock]
      BY <1>1, <2>1 DEF ListConfigs, RouteTypes
    <3> QED
      BY <3>1 DEF NoBuild
  <2>2. CASE ListFails(h)
    <3>1. build'[h] = [NoBuild EXCEPT !.asOf = clock, !.whole = FALSE]
      BY <1>1, <2>2 DEF ListFails, RouteTypes
    <3> QED
      BY <3>1 DEF NoBuild
  <2> QED
    BY <2>1, <2>2
<1>5. BuildSound(h)'
  <2>1. clock <= clock /\ clock <= clock + BuildTime
    BY <1>1, WebhookAssumption
  <2>2. \A p \in build'[h].todo : store[p] \in Configs
    BY <1>1, <1>4 DEF RouteTypes
  <2>3. \A p \in Slugs : p \notin {q \in Slugs : store[q] # None} => Lists({}, p)
    BY DEF Lists
  <2>4. \A p \in Slugs : Lists({}, p)' <=> Lists({}, p)
    BY <1>2 DEF Lists
  <2> QED
    BY <1>1, <1>2, <1>4, <2>1, <2>2, <2>3, <2>4 DEF BuildSound
<1>6. AtUpload(h)'
  BY <1>2 DEF RouteInv, AtUpload
<1> QED
  BY <1>2, <1>3, <1>5, <1>6, Unmoved DEF RouteInv

\* A config that is read is the published one, if it was published before the
\* LIST; one that is not read spoils the build.
LEMMA ReadSound ==
    ASSUME DebounceTypeOK, RouteInv, NEW h \in Handlers, ReadConfig(h) \/ ReadFails(h)
    PROVE  RouteTypes' => RouteInv'
<1> SUFFICES ASSUME RouteTypes' PROVE RouteInv'
  OBVIOUS
<1> USE DEF webVars
<1>1. RouteTypes
  BY DEF RouteInv
<1>2. UNCHANGED <<clock, store, published, records, cache, pc>> /\ pc[h] = "read"
  BY DEF ReadConfig, ReadFails, debounceVars
<1>3. \A g \in Handlers : g # h => build'[g] = build[g]
  BY <1>1 DEF ReadConfig, ReadFails, RouteTypes
<1>4. PICK p \in build[h].todo :
        /\ build'[h].asOf = build[h].asOf /\ build'[h].todo = build[h].todo \ {p}
        /\ \/ build'[h].whole = FALSE
           \/ build'[h].whole = build[h].whole
              /\ build'[h].entries = build[h].entries \cup EntriesOf(p)
  <2>1. build[h] \in Builds
    BY <1>1 DEF RouteTypes
  <2>2. CASE ReadConfig(h)
    <3>1. PICK p \in build[h].todo :
            build' = [build EXCEPT ![h].todo = @ \ {p}, ![h].entries = @ \cup EntriesOf(p)]
      BY <2>2 DEF ReadConfig
    <3>2. build'[h] = [build[h] EXCEPT !.todo = @ \ {p}, !.entries = @ \cup EntriesOf(p)]
      BY <1>1, <3>1 DEF RouteTypes
    <3> QED
      BY <2>1, <3>2 DEF Builds
  <2>3. CASE ReadFails(h)
    <3>1. PICK p \in build[h].todo :
            build' = [build EXCEPT ![h].todo = @ \ {p}, ![h].whole = FALSE]
      BY <2>3 DEF ReadFails
    <3>2. build'[h] = [build[h] EXCEPT !.todo = @ \ {p}, !.whole = FALSE]
      BY <1>1, <3>1 DEF RouteTypes
    <3> QED
      BY <2>1, <3>2 DEF Builds
  <2> QED
    BY <2>2, <2>3
<1>5. BuildSound(h)
  BY DEF RouteInv
<1>6. BuildSound(h)'
  <2>1. /\ build'[h].asOf # None /\ build'[h].asOf <= clock'
        /\ clock' <= build'[h].asOf + BuildTime
        /\ \A q \in build'[h].todo : store'[q] \in Configs
    BY <1>2, <1>4, <1>5 DEF BuildSound
  <2>2. ASSUME build'[h].whole, NEW q \in Slugs, published'[q] < build'[h].asOf
        PROVE  /\ q \in build'[h].todo => \A e \in build'[h].entries : e.slug # q
               /\ q \notin build'[h].todo => Lists(build[h].entries, q)'
    <3>1. /\ build[h].whole /\ published[q] < build[h].asOf
          /\ build'[h].entries = build[h].entries \cup EntriesOf(p)
      BY <1>2, <1>4, <2>2
    <3>2. /\ q \in build[h].todo => \A e \in build[h].entries : e.slug # q
          /\ q \notin build[h].todo => Lists(build[h].entries, q)
      BY <1>2, <1>5, <3>1 DEF BuildSound
    <3>3. \A e \in EntriesOf(p) : e.slug = p /\ e.prefix \in store[p]
      BY DEF EntriesOf
    <3>4. CASE q # p
      <4>1. q \in build'[h].todo <=> q \in build[h].todo
        BY <1>4, <3>4
      <4>2. \A e \in build'[h].entries : e.slug = q => e \in build[h].entries
        BY <3>1, <3>3, <3>4
      <4>3. build[h].entries \subseteq build'[h].entries
        BY <3>1
      <4>4. Lists(build[h].entries, q) => Lists(build[h].entries, q)'
        BY <1>2, <4>2, <4>3 DEF Lists
      <4> QED
        BY <3>2, <4>1, <4>2, <4>4
    <3>5. CASE q = p
      <4>1. q \notin build'[h].todo /\ store[q] # None
        <5>1. store[q] \in Configs
          BY <1>2, <1>4, <1>5, <3>5 DEF BuildSound
        <5>2. q \in build[h].todo
          BY <1>4, <3>5
        <5> QED
          BY <1>4, <3>5, <5>1, WebhookAssumption
      <4>2. \A e \in build'[h].entries : e.slug = q => e.prefix \in store[q]
        BY <1>4, <3>1, <3>2, <3>3, <3>5
      <4>3. \A d \in store[q] : [prefix |-> d, slug |-> q] \in build'[h].entries
        BY <3>1, <3>5 DEF EntriesOf
      <4> QED
        BY <1>2, <4>1, <4>2, <4>3 DEF Lists
    <3> QED
      BY <3>4, <3>5
  <2> QED
    BY <2>1, <2>2 DEF BuildSound
<1> QED
  BY <1>1, <1>2, <1>3, <1>6, Unmoved DEF RouteInv

\* A table that is swapped in was begun at most BuildTime ago.
LEMMA SwapSound ==
    ASSUME DebounceTypeOK, RouteInv, NEW h \in Handlers, SwapTable(h)
    PROVE  RouteTypes' => RouteInv'
<1> SUFFICES ASSUME RouteTypes' PROVE RouteInv'
  OBVIOUS
<1> USE DEF Goto, webVars
<1>1. RouteTypes /\ clock \in Int /\ WorkerOf[h] \in Workers
  BY WebhookAssumption DEF RouteInv, DebounceTypeOK, Time
<1>2. UNCHANGED <<clock, store, published, records>> /\ pc[h] = "read" /\ pc'[h] = "slug"
  BY <1>1 DEF SwapTable, Routed, debounceVars, RouteTypes
<1>3. \A g \in Handlers : g # h => pc'[g] = pc[g] /\ build'[g] = build[g]
  BY <1>1 DEF SwapTable, Routed, RouteTypes
<1>4. \A w \in Workers : w # WorkerOf[h] => cache'[w] = cache[w]
  BY <1>1 DEF SwapTable, RouteTypes
<1>5. cache'[WorkerOf[h]] = Table(h)
  BY <1>1 DEF SwapTable, RouteTypes
<1>6. TableSound(WorkerOf[h])'
  <2>1. /\ build[h].todo = {} /\ build[h].asOf # None /\ clock <= build[h].asOf + BuildTime
        /\ build[h].whole => \A p \in Slugs : published[p] < build[h].asOf =>
             Lists(build[h].entries, p)
    BY <1>2 DEF SwapTable, RouteInv, BuildSound
  <2>2. build[h].asOf \in Int /\ BuildTime \in Int
    BY <1>1, <2>1, WebhookAssumption DEF RouteTypes, Builds, Time
  <2>3. \A p \in Slugs : published[p] \in Int
    BY <1>1 DEF RouteTypes, Time
  <2>4. \A p \in Slugs : published[p] + BuildTime < clock => published[p] < build[h].asOf
    BY <1>1, <2>1, <2>2, <2>3
  <2>5. \A p \in Slugs : Lists(build[h].entries, p) =>
           /\ \A e \in build[h].entries : e.slug = p => store'[p] # None /\ e.prefix \in store'[p]
           /\ store'[p] # None => \A d \in store'[p] : [prefix |-> d, slug |-> p] \in build[h].entries
    BY <1>2 DEF Lists
  <2>6. /\ cache'[WorkerOf[h]].builtAt = clock /\ cache'[WorkerOf[h]].whole = build[h].whole
        /\ cache'[WorkerOf[h]].entries = build[h].entries /\ clock <= clock
    BY <1>1, <1>5 DEF Table
  <2> QED
    BY <1>2, <2>1, <2>4, <2>5, <2>6 DEF TableSound, Lists
<1>7. AtUpload(h)'
  BY <1>2 DEF RouteInv, AtUpload
<1> QED
  BY <1>2, <1>3, <1>4, <1>6, <1>7, Unmoved DEF RouteInv

\* A config that is published is newer than every build and table.
LEMMA PublishSound ==
    ASSUME DebounceTypeOK, RouteInv, NEW p \in Slugs, Publish(p)
    PROVE  RouteTypes' => RouteInv'
<1> SUFFICES ASSUME RouteTypes' PROVE RouteInv'
  OBVIOUS
<1>1. RouteTypes /\ clock \in Int /\ BuildTime \in Nat
  BY WebhookAssumption DEF RouteInv, DebounceTypeOK, Time
<1>2. UNCHANGED <<clock, records, cache, pc, build>>
  BY DEF Publish, debounceVars, routeVars
<1>3. /\ published'[p] = clock /\ store'[p] \in Configs
      /\ \A q \in Slugs : q # p => published'[q] = published[q] /\ store'[q] = store[q]
  BY <1>1 DEF Publish, RouteTypes
<1>4. ASSUME NEW h \in Handlers PROVE AtUpload(h)' /\ BuildSound(h)'
  <2>1. AtUpload(h)'
    BY <1>2 DEF RouteInv, AtUpload
  <2>2. BuildSound(h)'
    <3> SUFFICES ASSUME pc[h] = "read" PROVE BuildSound(h)'
      BY <1>2 DEF BuildSound
    <3>1. BuildSound(h)
      BY DEF RouteInv
    <3>2. build[h].asOf \in Int /\ build[h].asOf <= clock
      BY <1>1, <3>1 DEF BuildSound, RouteTypes, Builds, Time
    <3>3. \A q \in build[h].todo : store'[q] \in Configs
      BY <1>1, <1>3, <3>1 DEF BuildSound, RouteTypes, Builds
    <3>4. \A q \in Slugs : published'[q] < build[h].asOf => q # p
      BY <1>1, <1>3, <3>2
    <3>5. \A q \in Slugs : q # p => (Lists(build[h].entries, q)' <=> Lists(build[h].entries, q))
      BY <1>2, <1>3 DEF Lists
    <3> QED
      BY <1>2, <1>3, <3>1, <3>3, <3>4, <3>5 DEF BuildSound
  <2> QED
    BY <2>1, <2>2
<1>5. ASSUME NEW w \in Workers PROVE TableSound(w)'
  <2> SUFFICES ASSUME cache[w].builtAt # None PROVE TableSound(w)'
    BY <1>2 DEF TableSound
  <2>1. TableSound(w)
    BY DEF RouteInv
  <2>2. cache[w].builtAt \in Int /\ cache[w].builtAt <= clock
    BY <1>1, <2>1 DEF TableSound, RouteTypes, Tables, Time
  <2>3. \A q \in Slugs : published'[q] + BuildTime < cache[w].builtAt => q # p
    BY <1>1, <1>3, <2>2
  <2>4. \A q \in Slugs : q # p => (Lists(cache[w].entries, q)' <=> Lists(cache[w].entries, q))
    BY <1>2, <1>3 DEF Lists
  <2> QED
    BY <1>2, <1>3, <2>1, <2>3, <2>4 DEF TableSound
<1> QED
  BY <1>4, <1>5 DEF RouteInv

\* Time passes, but not while a build would get too old.
LEMMA PassSound ==
    ASSUME DebounceTypeOK, RouteInv, Pass
    PROVE  RouteInv'
<1>1. RouteTypes /\ clock \in Int /\ BuildTime \in Nat
  BY WebhookAssumption DEF RouteInv, DebounceTypeOK, Time
<1>2. UNCHANGED <<routeVars, webVars>> /\ clock' = clock + 1
  BY DEF Pass, Tick
<1>3. UNCHANGED <<pc, records, slugs, build, cache, store, published>>
  BY <1>2 DEF routeVars, webVars
<1>4. ASSUME NEW h \in Handlers PROVE AtUpload(h)' /\ BuildSound(h)'
  <2>1. AtUpload(h)'
    BY <1>3 DEF RouteInv, AtUpload
  <2>2. BuildSound(h)'
    <3> SUFFICES ASSUME pc[h] = "read" PROVE BuildSound(h)'
      BY <1>3 DEF BuildSound
    <3>1. BuildSound(h)
      BY DEF RouteInv
    <3>2. build[h].asOf \in Int /\ build[h].asOf <= clock /\ clock < build[h].asOf + BuildTime
      BY <1>1, <3>1 DEF BuildSound, RouteTypes, Builds, Time, Pass
    <3>3. build[h].asOf <= clock' /\ clock' <= build[h].asOf + BuildTime
      BY <1>1, <1>2, <3>2
    <3>4. \A q \in Slugs : Lists(build[h].entries, q)' <=> Lists(build[h].entries, q)
      BY <1>3 DEF Lists
    <3> QED
      BY <1>3, <3>1, <3>3, <3>4 DEF BuildSound
  <2> QED
    BY <2>1, <2>2
<1>5. ASSUME NEW w \in Workers PROVE TableSound(w)'
  <2> SUFFICES ASSUME cache[w].builtAt # None PROVE TableSound(w)'
    BY <1>3 DEF TableSound
  <2>1. TableSound(w)
    BY DEF RouteInv
  <2>2. cache[w].builtAt \in Int
    BY <1>1 DEF RouteTypes, Tables, Time
  <2>3. cache[w].builtAt <= clock'
    BY <1>1, <1>2, <2>1, <2>2 DEF TableSound
  <2>4. \A q \in Slugs : Lists(cache[w].entries, q)' <=> Lists(cache[w].entries, q)
    BY <1>3 DEF Lists
  <2> QED
    BY <1>3, <2>1, <2>3, <2>4 DEF TableSound
<1>6. RouteTypes'
  BY <1>1, <1>3 DEF RouteTypes
<1> QED
  BY <1>4, <1>5, <1>6 DEF RouteInv

\* Every step keeps the invariant.
LEMMA RouteStep ==
    ASSUME DebounceTypeOK, RouteInv, [Next]_vars
    PROVE  RouteInv'
<1> USE DEF Goto, webVars, debounceVars
<1>1. RouteTypes /\ RouteTypes'
  BY RouteTypesStep DEF RouteInv
<1>2. ASSUME NEW h \in Handlers, Accept(h) \/ RecordDone(h) PROVE RouteInv'
  <2>1. UNCHANGED <<clock, store, published, build, cache>>
    BY <1>2 DEF Accept, RecordDone
  <2>2. PICK rs \in Seq(Records) : NextRecord(h, rs)
    <3>1. CASE Accept(h)
      BY <3>1, WebhookAssumption DEF Accept
    <3>2. CASE RecordDone(h)
      <4>1. records[h] # <<>>
        BY <3>2 DEF RecordDone, RouteInv, AtUpload
      <4>2. Tail(records[h]) \in Seq(Records)
        BY <1>1, <4>1, HeadTailProperties DEF RouteTypes
      <4> QED
        BY <3>2, <4>2 DEF RecordDone
    <3> QED
      BY <1>2, <3>1, <3>2
  <2>3. /\ AtUpload(h)' /\ pc'[h] # "read"
        /\ \A g \in Handlers : g # h => pc'[g] = pc[g] /\ records'[g] = records[g]
    BY <1>1, <2>2, NextUpload DEF AtUpload
  <2> QED
    BY <1>1, <2>1, <2>3, Unmoved DEF RouteInv
<1>3. ASSUME NEW h \in Handlers, RouteHit(h) \/ RouteMiss(h) \/ NextSlug(h) PROVE RouteInv'
  <2>1. UNCHANGED <<clock, store, published, build, cache, records>>
    BY <1>3 DEF RouteHit, RouteMiss, NextSlug
  <2>2. /\ pc[h] # "idle" /\ pc'[h] # "read"
        /\ \A g \in Handlers : g # h => pc'[g] = pc[g]
    BY <1>1, <1>3 DEF RouteHit, RouteMiss, NextSlug, Routed, RouteTypes
  <2>3. AtUpload(h)'
    BY <2>1, <2>2 DEF RouteInv, AtUpload
  <2> QED
    BY <1>1, <2>1, <2>2, <2>3, Unmoved DEF RouteInv
<1>4. ASSUME NEW h \in Handlers, ListConfigs(h) \/ ListFails(h) PROVE RouteInv'
  BY <1>1, <1>4, ListSound
<1>5. ASSUME NEW h \in Handlers, ReadConfig(h) \/ ReadFails(h) PROVE RouteInv'
  BY <1>1, <1>5, ReadSound
<1>6. ASSUME NEW h \in Handlers, SwapTable(h) PROVE RouteInv'
  BY <1>1, <1>6, SwapSound
<1>7. ASSUME NEW w \in Workers, NEW p \in Slugs, Validate(w, p) PROVE RouteInv'
  <2>1. UNCHANGED <<clock, store, published, build, records, pc>>
    BY <1>7 DEF Validate
  <2>2. \A v \in Workers : (v = w /\ cache'[v].builtAt = None) \/ cache'[v] = cache[v]
    BY <1>1, <1>7 DEF Validate, RouteTypes, Tables
  <2> QED
    BY <1>1, <2>1, <2>2, Unmoved DEF RouteInv
<1>8. ASSUME NEW p \in Slugs, Publish(p) PROVE RouteInv'
  BY <1>1, <1>8, PublishSound
<1>9. ASSUME NEW w \in Workers, WorkerDies(w) PROVE RouteInv'
  <2>1. UNCHANGED <<clock, store, published>>
    BY <1>9 DEF WorkerDies
  <2>2. \A h \in Handlers :
          \/ pc'[h] = "idle"
          \/ pc'[h] = pc[h] /\ build'[h] = build[h] /\ records'[h] = records[h]
    <3> TAKE h \in Handlers
    <3> DEFINE mine == {g \in Handlers : WorkerOf[g] = w}
    <3>1. pc' = [g \in Handlers |-> IF g \in mine THEN "idle" ELSE pc[g]]
      BY <1>9, Zenon DEF WorkerDies
    <3>2. build' = [g \in Handlers |-> IF g \in mine THEN NoBuild ELSE build[g]]
      BY <1>9 DEF WorkerDies
    <3>3. records' = [g \in Handlers |-> IF g \in mine THEN <<>> ELSE records[g]]
      BY <1>9, Zenon DEF WorkerDies
    <3> HIDE DEF mine
    <3>4. CASE h \in mine
      BY <3>1, <3>4
    <3>5. CASE h \notin mine
      <4>1. pc'[h] = pc[h]
        BY <3>1, <3>5
      <4>2. build'[h] = build[h]
        BY <3>2, <3>5
      <4>3. records'[h] = records[h]
        BY <3>3, <3>5
      <4> QED
        BY <4>1, <4>2, <4>3
    <3> QED
      BY <3>4, <3>5
  <2>3. \A v \in Workers : (v = w /\ cache'[v].builtAt = None) \/ cache'[v] = cache[v]
    BY <1>1, <1>9 DEF WorkerDies, RouteTypes, NoTable
  <2>4. \A h \in Handlers : pc'[h] = "idle" => AtUpload(h)'
    BY DEF AtUpload
  <2> QED
    BY <1>1, <2>1, <2>2, <2>3, <2>4, Unmoved DEF RouteInv
<1>10. ASSUME UNCHANGED <<routeVars, webVars, clock>> PROVE RouteInv'
  <2>1. UNCHANGED <<pc, records, build, cache, store, published, clock>>
    BY <1>10 DEF routeVars
  <2> QED
    BY <1>1, <2>1, Unmoved DEF RouteInv
<1>11. ASSUME NEW h \in Handlers, Refuse(h) PROVE UNCHANGED <<routeVars, webVars, clock>>
  BY <1>11 DEF Refuse
<1>12. ASSUME NEW h \in Handlers,
              \/ Debounced(SetFirst(h)) \/ Debounced(AddScore(h))
              \/ Debounced(SetFails(h)) \/ Debounced(AddFails(h))
       PROVE  UNCHANGED <<routeVars, webVars, clock>>
  BY <1>12 DEF Debounced, SetFirst, AddScore, SetFails, AddFails
<1>13. ASSUME NEW w \in Workers, Debounced(SchedulerStep(w) \/ SchedulerFault(w))
       PROVE  UNCHANGED <<routeVars, webVars, clock>>
  BY <1>13 DEF Debounced, SchedulerStep, SchedulerFault, PopDue, EnqueueDue,
               PopReplyLost, EnqueueFails
<1>14. ASSUME NEW p \in Slugs, Debounced(FirstExpires(p))
       PROVE  UNCHANGED <<routeVars, webVars, clock>>
  BY <1>14 DEF Debounced, FirstExpires
<1>15. UNCHANGED vars => UNCHANGED <<routeVars, webVars, clock>>
  BY DEF vars
<1> QED
  BY <1>2, <1>3, <1>4, <1>5, <1>6, <1>7, <1>8, <1>9, <1>10, <1>11, <1>12, <1>13, <1>14, <1>15,
     PassSound DEF Next, HandlerStep, HandlerFault

-----------------------------------------------------------------------------
(* Lookups.                                                                 *)

\* What SettledRouted says of a step.
Settled ==
    \A h \in Handlers, p \in Slugs :
        LooksUp(h) /\ cache'[WorkerOf[h]].whole
                   /\ published[p] + RoutingTTL + BuildTime < clock =>
        (p \in slugs'[h] <=>
            /\ store[p] # None
            /\ \E d \in store[p] \ {<<>>} : StartsWith(Uploaded(h), d))

\* Only a fresh table, or one that has just been built, is looked up.
LEMMA TwoLookups ==
    ASSUME RouteTypes, [Next]_vars, NEW h \in Handlers, LooksUp(h)
    PROVE  RouteHit(h) \/ SwapTable(h)
<1> USE DEF Goto, routeVars
<1>1. pc[h] # "slug" /\ pc'[h] = "slug" /\ pc' # pc
  BY DEF LooksUp
<1>2. ASSUME NEW g \in Handlers, Accept(g) \/ RecordDone(g) PROVE FALSE
  <2>1. PICK rs : NextRecord(g, rs)
    BY <1>2 DEF Accept, RecordDone
  <2> QED
    BY <1>1, <2>1 DEF NextRecord, RouteTypes
<1>3. ASSUME NEW g \in Handlers,
             \/ RouteMiss(g) \/ ListConfigs(g) \/ ListFails(g)
      PROVE  FALSE
  BY <1>1, <1>3 DEF RouteMiss, ListConfigs, ListFails, RouteTypes
<1>4. ASSUME NEW g \in Handlers, RouteHit(g) \/ SwapTable(g) PROVE RouteHit(h) \/ SwapTable(h)
  <2>1. g = h
    BY <1>1, <1>4 DEF RouteHit, SwapTable, Routed, RouteTypes
  <2> QED
    BY <1>4, <2>1
<1>5. ASSUME NEW w \in Workers, WorkerDies(w) PROVE FALSE
  <2> DEFINE mine == {g \in Handlers : WorkerOf[g] = w}
  <2>1. pc' = [g \in Handlers |-> IF g \in mine THEN "idle" ELSE pc[g]]
    BY <1>5, Zenon DEF WorkerDies
  <2> HIDE DEF mine
  <2> QED
    BY <1>1, <2>1
<1>6. ASSUME NEW g \in Handlers, Refuse(g) \/ ReadConfig(g) \/ ReadFails(g) \/ NextSlug(g)
      PROVE  pc' = pc
  BY <1>6 DEF Refuse, ReadConfig, ReadFails, NextSlug
<1>7. ASSUME NEW A, Debounced(A) PROVE pc' = pc
  BY <1>7 DEF Debounced
<1>8. ASSUME NEW p \in Slugs, Publish(p) \/ \E w \in Workers : Validate(w, p) PROVE pc' = pc
  BY <1>8 DEF Publish, Validate
<1>9. Pass \/ UNCHANGED vars => pc' = pc
  BY DEF Pass, vars
<1> QED
  BY <1>1, <1>2, <1>3, <1>4, <1>5, <1>6, <1>7, <1>8, <1>9 DEF Next, HandlerStep, HandlerFault

\* match_key on a table that lists p finds it by its sources.
LEMMA MatchListed ==
    ASSUME NEW entries, NEW p \in Slugs, Lists(entries, p), NEW k
    PROVE  p \in MatchKey(entries, k) <=>
               /\ store[p] # None
               /\ \E d \in store[p] \ {<<>>} : StartsWith(k, d)
<1>1. ASSUME p \in MatchKey(entries, k)
      PROVE  store[p] # None /\ \E d \in store[p] \ {<<>>} : StartsWith(k, d)
  <2>1. PICK e \in entries : e.slug = p /\ e.prefix # <<>> /\ StartsWith(k, e.prefix)
    BY <1>1 DEF MatchKey
  <2> QED
    BY <2>1 DEF Lists
<1>2. ASSUME store[p] # None, NEW d \in store[p] \ {<<>>}, StartsWith(k, d)
      PROVE  p \in MatchKey(entries, k)
  <2> DEFINE e == [prefix |-> d, slug |-> p]
  <2>1. e \in entries
    BY <1>2 DEF Lists
  <2>2. e.slug = p /\ e.prefix # <<>> /\ StartsWith(k, e.prefix)
    BY <1>2
  <2> HIDE DEF e
  <2> QED
    BY <2>1, <2>2 DEF MatchKey
<1> QED
  BY <1>1, <1>2

\* Decoding the key of a record gives the key of the object uploaded.
LEMMA KeyUploaded ==
    ASSUME \A k \in Keys : UrlDecode(UrlEncode(k)) = k,
           RouteTypes, NEW h \in Handlers, AtUpload(h), pc[h] # "idle"
    PROVE  KeyOf(h) = Uploaded(h)
<1>1. Head(records[h]) \in Records /\ Relevant(Head(records[h]))
  BY HeadTailProperties DEF AtUpload, RouteTypes
<1>2. PICK k \in Keys : UrlEncode(k) = Head(records[h]).key
  BY <1>1 DEF Records, Relevant
<1>3. Uploaded(h) \in Keys /\ UrlEncode(Uploaded(h)) = Head(records[h]).key
  BY <1>2, Zenon DEF Uploaded
<1> QED
  BY <1>3 DEF KeyOf

\* A lookup finds what the settled configs say.
LEMMA SettledStep ==
    ASSUME \A k \in Keys : UrlDecode(UrlEncode(k)) = k,
           DebounceTypeOK, RouteInv, [Next]_vars
    PROVE  Settled
<1> SUFFICES ASSUME NEW h \in Handlers, NEW p \in Slugs,
                    LooksUp(h), cache'[WorkerOf[h]].whole,
                    published[p] + RoutingTTL + BuildTime < clock
             PROVE  p \in slugs'[h] <=>
                        /\ store[p] # None
                        /\ \E d \in store[p] \ {<<>>} : StartsWith(Uploaded(h), d)
  BY DEF Settled
<1>1. RouteTypes /\ clock \in Int /\ published[p] \in Int /\ WorkerOf[h] \in Workers
  BY WebhookAssumption DEF RouteInv, RouteTypes, DebounceTypeOK, Time
<1>2. KeyOf(h) = Uploaded(h)
  <2>1. AtUpload(h) /\ pc[h] # "idle"
    BY DEF RouteInv, LooksUp
  <2> QED
    BY <1>1, <2>1, KeyUploaded
<1>3. \E entries : Lists(entries, p) /\ slugs'[h] = MatchKey(entries, KeyOf(h))
  <2>1. CASE RouteHit(h)
    <3> DEFINE w == WorkerOf[h]
    <3>1. /\ cache[w].builtAt # None /\ clock - cache[w].builtAt < RoutingTTL /\ cache[w].whole
          /\ slugs'[h] = MatchKey(cache[w].entries, KeyOf(h))
      BY <1>1, <2>1 DEF RouteHit, Routed, Fresh, RouteTypes
    <3>2. cache[w].builtAt \in Int
      BY <1>1, <3>1 DEF RouteTypes, Tables, Time
    <3>3. published[p] + BuildTime < cache[w].builtAt
      BY <1>1, <3>1, <3>2, WebhookAssumption
    <3>4. Lists(cache[w].entries, p)
      BY <1>1, <3>1, <3>3 DEF RouteInv, TableSound
    <3> QED
      BY <3>1, <3>4
  <2>2. CASE SwapTable(h)
    <3>1. pc[h] = "read" /\ build[h].todo = {} /\ slugs'[h] = MatchKey(build[h].entries, KeyOf(h))
      BY <1>1, <2>2 DEF SwapTable, Routed, RouteTypes
    <3>2. build[h].whole
      BY <1>1, <2>2 DEF SwapTable, Table, RouteTypes
    <3>3. build[h].asOf # None /\ clock <= build[h].asOf + BuildTime
      BY <3>1 DEF RouteInv, BuildSound
    <3>4. build[h].asOf \in Int
      BY <1>1, <3>3 DEF RouteTypes, Builds, Time
    <3>5. published[p] < build[h].asOf
      BY <1>1, <3>3, <3>4, WebhookAssumption
    <3>6. Lists(build[h].entries, p)
      BY <3>1, <3>2, <3>5 DEF RouteInv, BuildSound
    <3> QED
      BY <3>1, <3>6
  <2> QED
    BY <1>1, <2>1, <2>2, TwoLookups
<1> QED
  BY <1>2, <1>3, MatchListed

-----------------------------------------------------------------------------
(* The theorems.                                                            *)

\* At the start there are no requests, events or tables.
LEMMA WebInit == Init => DebounceTypeOK /\ RouteInv /\ EventsKept /\ WindowInv
<1> SUFFICES ASSUME Init PROVE DebounceTypeOK /\ RouteInv /\ EventsKept /\ WindowInv
  OBVIOUS
<1>1. DebounceTypeOK
  BY TypeInit DEF Init
<1>2. NoTable \in Tables /\ NoBuild \in Builds /\ <<>> \in Seq(Records) /\ 0 \in Time
  BY DebounceAssumption DEF NoTable, NoBuild, Tables, Builds, Time
<1>3. RouteTypes
  BY <1>2 DEF Init, RouteTypes
<1>4. \A h \in Handlers : AtUpload(h) /\ BuildSound(h)
  BY DEF Init, AtUpload, BuildSound
<1>5. \A w \in Workers : TableSound(w)
  BY DEF Init, TableSound, NoTable
<1>6. EventsKept /\ WindowInv
  BY DEF Init, DebounceInit, EventsKept, WindowInv, ReadBefore
<1> QED
  BY <1>1, <1>3, <1>4, <1>5, <1>6 DEF RouteInv

\* The invariant that the theorems follow from.
LEMMA WebInvariant == Spec => [](DebounceTypeOK /\ RouteInv /\ EventsKept /\ WindowInv)
<1> DEFINE Inv == DebounceTypeOK /\ RouteInv /\ EventsKept /\ WindowInv
<1>1. Init => Inv
  BY WebInit
<1>2. Inv /\ [Next]_vars => Inv'
  BY DebounceTypesStep, RouteStep, WebKeptStep, WebWindowStep DEF RouteInv
<1> HIDE DEF Inv
<1>3. Spec => []Inv
  BY <1>1, <1>2, PTL DEF Spec
<1> QED
  BY <1>3 DEF Inv

\* The types hold, whatever requests, builds, failures and deaths interleave.
THEOREM WebTypesHold == Spec => []TypeOK
<1>1. DebounceTypeOK /\ RouteInv => TypeOK
  BY DEF RouteInv, RouteTypes, Builds, Tables, TypeOK
<1> QED
  BY <1>1, WebInvariant, PTL

\* Whatever rebuilds, validations, publications and failures race: once a config
\* has been published for longer than ROUTING_TTL and a build, every lookup in
\* a table that was read without failures finds its pipeline exactly for the
\* uploads under its sources, given that urldecode undoes how S3 spells keys.
THEOREM RoutingSettles ==
    ASSUME \A k \in Keys : UrlDecode(UrlEncode(k)) = k
    PROVE  Spec => SettledRouted
<1>1. DebounceTypeOK /\ RouteInv /\ [Next]_vars => [Settled]_vars
  BY SettledStep
<1>2. Spec => [][Settled]_vars
  BY <1>1, WebInvariant, PTL DEF Spec
<1> QED
  BY <1>2 DEF SettledRouted, Settled

\* An upload event that a request has recorded keeps its window or its place
\* in a scheduler until a job is enqueued, also when events come several to a
\* request and whole workers die.
THEOREM RequestsAreKept == Spec => []EventsKept
  BY WebInvariant, PTL

\* Nor do requests of several slugs keep a window open any longer.
THEOREM RequestsWaitBounded == Spec => []WaitBounded
  BY WindowsEnd, WebInvariant, PTL
=============================================================================
