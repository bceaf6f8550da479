------------------------------ MODULE Webhook ------------------------------
(***************************************************************************)
(* The upload webhook (src/http.rs): post_s3_events finds the pipelines an  *)
(* uploaded key belongs to in a routing table that each worker caches, and  *)
(* records an event for each of them (module Debounce).  The table is       *)
(* rebuilt from the published configs, outside the lock, when it is stale;  *)
(* post_config_validate drops it.                                          *)
(*                                                                         *)
(* Every access to the cache, every S3 read of a build and every Redis      *)
(* command is a step of its own.                                           *)
(***************************************************************************)
EXTENDS Debounce, Text

CONSTANTS
    WorkerOf,       \* handler -> the worker that serves it
    RoutingTTL,     \* ROUTING_TTL
    BuildTime,      \* longest time the S3 reads of a build take
    Prefixes,       \* path prefixes of sources
    Keys,           \* keys of uploaded objects
    Requests,       \* payloads: sequences of records
    Configs,        \* sets of path prefixes a config may have
    MaxPublish      \* how many configs are published

\* What of an S3EventRecord the handler looks at: an event name that starts
\* with s3:ObjectCreated:, the lake bucket, and a key as S3 events spell it.
Records == [created : BOOLEAN, lake : BOOLEAN, key : {UrlEncode(k) : k \in Keys} \cup {None}]

ASSUME WebhookAssumption ==
    /\ WorkerOf \in [Handlers -> Workers]
    /\ RoutingTTL \in Nat \ {0} /\ BuildTime \in Nat
    /\ Requests \subseteq Seq(Records)
    /\ Configs \subseteq SUBSET Prefixes /\ None \notin Configs
    /\ MaxPublish \in Nat

VARIABLES
    pc,             \* handler -> what post_s3_events does next
    records,        \* handler -> records still to be looked at
    slugs,          \* handler -> slugs the current key routes to, still to do
    build,          \* handler -> its build_routing
    cache,          \* worker -> its RoutingCache
    store,          \* slug -> path prefixes of its published config, or None
    validated,      \* slugs whose next config has been validated
    published,      \* ghost: slug -> when its config was last published
    publishes       \* configs published

routeVars == <<pc, records, slugs, build, cache>>
webVars == <<store, validated, published, publishes>>
vars == <<debounceVars, routeVars, webVars>>

Relevant(r) == r.created /\ r.lake /\ r.key # None

Entries == [prefix : Prefixes, slug : Slugs]

\* whole (ghost): the LIST and every GET of the build succeeded.  asOf is when
\* the LIST was answered.
NoTable == [entries |-> {}, builtAt |-> None, whole |-> TRUE]
NoBuild == [todo |-> {}, entries |-> {}, asOf |-> None, whole |-> TRUE]

Init ==
    /\ DebounceInit
    /\ pc = [h \in Handlers |-> "idle"]
    /\ records = [h \in Handlers |-> <<>>]
    /\ slugs = [h \in Handlers |-> {}]
    /\ build = [h \in Handlers |-> NoBuild]
    /\ cache = [w \in Workers |-> NoTable]
    /\ store \in [Slugs -> Configs \cup {None}]
    /\ validated = {}
    /\ published = [p \in Slugs |-> 0]
    /\ publishes = 0

Goto(h, label) == pc' = [pc EXCEPT ![h] = label]

-----------------------------------------------------------------------------
\* post_s3_events

\* A request without the webhook secret (401), with a body that is no payload
\* (400), or that finds Redis unreachable (503) ends before it looks at a record.
Refuse(h) ==
    /\ pc[h] = "idle"
    /\ Arrival
    /\ UNCHANGED <<clock, first, score, call, due, owed, oldest, faults, routeVars, webVars>>

\* The first relevant record, or the answer: 200, whatever became of the events.
NextRecord(h, rs) ==
    \/ /\ \A i \in DOMAIN rs : ~Relevant(rs[i])
       /\ records' = [records EXCEPT ![h] = <<>>]
       /\ Goto(h, "idle")
    \/ \E i \in DOMAIN rs :
          /\ Relevant(rs[i])
          /\ \A j \in 1 .. (i - 1) : ~Relevant(rs[j])
          /\ records' = [records EXCEPT ![h] = SubSeq(rs, i, Len(rs))]
          /\ Goto(h, "record")

Accept(h) ==
    /\ pc[h] = "idle"
    /\ Arrival
    /\ \E rs \in Requests : NextRecord(h, rs)
    /\ UNCHANGED <<clock, first, score, call, due, owed, oldest, faults, slugs, build, cache, webVars>>

KeyOf(h) == UrlDecode(Head(records[h]).key)

\* Takes the empty prefix of a source for one that every key has.
MatchKeyEmpty(entries, k) ==
    {e.slug : e \in {x \in entries : StartsWith(k, x.prefix)}}

\* match_key
MatchKey(entries, k) ==
    {e.slug : e \in {x \in entries : x.prefix # <<>> /\ StartsWith(k, x.prefix)}}

\* One lookup per record: the rest of the record is a loop over its slugs.
Routed(h, ss) ==
    /\ slugs' = [slugs EXCEPT ![h] = ss]
    /\ Goto(h, "slug")

\* A table that is never rebuilt once it exists.
FreshForever(w) == cache[w].builtAt # None

Fresh(w) == cache[w].builtAt # None /\ clock - cache[w].builtAt < RoutingTTL

\* route_key with a fresh table, under the read lock.
RouteHit(h) ==
    /\ pc[h] = "record"
    /\ Fresh(WorkerOf[h])
    /\ Routed(h, MatchKey(cache[WorkerOf[h]].entries, KeyOf(h)))
    /\ UNCHANGED <<debounceVars, records, build, cache, webVars>>

\* A stale table: the lock is given up and the configs are listed.
RouteMiss(h) ==
    /\ pc[h] = "record"
    /\ ~Fresh(WorkerOf[h])
    /\ Goto(h, "list")
    /\ UNCHANGED <<debounceVars, records, slugs, build, cache, webVars>>

\* build_routing: the LIST names the slugs that have a pipeline.json.
ListConfigs(h) ==
    /\ pc[h] = "list"
    /\ build' = [build EXCEPT ![h] = [NoBuild EXCEPT
                    !.todo = {p \in Slugs : store[p] # None}, !.asOf = clock]]
    /\ Goto(h, "read")
    /\ UNCHANGED <<debounceVars, records, slugs, cache, webVars>>

\* A failed LIST gives an empty table.
ListFails(h) ==
    /\ pc[h] = "list"
    /\ Fault
    /\ build' = [build EXCEPT ![h] = [NoBuild EXCEPT !.asOf = clock, !.whole = FALSE]]
    /\ Goto(h, "read")
    /\ UNCHANGED <<clock, first, score, call, due, owed, oldest, arrivals, records, slugs,
                   cache, webVars>>

\* Prefix and slug the wrong way round.
EntriesSwapped(p) == {[prefix |-> p, slug |-> d] : d \in store[p]}

EntriesOf(p) == {[prefix |-> d, slug |-> p] : d \in store[p]}

ReadConfig(h) ==
    /\ pc[h] = "read"
    /\ \E p \in build[h].todo :
          build' = [build EXCEPT ![h].todo = @ \ {p},
                                 ![h].entries = @ \cup EntriesOf(p)]
    /\ UNCHANGED <<debounceVars, pc, records, slugs, cache, webVars>>

\* A config that cannot be read or parsed is left out.
ReadFails(h) ==
    /\ pc[h] = "read"
    /\ Fault
    /\ \E p \in build[h].todo :
          build' = [build EXCEPT ![h].todo = @ \ {p}, ![h].whole = FALSE]
    /\ UNCHANGED <<clock, first, score, call, due, owed, oldest, arrivals, pc, records,
                   slugs, cache, webVars>>

Table(h) == [entries |-> build[h].entries, builtAt |-> clock,
             whole |-> build[h].whole]

\* The write lock: the last build to end wins, failed or not.
SwapTable(h) ==
    /\ pc[h] = "read"
    /\ build[h].todo = {}
    /\ cache' = [cache EXCEPT ![WorkerOf[h]] = Table(h)]
    /\ Routed(h, MatchKey(build[h].entries, KeyOf(h)))
    /\ build' = [build EXCEPT ![h] = NoBuild]
    /\ UNCHANGED <<debounceVars, records, webVars>>

\* The loop over the slugs: debounce_event, one after the other.
NextSlug(h) ==
    /\ pc[h] = "slug"
    /\ call[h] = None
    /\ \E p \in slugs[h] :
          /\ slugs' = [slugs EXCEPT ![h] = @ \ {p}]
          /\ BeginEvent(h, p)
    /\ UNCHANGED <<clock, first, score, due, owed, oldest, faults, arrivals, pc, records,
                   build, cache, webVars>>

RecordDone(h) ==
    /\ pc[h] = "slug"
    /\ call[h] = None
    /\ slugs[h] = {}
    /\ NextRecord(h, Tail(records[h]))
    /\ UNCHANGED <<debounceVars, slugs, build, cache, webVars>>

-----------------------------------------------------------------------------
\* Validation and publication of configs

\* post_config_validate drops the routing table first, whatever the verdict.
Validate(w, p) ==
    /\ publishes < MaxPublish
    /\ p \notin validated
    /\ cache' = [cache EXCEPT ![w].builtAt = None]
    /\ validated' = validated \cup {p}
    /\ UNCHANGED <<debounceVars, pc, records, slugs, build, store, published,
                   publishes>>

\* The web application publishes a config it has had validated.
Publish(p) ==
    /\ publishes < MaxPublish
    /\ p \in validated
    /\ \E c \in Configs : store' = [store EXCEPT ![p] = c]
    /\ validated' = validated \ {p}
    /\ published' = [published EXCEPT ![p] = clock]
    /\ publishes' = publishes + 1
    /\ UNCHANGED <<debounceVars, routeVars>>

-----------------------------------------------------------------------------
\* Debounce, time and failures

Debounced(A) == A /\ UNCHANGED <<routeVars, webVars>>

\* The S3 client gives up a build that takes longer than BuildTime.
Pass ==
    /\ Tick
    /\ \A h \in Handlers : pc[h] = "read" => clock < build[h].asOf + BuildTime
    /\ UNCHANGED <<routeVars, webVars>>

\* A worker dies: its requests, its table and what its scheduler has popped
\* are gone.  It is restarted at once.
WorkerDies(w) ==
    LET mine == {h \in Handlers : WorkerOf[h] = w}
        reset(f, v) == [h \in Handlers |-> IF h \in mine THEN v ELSE f[h]]
    IN  /\ Fault
        /\ pc' = reset(pc, "idle")
        /\ records' = reset(records, <<>>)
        /\ slugs' = reset(slugs, {})
        /\ build' = reset(build, NoBuild)
        /\ call' = reset(call, None)
        /\ cache' = [cache EXCEPT ![w] = NoTable]
        /\ due' = [due EXCEPT ![w] = {}]
        /\ owed' = Forgotten(due[w], score)
        /\ UNCHANGED <<clock, first, score, oldest, arrivals, webVars>>

HandlerStep(h) ==
    \/ RouteHit(h) \/ RouteMiss(h) \/ ListConfigs(h)
    \/ ReadConfig(h) \/ SwapTable(h) \/ NextSlug(h) \/ RecordDone(h)
    \/ Debounced(SetFirst(h)) \/ Debounced(AddScore(h))

HandlerFault(h) ==
    \/ ListFails(h) \/ ReadFails(h) \/ Debounced(SetFails(h)) \/ Debounced(AddFails(h))

SchedulerFault(w) == PopReplyLost(w) \/ EnqueueFails(w)

Next ==
    \/ \E h \in Handlers : Accept(h) \/ Refuse(h) \/ HandlerStep(h) \/ HandlerFault(h)
    \/ \E w \in Workers : \/ Debounced(SchedulerStep(w) \/ SchedulerFault(w))
                          \/ WorkerDies(w)
    \/ \E p \in Slugs : Publish(p) \/ Debounced(FirstExpires(p))
    \/ \E w \in Workers, p \in Slugs : Validate(w, p)
    \/ Pass

Spec == Init /\ [][Next]_vars

-----------------------------------------------------------------------------
\* Properties

TypeOK ==
    /\ DebounceTypeOK
    /\ pc \in [Handlers -> {"idle", "record", "list", "read", "slug"}]
    /\ \A h \in Handlers : slugs[h] \subseteq Slugs /\ build[h].todo \subseteq Slugs
    /\ \A h \in Handlers : build[h].entries \subseteq Entries
    /\ \A w \in Workers : cache[w].entries \subseteq Entries
    /\ store \in [Slugs -> Configs \cup {None}]

\* The pipelines a lookup by h has just found, in a step that makes one.
LooksUp(h) == pc[h] \in {"record", "read"} /\ pc'[h] = "slug"

\* The object whose upload the record of h reports.
Uploaded(h) == CHOOSE k \in Keys : UrlEncode(k) = Head(records[h]).key

\* Whatever rebuilds, validations and publications race: when the config of a
\* pipeline has not changed for the routing TTL and the duration of a build,
\* a lookup that uses a table read without failures finds the pipeline
\* exactly if the config has a source the uploaded object lies under, however
\* the event spells the object's key.
SettledRouted ==
    [][\A h \in Handlers, p \in Slugs :
          LooksUp(h) /\ cache'[WorkerOf[h]].whole
                     /\ published[p] + RoutingTTL + BuildTime < clock =>
          (p \in slugs'[h] <=>
              /\ store[p] # None
              /\ \E d \in store[p] \ {<<>>} : StartsWith(Uploaded(h), d))]_vars

=============================================================================
