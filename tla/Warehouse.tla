----------------------------- MODULE Warehouse -----------------------------
(***************************************************************************)
(* How runs publish versions of one analytic table in the warehouse        *)
(* bucket: the part of execute_job (src/src/job.rs) that writes, and       *)
(* src/src/manifest.rs.                                                    *)
(*                                                                         *)
(* A run reads the pointer and the manifest it names, uploads the objects  *)
(* of every mapping under the prefix of the next version, PUTs the new     *)
(* manifest, flips the pointer and vacuums what no retained manifest       *)
(* references.  Every S3 command is one step and a run may stop between    *)
(* any two of them.  Tables are independent (their prefixes are disjoint), *)
(* so one is modelled.                                                     *)
(*                                                                         *)
(* Runs normally follow one another, serialized by the pipeline lock of    *)
(* JobQueue; with Overlap a run may start while another, whose lock has    *)
(* run out, is still going on.                                             *)
(***************************************************************************)
EXTENDS Integers, FiniteSets

CONSTANTS
    Runs,           \* executions of execute_job, in any order
    Mappings,       \* mappings that write the table
    Parts,          \* hive partitions a mapping may produce
    Retain,         \* RETAINED_VERSIONS
    MaxVersion,     \* bound on version numbers
    Overlap,        \* BOOLEAN: may a run start before the last one ended?
    PointerFaults,  \* BOOLEAN: may the GET of an existing pointer fail?
    DeleteFaults,   \* how many DELETEs of a vacuum may fail at most
    None

ASSUME WarehouseAssumption ==
    /\ Retain \in Nat \ {0} /\ MaxVersion \in Nat
    /\ Overlap \in BOOLEAN /\ PointerFaults \in BOOLEAN /\ DeleteFaults \in Nat
    /\ None \notin Runs

Versions == 1 .. MaxVersion
Keys     == Versions \X Mappings \X Parts   \* v<version>/<segments>/<mapping>.parquet

\* A ManifestFile.  A run stands for the bytes it writes: `objects` holds those
\* an object has now, `run` those it had when it was listed (not in the code's
\* record: nothing but the properties looks at it).
Files == [key : Keys, run : Runs]
MappingOf(f) == f.key[2]

VARIABLES
    pointer,    \* _current.json: the version it names, 0 when absent
    stored,     \* versions v for which _manifests/<v>.json exists
    manifests,  \* its file list ({} when it does not exist)
    objects,    \* Parquet objects: the run whose bytes they hold, or None
    pc,         \* where each run is
    base,       \* version of the manifest the run started from
    files,      \* TablePublish.files
    pending,    \* mappings the run has still to process
    current,    \* mapping being uploaded
    todo, put,  \* its partitions to upload and uploaded
    wrote,      \* mappings uploaded; TablePublish.touched is wrote # {}
    listed,     \* manifest versions the vacuum's LIST returned
    targets,    \* objects the vacuum has still to delete
    undeleted,  \* objects whose DELETE failed (for the properties only)
    clean       \* runs with clean_run set

store  == <<pointer, stored, manifests, objects>>
locals == <<base, files, pending, current, todo, put, wrote, listed, targets>>
flags  == <<undeleted, clean>>
vars == <<pointer, stored, manifests, objects, pc, base, files, pending, current, todo, 
          put, wrote, listed, targets, undeleted, clean>>

-----------------------------------------------------------------------------
Ended(r)  == pc[r] \in {"new", "ended"}
Goto(r, step) == pc' = [pc EXCEPT ![r] = step]

\* execute_job returns (or its worker dies) and its locals are gone.
End(r) == /\ Goto(r, "ended")
          /\ base' = [base EXCEPT ![r] = 0]
          /\ files' = [files EXCEPT ![r] = {}]
          /\ pending' = [pending EXCEPT ![r] = {}]
          /\ current' = [current EXCEPT ![r] = None]
          /\ todo' = [todo EXCEPT ![r] = {}]
          /\ put' = [put EXCEPT ![r] = {}]
          /\ wrote' = [wrote EXCEPT ![r] = {}]
          /\ listed' = [listed EXCEPT ![r] = {}]
          /\ targets' = [targets EXCEPT ![r] = {}]
          /\ undeleted' = [undeleted EXCEPT ![r] = {}]
          /\ clean' = clean \ {r}

\* Mutant of NextVersion: the run writes into the version it read.
SameVersion(r) == IF base[r] = 0 THEN 1 ELSE base[r]

\* Mutant of NextVersion: off by one.
BaseVersion(r) == base[r]

NextVersion(r) == base[r] + 1

\* Mutant of ApplyWrites: the mapping's earlier files are kept.
ApplyWritesAdd(old, m, new) == old \cup new

\* apply_mapping_writes: a mapping replaces its own files wholesale.
ApplyWrites(old, m, new) == {f \in old : MappingOf(f) # m} \cup new

\* Mutant of Doomed: one version too many is dropped.
DoomedEarly(versions, cur) ==
    {v \in versions : v <= cur /\ Cardinality({w \in versions : v < w /\ w <= cur}) + 1 >= Retain}

\* versions_to_drop: below the newest Retain versions up to the current one.
Doomed(versions, cur) ==
    {v \in versions : v <= cur /\ Cardinality({w \in versions : v < w /\ w <= cur}) >= Retain}

\* The versions whose manifests the vacuum reads.
Kept(versions, cur) == {v \in versions : v <= cur} \ Doomed(versions, cur)

Referenced(kept) == {f.key : f \in UNION {manifests[v] : v \in kept}}

-----------------------------------------------------------------------------
Init == /\ pointer = 0
        /\ stored = {}
        /\ manifests = [v \in Versions |-> {}]
        /\ objects = [k \in Keys |-> None]
        /\ pc = [r \in Runs |-> "new"]
        /\ base = [r \in Runs |-> 0]
        /\ files = [r \in Runs |-> {}]
        /\ pending = [r \in Runs |-> {}]
        /\ current = [r \in Runs |-> None]
        /\ todo = [r \in Runs |-> {}]
        /\ put = [r \in Runs |-> {}]
        /\ wrote = [r \in Runs |-> {}]
        /\ listed = [r \in Runs |-> {}]
        /\ targets = [r \in Runs |-> {}]
        /\ undeleted = [r \in Runs |-> {}]
        /\ clean = {}

\* A handler of JobQueue took the pipeline lock and calls execute_job.
Begin(r) ==
    /\ pc[r] = "new"
    /\ Overlap \/ \A q \in Runs : Ended(q)
    /\ clean' \in {clean, clean \cup {r}}
    /\ Goto(r, "pointer")
    /\ UNCHANGED <<store, locals, undeleted>>

\* read_current: GET the pointer.  An error is taken for an absent pointer.
ReadPointer(r) ==
    /\ pc[r] = "pointer"
    /\ \E v \in {pointer} \cup (IF PointerFaults THEN {0} ELSE {}) :
          /\ v < MaxVersion
          /\ base' = [base EXCEPT ![r] = v]
          /\ Goto(r, IF v = 0 THEN "map" ELSE "manifest")
    /\ pending' = [pending EXCEPT ![r] = Mappings]
    /\ UNCHANGED <<store, files, current, todo, put, wrote, listed, targets, flags>>

\* Mutant of StartFiles: every run starts from an empty list.
StartEmpty(r) == {}

StartFiles(r) == IF r \in clean THEN {} ELSE manifests[base[r]]

\* read_version: GET the manifest; a clean run starts from an empty list.  A
\* missing manifest is an error, which Stop covers.
ReadManifest(r) ==
    /\ pc[r] = "manifest" /\ base[r] \in stored
    /\ files' = [files EXCEPT ![r] = StartFiles(r)]
    /\ Goto(r, "map")
    /\ UNCHANGED <<store, base, pending, current, todo, put, wrote, listed, targets, flags>>

\* The mapping loop.  A mapping with no source files, or one that fails to
\* ingest, violates an assertion or panics, is skipped ...
SkipMapping(r, m) ==
    /\ pc[r] = "map" /\ m \in pending[r]
    /\ pending' = [pending EXCEPT ![r] = @ \ {m}]
    /\ UNCHANGED <<store, pc, base, files, current, todo, put, wrote, listed, targets, flags>>

\* ... any other one produces some partitions ...
StartMapping(r, m, parts) ==
    /\ pc[r] = "map" /\ m \in pending[r]
    /\ pending' = [pending EXCEPT ![r] = @ \ {m}]
    /\ current' = [current EXCEPT ![r] = m]
    /\ todo' = [todo EXCEPT ![r] = parts]
    /\ Goto(r, "upload")
    /\ UNCHANGED <<store, base, files, put, wrote, listed, targets, flags>>

\* ... which upload_partitions_async PUTs one by one ...
UploadPart(r, p) ==
    /\ pc[r] = "upload" /\ p \in todo[r]
    /\ objects' = [objects EXCEPT ![<<NextVersion(r), current[r], p>>] = r]
    /\ todo' = [todo EXCEPT ![r] = @ \ {p}]
    /\ put' = [put EXCEPT ![r] = @ \cup {p}]
    /\ UNCHANGED <<pointer, stored, manifests, pc, base, files, pending, current, wrote, listed,
                   targets, flags>>

\* Back to the head of the mapping loop.
LeaveMapping(r) == /\ current' = [current EXCEPT ![r] = None]
                   /\ todo' = [todo EXCEPT ![r] = {}]
                   /\ put' = [put EXCEPT ![r] = {}]
                   /\ Goto(r, "map")

\* ... and which become the mapping's files ...
MappingDone(r) ==
    /\ pc[r] = "upload" /\ todo[r] = {}
    /\ files' = [files EXCEPT ![r] = ApplyWrites(@, current[r],
            {[key |-> <<NextVersion(r), current[r], p>>, run |-> r] : p \in put[r]})]
    /\ wrote' = [wrote EXCEPT ![r] = @ \cup {current[r]}]
    /\ LeaveMapping(r)
    /\ UNCHANGED <<store, base, pending, listed, targets, flags>>

\* ... unless a PUT failed, whether or not the object was written.
UploadFails(r) ==
    /\ pc[r] = "upload" /\ todo[r] \cup put[r] # {}
    /\ LeaveMapping(r)
    /\ UNCHANGED <<store, base, files, pending, wrote, listed, targets, flags>>

\* The heartbeat has found the lock gone, run out or taken by another attempt,
\* and set `cancel`: the run looks at the flag here, before each mapping, and
\* returns Cancelled.  It may also be set too late, or never, for the run to see
\* it: then the other actions go on.
Cancelled(r) ==
    /\ pc[r] = "map" /\ pending[r] # {}
    /\ End(r)
    /\ UNCHANGED store

\* After the loop, a table that got no output is left alone.
Untouched(r) ==
    /\ pc[r] = "map" /\ pending[r] = {} /\ wrote[r] = {}
    /\ End(r)
    /\ UNCHANGED store

\* publish: PUT the manifest ...
PutManifest(r) ==
    /\ pc[r] = "map" /\ pending[r] = {} /\ wrote[r] # {}
    /\ stored' = stored \cup {NextVersion(r)}
    /\ manifests' = [manifests EXCEPT ![NextVersion(r)] = files[r]]
    /\ Goto(r, "flip")
    /\ UNCHANGED <<pointer, objects, locals, flags>>

\* ... then the pointer.
PutPointer(r) ==
    /\ pc[r] = "flip"
    /\ pointer' = NextVersion(r)
    /\ Goto(r, "list")
    /\ UNCHANGED <<stored, manifests, objects, locals, flags>>

\* vacuum: LIST the table prefix ...
VacuumList(r) ==
    /\ pc[r] = "list"
    /\ listed' = [listed EXCEPT ![r] = stored]
    /\ targets' = [targets EXCEPT ![r] = {k \in Keys : objects[k] # None}]
    /\ Goto(r, "read")
    /\ UNCHANGED <<store, base, files, pending, current, todo, put, wrote, flags>>

\* Mutant of Unreferenced: driven off version numbers.
UnreferencedOld(r) == {k \in targets[r] : k[1] \in Doomed(listed[r], NextVersion(r))}

\* unreferenced_keys over the listed objects.
Unreferenced(r) == targets[r] \ Referenced(Kept(listed[r], NextVersion(r)))

\* ... read the retained manifests (one that is gone ends the vacuum: Stop) ...
VacuumRead(r) ==
    /\ pc[r] = "read"
    /\ Kept(listed[r], NextVersion(r)) \subseteq stored
    /\ targets' = [targets EXCEPT ![r] = Unreferenced(r)]
    /\ Goto(r, "delete")
    /\ UNCHANGED <<store, base, files, pending, current, todo, put, wrote, listed, flags>>

\* ... DELETE the unreferenced objects (a failed DELETE is skipped) ...
VacuumObject(r, k) ==
    /\ pc[r] = "delete" /\ k \in targets[r]
    /\ targets' = [targets EXCEPT ![r] = @ \ {k}]
    /\ \/ objects' = [objects EXCEPT ![k] = None] /\ undeleted' = undeleted
       \/ /\ Cardinality(undeleted[r]) < DeleteFaults
          /\ undeleted' = [undeleted EXCEPT ![r] = @ \cup {k}] /\ objects' = objects
    /\ UNCHANGED <<pointer, stored, manifests, pc, base, files, pending, current, todo, put, wrote,
                   listed, clean>>

\* ... then the manifests below the window.
VacuumManifest(r, v) ==
    /\ pc[r] = "delete" /\ targets[r] = {} /\ v \in Doomed(listed[r], NextVersion(r))
    /\ listed' = [listed EXCEPT ![r] = @ \ {v}]
    /\ \/ stored' = stored \ {v} /\ manifests' = [manifests EXCEPT ![v] = {}]
       \/ DeleteFaults > 0 /\ UNCHANGED <<stored, manifests>>
    /\ UNCHANGED <<pointer, objects, pc, base, files, pending, current, todo, put, wrote,
                   targets, flags>>

VacuumDone(r) ==
    /\ pc[r] = "delete" /\ targets[r] = {} /\ Doomed(listed[r], NextVersion(r)) = {}
    /\ End(r)
    /\ UNCHANGED store

\* The run ends early: a crash of its worker, a config, source, dimension,
\* manifest or publish error, `cancel` read while downloading, or an aborted
\* vacuum.
Stop(r) ==
    /\ ~Ended(r)
    /\ End(r)
    /\ UNCHANGED store

Next == \E r \in Runs :
    \/ Begin(r) \/ ReadPointer(r) \/ ReadManifest(r)
    \/ \E m \in Mappings : SkipMapping(r, m)
    \/ \E m \in Mappings, parts \in SUBSET Parts : StartMapping(r, m, parts)
    \/ \E p \in Parts : UploadPart(r, p)
    \/ MappingDone(r) \/ UploadFails(r) \/ Cancelled(r) \/ Untouched(r)
    \/ PutManifest(r) \/ PutPointer(r)
    \/ VacuumList(r) \/ VacuumRead(r)
    \/ \E k \in Keys : VacuumObject(r, k)
    \/ \E v \in Versions : VacuumManifest(r, v)
    \/ VacuumDone(r) \/ Stop(r)

Spec == Init /\ [][Next]_vars

-----------------------------------------------------------------------------
(* Properties.                                                              *)

\* Every variable keeps its type.
TypeOK ==
    /\ pointer \in 0 .. MaxVersion
    /\ stored \subseteq Versions /\ manifests \in [Versions -> SUBSET Files]
    /\ objects \in [Keys -> Runs \cup {None}]
    /\ pc \in [Runs -> {"new", "pointer", "manifest", "map", "upload", "flip", "list",
                        "read", "delete", "ended"}]
    /\ base \in [Runs -> 0 .. MaxVersion]
    /\ files \in [Runs -> SUBSET Files]
    /\ pending \in [Runs -> SUBSET Mappings]
    /\ current \in [Runs -> Mappings \cup {None}]
    /\ todo \in [Runs -> SUBSET Parts] /\ put \in [Runs -> SUBSET Parts]
    /\ wrote \in [Runs -> SUBSET Mappings]
    /\ listed \in [Runs -> SUBSET Versions] /\ targets \in [Runs -> SUBSET Keys]
    /\ undeleted \in [Runs -> SUBSET Keys] /\ clean \subseteq Runs

\* Version v can be scanned: its manifest exists and every file it lists is
\* there with the bytes it had when it was listed.
Readable(v) == /\ v \in stored
               /\ \A f \in manifests[v] : objects[f.key] = f.run

\* The table a reader resolves is never half-written and never vacuumed away:
\* the published version and the Retain - 1 before it are readable in every
\* state, whichever run stopped where.
RetainedReadable ==
    \A v \in Versions : pointer - Retain < v /\ v <= pointer => Readable(v)

\* "never over the objects a reader might be scanning": no step changes the
\* manifest of a published version or an object it lists as long as it is
\* retained, and the pointer never moves back.
PublishedFrozen ==
    [][/\ pointer' >= pointer
       /\ \A v \in Versions : v <= pointer /\ pointer' - Retain < v =>
             /\ (v \in stored) = (v \in stored') /\ manifests'[v] = manifests[v]
             /\ \A f \in manifests[v] : objects'[f.key] = objects[f.key]]_vars

\* "a mapping replaces its own files wholesale", "a reader sees either the whole
\* previous version or the whole new one": the objects a retained version lists
\* for a mapping hold the bytes of one run, whatever the files say of it.
MappingsWhole ==
    \A v \in Versions : pointer - Retain < v /\ v <= pointer =>
        \A f, g \in manifests[v] :
            MappingOf(f) = MappingOf(g) => objects[f.key] = objects[g.key]

FilesOf(v, m) == {f \in manifests[v] : MappingOf(f) = m}

\* "a mapping that failed this run keeps the files it published last time"
\* (unless the run is a clean one).
FailedKeepFiles ==
    [][\A r \in Runs : PutPointer(r) /\ pointer > 0 /\ r \notin clean =>
          \A m \in Mappings \ wrote[r] : FilesOf(pointer', m) = FilesOf(pointer, m)]_vars

\* "a partially written run's orphans get collected too": a vacuum that ends
\* leaves no object that the versions in the window do not list, whatever
\* earlier runs left behind or failed to delete, but those whose DELETE it
\* has itself tried in vain.
OrphansCollected ==
    [][\A r \in Runs : VacuumDone(r) =>
          \A k \in Keys : objects[k] # None /\ k \notin undeleted[r] =>
              \E v \in Versions : /\ pointer - Retain < v /\ v <= pointer
                                  /\ \E f \in manifests[v] : f.key = k]_vars
=============================================================================
