------------------------------ MODULE Execute ------------------------------
(***************************************************************************)
(* The data path of execute_job (src/job.rs): validate the config, list and *)
(* download the source files, build the dimensions, run the mappings.       *)
(* Module Warehouse has what happens to the outputs of the mappings.        *)
(*                                                                         *)
(* A scenario is a config and the objects of the lake in the order S3 lists *)
(* them, [cfg, lake]; an object is named by its position.                   *)
(***************************************************************************)
EXTENDS Pipeline
LOCAL INSTANCE SequencesExt

CONSTANTS
    Scenarios,          \* names of scenarios
    ScenarioOf(_),      \* the scenario with a name
    MaxFaults           \* failed S3 requests in one job

ASSUME ExecuteAssumption == MaxFaults \in Nat

\* SourceFormat::extensions
Extensions(format) ==
    IF format = "csv" THEN {<<".csv">>} ELSE {<<".json">>, <<".jsonl">>, <<".ndjson">>}

\* A vector.
IsList(s) == Len(s) \in Nat /\ s = [i \in 1..Len(s) |-> s[i]]

\* The types of the config and the files that the worker deserializes: the
\* collections are vectors, an optional bound is a vector of at most one.
RowShape(row) ==
    /\ row = [patterns |-> row.patterns, values |-> row.values, priority |-> row.priority]
    /\ row.priority \in Int

DimShape(dim) ==
    /\ dim.match \in {"exact", "keyword"}
    /\ IsList(dim.values)
    /\ IsList(dim.rows) /\ \A i \in DOMAIN dim.rows : RowShape(dim.rows[i])

BoundsShape(col) ==
    /\ IsList(col.asserts)
    /\ \A a \in Range(col.asserts) :
          IsList(a.min) /\ Len(a.min) <= 1 /\ IsList(a.max) /\ Len(a.max) <= 1

\* A file that a source or a dimension lists is a file of its format.
ContentShape(sc, file) ==
    /\ StartsWith(file.key, sc.prefix)
    /\ \E e \in Extensions(sc.format) : EndsWith(file.key, e)
    => IsList(IF sc.format = "csv" THEN file.content.rows ELSE file.content.lines)

ReferenceShape(dim, file) ==
    dim.file /\ StartsWith(file.key, dim.prefix) /\ EndsWith(file.key, <<".csv">>)
    => IsList(file.content.lines)

ScenarioShape(s) ==
    /\ IsList(s.lake) /\ \A i \in DOMAIN s.lake : s.lake[i].key \in Seq(STRING)
    /\ IsList(s.cfg.sources) /\ IsList(s.cfg.dims) /\ IsList(s.cfg.mappings)
    /\ \A i \in DOMAIN s.cfg.sources :
          /\ s.cfg.sources[i].prefix \in Seq(STRING)
          /\ \A c \in DOMAIN s.cfg.sources[i].schema : IsList(s.cfg.sources[i].schema[c].steps)
          /\ \A f \in DOMAIN s.lake : ContentShape(s.cfg.sources[i], s.lake[f])
    /\ \A i \in DOMAIN s.cfg.mappings : IsList(s.cfg.mappings[i].columns)
    /\ \A i \in DOMAIN s.cfg.dims :
          /\ DimShape(s.cfg.dims[i])
          /\ \A f \in DOMAIN s.lake : ReferenceShape(s.cfg.dims[i], s.lake[f])
    /\ \A i \in DOMAIN s.cfg.tables :
          \A j \in DOMAIN s.cfg.tables[i].schema : BoundsShape(s.cfg.tables[i].schema[j])

ASSUME ScenarioAssumption == \A name \in Scenarios : ScenarioShape(ScenarioOf(name))

VARIABLES
    scenario,   \* the config and the lake
    pc,         \* what execute_job does next, or how it has ended
    next,       \* position in the list that pc goes through
    keys,       \* candidate_keys
    files,      \* all_files
    matchers,   \* the registry of dimensions
    results,    \* the results of the mappings done
    faults      \* failed S3 requests

vars == <<scenario, pc, next, keys, files, matchers, results, faults>>

cfg == scenario.cfg
lake == scenario.lake

Failures == {"ConfigInvalid", "NoFiles", "Dimension", "Cancelled"}

Init ==
    /\ \E name \in Scenarios : scenario = ScenarioOf(name)
    /\ pc = "validate"
    /\ next = 1
    /\ keys = <<>> /\ files = <<>> /\ matchers = <<>> /\ results = <<>>
    /\ faults = 0

Goto(label) == pc' = label /\ next' = 1

Fault == faults < MaxFaults /\ faults' = faults + 1

\* A request that fails where the job goes on without its answer.
Skip == Fault /\ next' = next + 1 /\ UNCHANGED pc

CheckConfig ==
    /\ pc = "validate"
    /\ Goto(IF Validate(cfg) THEN "list" ELSE "ConfigInvalid")
    /\ UNCHANGED <<scenario, keys, files, matchers, results, faults>>

-----------------------------------------------------------------------------
\* Listing and downloading

\* s3::list_keys
ListKeys(prefix) ==
    Kept([i \in DOMAIN lake |-> i], {i \in DOMAIN lake : StartsWith(lake[i].key, prefix)})

HasExtension(i, exts) == \E e \in exts : EndsWith(lake[i].key, e)

ListSource ==
    /\ pc = "list"
    /\ next \in DOMAIN cfg.sources
    /\ LET sc     == cfg.sources[next]
           listed == ListKeys(sc.prefix)
       IN  keys' = keys \o Kept(listed, {i \in DOMAIN listed :
                       /\ HasExtension(listed[i], Extensions(sc.format))
                       /\ listed[i] \notin Range(keys)})
    /\ next' = next + 1
    /\ UNCHANGED <<scenario, pc, files, matchers, results, faults>>

ListSourceFails ==
    /\ pc = "list"
    /\ next \in DOMAIN cfg.sources
    /\ Skip
    /\ UNCHANGED <<scenario, keys, files, matchers, results>>

Listed ==
    /\ pc = "list"
    /\ next \notin DOMAIN cfg.sources
    /\ Goto("download")
    /\ UNCHANGED <<scenario, keys, files, matchers, results, faults>>

\* Downloads a file again that has been downloaded.
DownloadAgain ==
    /\ pc = "download"
    /\ next \in DOMAIN keys
    /\ files' = files \o SubSeq(keys, 1, next)
    /\ next' = next + 1
    /\ UNCHANGED <<scenario, pc, keys, matchers, results, faults>>

Download ==
    /\ pc = "download"
    /\ next \in DOMAIN keys
    /\ files' = Append(files, keys[next])
    /\ next' = next + 1
    /\ UNCHANGED <<scenario, pc, keys, matchers, results, faults>>

DownloadFails ==
    /\ pc = "download"
    /\ next \in DOMAIN keys
    /\ Skip
    /\ UNCHANGED <<scenario, keys, files, matchers, results>>

\* The cancel flag, read before every download and every mapping.
Cancel ==
    /\ \/ pc = "download" /\ next \in DOMAIN keys
       \/ pc = "map" /\ next \in DOMAIN cfg.mappings
    /\ Goto("Cancelled")
    /\ UNCHANGED <<scenario, keys, files, matchers, results, faults>>

\* No file is an error; otherwise the inline dimensions are compiled.
Downloaded ==
    /\ pc = "download"
    /\ next \notin DOMAIN keys
    /\ LET inline == BuildInlineRegistry(cfg.dims)
       IN  /\ Goto(IF files = <<>> THEN "NoFiles"
                   ELSE IF inline.error # "" THEN "Dimension" ELSE "dims")
           /\ matchers' = IF files = <<>> \/ inline.error # "" THEN matchers ELSE inline.value
    /\ UNCHANGED <<scenario, keys, files, results, faults>>

-----------------------------------------------------------------------------
\* Dimensions read from the lake

\* The rows of all files, or the first error.
JoinRows(read) ==
    LET bad == {i \in DOMAIN read : read[i].error # ""}
    IN  IF bad # {} THEN read[CHOOSE i \in bad : \A j \in bad : i <= j]
        ELSE Ok(FlattenSeq([i \in DOMAIN read |-> read[i].value]))

\* The rows of the CSV files under the dimension's prefix, or the first error.
FileRows(dim) ==
    LET listed == ListKeys(dim.prefix)
        csv    == Kept(listed, {i \in DOMAIN listed : HasExtension(listed[i], {<<".csv">>})})
    IN  JoinRows([i \in DOMAIN csv |-> RowsFromCsv(dim, lake[csv[i]].content.lines)])

LoadDimension ==
    /\ pc = "dims"
    /\ next \in DOMAIN cfg.dims
    /\ LET dim  == cfg.dims[next]
           rows == FileRows(dim)
           new  == IF rows.error # "" THEN rows ELSE NewMatcher(dim, rows.value)
       IN  IF ~dim.file
           THEN next' = next + 1 /\ UNCHANGED <<pc, matchers>>
           ELSE IF new.error # ""
           THEN Goto("Dimension") /\ UNCHANGED matchers
           ELSE /\ matchers' = [id \in DOMAIN matchers \cup {dim.id} |->
                                   IF id = dim.id THEN new.value ELSE matchers[id]]
                /\ next' = next + 1
                /\ UNCHANGED pc
    /\ UNCHANGED <<scenario, keys, files, results, faults>>

\* A failed request for a dimension fails the job.
LoadDimensionFails ==
    /\ pc = "dims"
    /\ next \in DOMAIN cfg.dims
    /\ cfg.dims[next].file
    /\ Fault
    /\ Goto("Dimension")
    /\ UNCHANGED <<scenario, keys, files, matchers, results>>

DimensionsLoaded ==
    /\ pc = "dims"
    /\ next \notin DOMAIN cfg.dims
    /\ Goto("map")
    /\ UNCHANGED <<scenario, keys, files, matchers, results, faults>>

-----------------------------------------------------------------------------
\* Mappings

SourceIndex(m) == CHOOSE i \in DOMAIN cfg.sources : cfg.sources[i].id = m.source

\* The files under the prefix of the mapping's source.
MappingFiles(m) ==
    IF m.source \notin Ids(cfg.sources) THEN <<>>
    ELSE LET sc == cfg.sources[SourceIndex(m)]
         IN  Kept(files, {n \in DOMAIN files : StartsWith(lake[files[n]].key, sc.prefix)})

\* A mapping without a source or without files is passed over.
MapNext ==
    /\ pc = "map"
    /\ next \in DOMAIN cfg.mappings
    /\ LET m    == cfg.mappings[next]
           mine == MappingFiles(m)
       IN  results' = Append(results,
                IF mine = <<>> THEN Error("skipped")
                ELSE RunMapping(cfg, m, [i \in DOMAIN mine |-> lake[mine[i]]], matchers))
    /\ next' = next + 1
    /\ UNCHANGED <<scenario, pc, keys, files, matchers, faults>>

Finish ==
    /\ pc = "map"
    /\ next \notin DOMAIN cfg.mappings
    /\ Goto("completed")
    /\ UNCHANGED <<scenario, keys, files, matchers, results, faults>>

Next ==
    \/ CheckConfig \/ ListSource \/ ListSourceFails \/ Listed
    \/ Download \/ DownloadFails \/ Downloaded \/ Cancel
    \/ LoadDimension \/ LoadDimensionFails \/ DimensionsLoaded
    \/ MapNext \/ Finish

Spec == Init /\ [][Next]_vars

-----------------------------------------------------------------------------
\* Properties

TypeOK ==
    /\ pc \in {"validate", "list", "download", "dims", "map", "completed"} \cup Failures
    /\ next \in Nat
    /\ Range(keys) \subseteq DOMAIN lake /\ IsInjective(keys)
    /\ Range(files) \subseteq Range(keys) /\ IsInjective(files)
    /\ DOMAIN matchers \subseteq Ids(cfg.dims)
    /\ Len(results) <= Len(cfg.mappings)
    /\ faults \in 0..MaxFaults

Mapping == pc \in {"map", "completed"}

\* Every mapping reads its files with the schema of its own source, however
\* the prefixes of the sources lie: the file list of execute_job goes by the
\* mapping's source, ingest_file by the first prefix that fits.
OwnSource ==
    Mapping =>
        \A k \in DOMAIN cfg.mappings :
            LET m == cfg.mappings[k]
            IN  \A i \in Range(MappingFiles(m)) :
                    ResolveSource(PrefixesOf(cfg), lake[i].key) = SourceIndex(m)

\* Validation is worth its name: with an accepted config no file is skipped
\* because a column expression does not compile or because it or the `where`
\* refers to a column that is not there.  (A value column in a `where` and
\* all of record_filter are not validated.)
AcceptedConfigRuns ==
    Mapping =>
        \A k \in DOMAIN cfg.mappings :
            LET m == cfg.mappings[k]
            IN  \A i \in Range(MappingFiles(m)) :
                    LET r == IngestFile(cfg, m, lake[i], matchers)
                    IN  r.error # "" =>
                            <<r.stage, r.error>> \notin
                                {<<"select", "compile">>, <<"select", "column">>,
                                 <<"where", "column">>, <<"read", "source">>}

\* The rows of the files that can be read, in listing order.
RowsRead(m) ==
    LET mine == MappingFiles(m)
        read == [i \in DOMAIN mine |-> IngestFile(cfg, m, lake[mine[i]], matchers)]
    IN  FlattenSeq([i \in DOMAIN read |-> IF read[i].error = "" THEN read[i].value ELSE <<>>])

\* The rows without those that repeat the identity of an earlier one.
FirstOfEach(rows, identity) ==
    Kept(rows, {i \in DOMAIN rows :
        \/ identity = <<>>
        \/ \A j \in 1..(i - 1) : \E k \in Range(identity) : rows[j][k] # rows[i][k]})

RowsWanted(m) == FirstOfEach(RowsRead(m), ById(cfg.tables, m.table).dedup)

\* What a hive reader makes of the segments of a key: strings, percent-decoded.
HiveText(key, i) == UrlDecode(SubSeq(Split(key, "/")[i + 1], 3, Len(Split(key, "/")[i + 1])))

\* A row of an output has the identity of row w of the frame.
Restores(t, part, row, w) ==
    /\ \A n \in DOMAIN row : row[n] = w[n]
    /\ \A i \in DOMAIN t.partition : HiveText(part.key, i) = ScalarText(w[t.partition[i]])
    /\ DOMAIN w = DOMAIN row \cup Range(t.partition)

\* The rows of a partition are those of wanted with its partition values.
PartExact(t, part, wanted) ==
    LET mine == Kept(wanted, {w \in DOMAIN wanted :
                    \A i \in DOMAIN t.partition :
                        HiveText(part.key, i) = ScalarText(wanted[w][t.partition[i]])})
    IN  /\ Len(mine) = Len(part.rows)
        /\ \A i \in DOMAIN part.rows : Restores(t, part, part.rows[i], mine[i])

OutputExact(t, parts, wanted) ==
    /\ \A p, q \in DOMAIN parts : parts[p].key = parts[q].key => p = q
    /\ \A p \in DOMAIN parts : PartExact(t, parts[p], wanted)
    /\ \A i \in DOMAIN wanted : \E p \in DOMAIN parts :
          \E r \in DOMAIN parts[p].rows : Restores(t, parts[p], parts[p].rows[r], wanted[i])

Written(k) == k \in DOMAIN results /\ results[k].error = ""

\* A reader who takes the partition values of a row from the key of an output
\* takes the row's own, and from another output's key others.
KeysReadBack ==
    \A k \in DOMAIN results :
        Written(k) =>
            LET m == cfg.mappings[k]
                t == ById(cfg.tables, m.table)
            IN  \A u, v \in {TupleOfRow(t.partition, row) : row \in Range(RowsWanted(m))} :
                    u = v <=> \A i \in DOMAIN t.partition :
                        HiveText(PartitionKey(t, m, u), i) = ScalarText(v[i])

\* What a mapping writes is exactly what it has read: its outputs have
\* different keys (one would overwrite the other), and every row that is not
\* a duplicate is in one output, once and in order, with the partition values
\* a reader takes from the key.
RowsExact ==
    \A k \in DOMAIN results :
        Written(k) =>
            LET m == cfg.mappings[k]
            IN  OutputExact(ById(cfg.tables, m.table), results[k].value, RowsWanted(m))

\* A row that meets the assertions of its table.
Sound(t, row) ==
    \A i \in DOMAIN t.schema :
        LET c == t.schema[i]
        IN  c.asserts # <<>> =>
                /\ c.name \in DOMAIN row
                /\ row[c.name] = Null => ~c.asserts[1].not_null
                /\ \A x \in AsFloat(row[c.name]) :
                      /\ \A lo \in Range(c.asserts[1].min) : x >= lo
                      /\ \A hi \in Range(c.asserts[1].max) : x <= hi

\* A mapping that writes has read no row that breaks an assertion of its table,
\* not even one that it would have dropped as a duplicate.  (Rows for which
\* `where` is not true are gone before, and are not asserted.)
RowsSound ==
    \A k \in DOMAIN results :
        Written(k) =>
            LET m == cfg.mappings[k]
            IN  \A row \in Range(RowsRead(m)) : Sound(ById(cfg.tables, m.table), row)

\* The files of a dimension give the rows they were written from, whatever
\* the quoting, short lines and lines without a key.
FilesReadBack ==
    \A i \in DOMAIN cfg.dims :
        cfg.dims[i].file =>
            LET read == FileRows(cfg.dims[i])
            IN  read.error = "" => read.value = cfg.dims[i].rows

\* Inputs that lookups are tried with.
Words == {<<>>, <<"a">>, <<"A">>, <<"b">>, <<"a", "b">>, <<"\"">>, <<",", "a">>}

\* A matcher answers as its rows say, in the config or, for a dimension read
\* from the lake, the rows its files were written from: the row of highest
\* priority, the first of these, whatever the folding, quoting and indexing.
LookupMeetsSpec ==
    Mapping =>
        \A id \in DOMAIN matchers :
            LET dim == ById(cfg.dims, id)
            IN  \A w \in Words, v \in 1..2 :
                    Lookup(matchers[id], w, v) = LookupSpec(dim, dim.rows, w, v)

\* The path of a column that compiles names the steps it was written from.
PathsRead ==
    \A i \in DOMAIN cfg.sources :
        \A c \in DOMAIN cfg.sources[i].schema :
            LET col  == cfg.sources[i].schema[c]
                path == CompilePath(PathOf(col))
            IN  path.error = "" => path.value = col.steps

\* A JSON source gives one row per record that parses, and in each column the
\* value at the column's path: a value that is missing there, in a record of
\* another shape, is null and never the value of something else.
PathCells ==
    Mapping =>
        \A i \in Range(files) :
            LET s  == ResolveSource(PrefixesOf(cfg), lake[i].key)
                sc == cfg.sources[s]
                lines == lake[i].content.lines
                records == Kept(lines, {l \in DOMAIN lines :
                                           lines[l] # BadLine /\ lines[l] # BlankLine})
                rows == ReadJsonSource(lake[i].content, sc.schema)
            IN  s # 0 /\ sc.format = "ndjson" /\ rows.error = "" =>
                    /\ Len(rows.value) = Len(records)
                    /\ \A r \in DOMAIN records, c \in DOMAIN sc.schema :
                          rows.value[r][sc.schema[c].name] =
                              Push(sc.schema[c].type, ValueAt(records[r], sc.schema[c].steps))

=============================================================================
