------------------------------ MODULE Pipeline ------------------------------
(***************************************************************************)
(* One mapping of a job (src/pipeline.rs, src/assertions.rs): its files are *)
(* read and mapped, the rows asserted, deduplicated and partitioned.        *)
(*                                                                         *)
(* A frame is a sequence of rows, a row a function from column names to     *)
(* cells.  A CSV file is given as Polars has parsed it: a header and rows   *)
(* of typed cells.                                                         *)
(***************************************************************************)
EXTENDS Evaluator, JsonSource
LOCAL INSTANCE SequencesExt

\* An error, and the stage of a file's ingest it comes from.
Failed(stage, cause) == [error |-> cause, stage |-> stage]

\* The operator ?: an error is the result, a value goes on.
Then(result, Continue(_)) ==
    IF result.error # "" THEN result ELSE Continue(result.value)

NameSeq(items) == [i \in DOMAIN items |-> items[i].name]

\* read_source, validate_csv_headers and project_schema_columns.
ReadCsvSource(content, schema) ==
    IF ~content.readable THEN Error("read")
    ELSE IF ~(Names(schema) \subseteq Range(content.header)) THEN Error("headers")
    ELSE IF ~IsInjective(NameSeq(schema)) THEN Error("frame")
    ELSE Ok([r \in DOMAIN content.rows |->
                [n \in Names(schema) |-> content.rows[r][IndexOf(content.header, n)]]])

\* An expression over the rows of a frame with some columns: a value per row.
Column(expr, rows, cols, matchers, stage) ==
    IF ~Compiles(expr, matchers) THEN Failed(stage, "compile")
    ELSE IF ~(ColRefs(expr) \subseteq cols) THEN Failed(stage, "column")
    ELSE LET vs == [r \in DOMAIN rows |-> Eval(expr, rows[r], matchers)]
         IN  IF Fail \in Range(vs) THEN Failed(stage, "eval") ELSE Ok(vs)

\* Keeps the rows a predicate is not false for.
FilterNotFalse(pred, rows, cols, matchers, stage) ==
    Then(Column(pred, rows, cols, matchers, stage),
         LAMBDA vs : Ok(Kept(rows, {r \in DOMAIN rows : vs[r] # BoolCell(FALSE)})))

\* LazyFrame::filter: rows that are not true go.
Filter(pred, rows, cols, matchers, stage) ==
    Then(Column(pred, rows, cols, matchers, stage),
         LAMBDA vs : Ok(Kept(rows, {r \in DOMAIN rows : vs[r] = BoolCell(TRUE)})))

\* The rows of a file under a source; record_filter is for JSON only.
ReadFile(sc, content, matchers) ==
    IF sc.format = "csv" THEN ReadCsvSource(content, sc.schema)
    ELSE Then(ReadJsonSource(content, sc.schema), LAMBDA rows :
             IF sc.filter = <<>> THEN Ok(rows)
             ELSE Filter(sc.filter[1], rows, Names(sc.schema), matchers, "filter"))

\* select of the mapping's column expressions.
MapColumns(m, rows, cols, matchers) ==
    LET vs == [j \in DOMAIN m.columns |->
                  Column(m.columns[j].expr, rows, cols, matchers, "select")]
        bad == {j \in DOMAIN vs : vs[j].error # ""}
        at(n) == IndexOf(NameSeq(m.columns), n)
    IN  IF bad # {} THEN vs[CHOOSE j \in bad : \A k \in bad : j <= k]
        ELSE IF ~IsInjective(NameSeq(m.columns)) THEN Failed("select", "frame")
        ELSE Ok([r \in DOMAIN rows |-> [n \in Names(m.columns) |-> vs[at(n)].value[r]]])

\* Any error of reading, record_filter's included, as one of this stage.
ReadStage(read) == IF read.error = "" THEN read ELSE Failed("read", read.error)

\* ingest_file: the rows, or one of its errors.
IngestFile(cfg, m, file, matchers) ==
    LET s  == ResolveSource(PrefixesOf(cfg), file.key)
        sc == cfg.sources[s]
    IN  IF s = 0 THEN Failed("read", "source")
        ELSE Then(ReadStage(ReadFile(sc, file.content, matchers)), LAMBDA read :
             Then(MapColumns(m, read, Names(sc.schema), matchers), LAMBDA mapped :
                 IF m.where = <<>> THEN Ok(mapped)
                 ELSE Filter(m.where[1], mapped, Names(m.columns), matchers, "where")))

\* The types of the non-null cells of a column.
TypesOf(rows, n) == {rows[r][n][1] : r \in {q \in DOMAIN rows : rows[q][n] # Null}}

\* The concatenation of frames, which Polars refuses for columns of different
\* types.
Unite(m, frames) ==
    LET rows == FlattenSeq(frames)
    IN  IF frames = <<>> THEN Error("NoFilesSucceeded")
        ELSE IF \E n \in Names(m.columns) : \E a, b \in TypesOf(rows, n) : a # b
        THEN Error("collect")
        ELSE Ok(rows)

\* A file that fails is skipped.
Frames(read) ==
    LET fine == Kept(read, {i \in DOMAIN read : read[i].error = ""})
    IN  [i \in DOMAIN fine |-> fine[i].value]

\* ingest_many
IngestMany(cfg, m, files, matchers) ==
    Unite(m, Frames([i \in DOMAIN files |-> IngestFile(cfg, m, files[i], matchers)]))

-----------------------------------------------------------------------------
\* Assertions (src/assertions.rs)

\* cast to Float64: a string that is no number becomes null.
AsFloat(cell) ==
    CASE cell[1] \in {"int", "float"} -> {cell[2]}
      [] cell[1] = "bool" -> {IF cell[2] THEN 1 ELSE 0}
      [] cell[1] = "str" -> Number(cell)
      [] OTHER -> {}

InRange(a, x) ==
    /\ a.min # <<>> => x >= a.min[1]
    /\ a.max # <<>> => x <= a.max[1]

\* check_column
CheckColumn(a, rows, n) ==
    /\ a.not_null => \A r \in DOMAIN rows : rows[r][n] # Null
    /\ \A r \in DOMAIN rows : \A x \in AsFloat(rows[r][n]) : InRange(a, x)

\* validate_assertions: no violation.
AssertionsHold(table, rows, cols) ==
    \A i \in DOMAIN table.schema :
        LET col == table.schema[i]
        IN  col.asserts # <<>> => col.name \in cols /\ CheckColumn(col.asserts[1], rows, col.name)

-----------------------------------------------------------------------------
\* Deduplication and partitions

TupleOfRow(keys, row) == [i \in DOMAIN keys |-> row[keys[i]]]

\* The last row of every key tuple stays.
DedupRowsLast(rows, keys) ==
    Kept(rows, {r \in DOMAIN rows :
        keys = <<>> \/ ~\E q \in (r + 1)..Len(rows) :
            TupleOfRow(keys, rows[q]) = TupleOfRow(keys, rows[r])})

\* The rows kept so far and a row, unless it repeats the key tuple of one.
KeepFirst(kept, row, keys) ==
    IF keys # <<>> /\ \E i \in DOMAIN kept :
            TupleOfRow(keys, kept[i]) = TupleOfRow(keys, row)
    THEN kept ELSE Append(kept, row)

\* unique_stable, keeping the first: null is a value like any other.
DedupRows(rows, keys) ==
    LET kept[n \in 0..Len(rows)] ==
            IF n = 0 THEN <<>> ELSE KeepFirst(kept[n - 1], rows[n], keys)
    IN  kept[Len(rows)]

\* segment_value; a float has none.
SegmentValue(cell) ==
    IF cell[1] = "str" THEN EncodeSegment(cell[2]) ELSE ScalarText(cell)

AddNew(seen, v) == IF v \in Range(seen) THEN seen ELSE Append(seen, v)

\* The distinct key tuples in the order of their first rows (partition_by_stable).
KeyTuples(rows, keys) ==
    LET seen[n \in 0..Len(rows)] ==
            IF n = 0 THEN <<>> ELSE AddNew(seen[n - 1], TupleOfRow(keys, rows[n]))
    IN  seen[Len(rows)]

Drop(row, keys) == [n \in DOMAIN row \ Range(keys) |-> row[n]]

\* <table>/<k>=<v>/.../<mapping>.parquet
PartitionKey(t, m, tuple) ==
    <<t.id, "/">>
        \o FlattenSeq([i \in DOMAIN tuple |->
               <<t.partition[i], "=">> \o SegmentValue(tuple[i]) \o <<"/">>])
        \o <<m.id, ".parquet">>

\* produce_partitions; without keys there is one output.
ProducePartitions(t, m, rows, cols) ==
    LET keys   == t.partition
        tuples == KeyTuples(rows, keys)
        part(v) == [key |-> PartitionKey(t, m, v),
                    rows |-> LET mine == {r \in DOMAIN rows : TupleOfRow(keys, rows[r]) = v}
                             IN  Kept([r \in DOMAIN rows |-> Drop(rows[r], keys)], mine)]
    IN  IF keys = <<>> THEN Ok(<<[key |-> PartitionKey(t, m, <<>>), rows |-> rows]>>)
        ELSE IF ~(Range(keys) \subseteq cols) THEN Error("partition")
        ELSE IF \E r \in DOMAIN rows, k \in Range(keys) :
                    rows[r][k] = Null \/ rows[r][k][1] = "float"
        THEN Error("partition")
        ELSE Ok([i \in DOMAIN tuples |-> part(tuples[i])])

-----------------------------------------------------------------------------
\* Mutant of RunMapping: the assertions see only the rows that dedup leaves.
RunMappingDedupFirst(cfg, m, files, matchers) ==
    LET t    == ById(cfg.tables, m.table)
        cols == Names(m.columns)
        rest(rows) == DedupRows(rows, t.dedup)
    IN  Then(IngestMany(cfg, m, files, matchers), LAMBDA rows :
            IF m.table \notin Ids(cfg.tables) THEN Error("table")
            ELSE IF ~(Range(t.dedup) \subseteq cols) THEN Error("dedup")
            ELSE IF ~AssertionsHold(t, rest(rows), cols) THEN Error("assertion")
            ELSE ProducePartitions(t, m, rest(rows), cols))

\* The closure execute_job runs on the blocking pool.
RunMapping(cfg, m, files, matchers) ==
    LET t    == ById(cfg.tables, m.table)
        cols == Names(m.columns)
    IN  Then(IngestMany(cfg, m, files, matchers), LAMBDA rows :
            IF m.table \notin Ids(cfg.tables) THEN Error("table")
            ELSE IF ~AssertionsHold(t, rows, cols) THEN Error("assertion")
            ELSE IF ~(Range(t.dedup) \subseteq cols) THEN Error("dedup")
            ELSE ProducePartitions(t, m, DedupRows(rows, t.dedup), cols))

=============================================================================
