----------------------------- MODULE Dimension -----------------------------
(***************************************************************************)
(* Dimension lookup (src/dimension.rs): rows written in the config or read  *)
(* from CSV files, compiled to a matcher that maps an input to a value.     *)
(*                                                                         *)
(* A cell is <<type, value>>, or Null.                                     *)
(***************************************************************************)
EXTENDS Text, Integers, Functions
LOCAL INSTANCE SequencesExt

CONSTANT MaxDimensionRows       \* MAX_DIMENSION_ROWS

ASSUME DimensionAssumption == MaxDimensionRows \in Nat

Null == <<"null">>
StrCell(s) == <<"str", s>>
IntCell(n) == <<"int", n>>

\* str::parse::<i64> of the instances' one-digit numbers, Null if it fails.
ParseInt(s) ==
    CASE s = <<"0">> -> IntCell(0) [] s = <<"1">> -> IntCell(1) [] s = <<"2">> -> IntCell(2)
      [] s = <<"3">> -> IntCell(3) [] OTHER -> Null

\* str::to_lowercase
Lower(s) == [i \in DOMAIN s |-> IF s[i] = "A" THEN "a" ELSE s[i]]

Fold(dim, s) == IF dim.ci THEN Lower(s) ELSE s

\* A result with an error, or a value.
Error(e) == [error |-> e]
Ok(v) == [error |-> "", value |-> v]

-----------------------------------------------------------------------------
\* DimensionMatcher::new

\* The positions of patterns: <<row, index in its pattern list>>.
PatternsOf(rows) ==
    UNION {{<<i, j>> : j \in DOMAIN rows[i].patterns} : i \in DOMAIN rows}

PatternAt(rows, ij) == rows[ij[1]].patterns[ij[2]]

\* The row an exact key belongs to.
ExactIndex(rows) ==
    [p \in {PatternAt(rows, ij) : ij \in PatternsOf(rows)} |->
        (CHOOSE ij \in PatternsOf(rows) : PatternAt(rows, ij) = p)[1]]

HasDuplicateKey(rows) ==
    \E a, b \in PatternsOf(rows) : a # b /\ PatternAt(rows, a) = PatternAt(rows, b)

\* rows: sequence of [patterns, values, priority].
NewMatcher(dim, rows) ==
    LET folded == [i \in DOMAIN rows |->
                      [rows[i] EXCEPT !.patterns =
                          [j \in DOMAIN @ |-> Fold(dim, @[j])]]]
    IN  IF Len(rows) > MaxDimensionRows THEN Error("TooManyRows")
        ELSE IF dim.match = "exact" /\ HasDuplicateKey(folded)
        THEN Error("DuplicateKey")
        ELSE Ok([dim |-> dim, rows |-> folded,
                 index |-> IF dim.match = "exact" THEN ExactIndex(folded) ELSE <<>>])

\* value_index: 0 for a column the dimension does not have.
ValueIndex(dim, name) ==
    IF name = "" THEN 1
    ELSE IF name \notin Range(dim.values) THEN 0
    ELSE CHOOSE i \in DOMAIN dim.values :
            /\ dim.values[i] = name
            /\ \A j \in DOMAIN dim.values : dim.values[j] = name => i <= j

\* A pattern of the row occurs in s.
Hit(row, s) == \E j \in DOMAIN row.patterns : Occurs(row.patterns[j], s)

\* A row of equal priority takes over.
BestRowLast(rows, s) ==
    LET best[i \in 0..Len(rows)] ==
            IF i = 0 THEN 0
            ELSE IF /\ Hit(rows[i], s)
                    /\ best[i - 1] = 0 \/ rows[best[i - 1]].priority <= rows[i].priority
            THEN i ELSE best[i - 1]
    IN  best[Len(rows)]

\* The loop of lookup for keyword_substring, 0 for no row.
BestRow(rows, s) ==
    LET best[i \in 0..Len(rows)] ==
            IF i = 0 THEN 0
            ELSE IF /\ Hit(rows[i], s)
                    /\ best[i - 1] = 0 \/ rows[best[i - 1]].priority < rows[i].priority
            THEN i ELSE best[i - 1]
    IN  best[Len(rows)]

OnMiss(dim, input) ==
    CASE dim.miss = "null" -> Null
      [] dim.miss = "passthrough" -> StrCell(input)
      [] dim.miss = "literal" -> StrCell(dim.literal)

\* lookup
Lookup(matcher, input, v) ==
    LET s   == Fold(matcher.dim, input)
        hit == IF matcher.dim.match = "keyword" THEN BestRow(matcher.rows, s)
               ELSE IF s \in DOMAIN matcher.index THEN matcher.index[s] ELSE 0
    IN  IF hit = 0 THEN OnMiss(matcher.dim, input)
        ELSE IF v \in DOMAIN matcher.rows[hit].values THEN matcher.rows[hit].values[v]
        ELSE Null

-----------------------------------------------------------------------------
\* Reference files

\* A quote ends or starts a quoted part, two in a row do both.
SplitCsvLineUnescaped(line) ==
    LET step(acc, i) ==
            CASE line[i] = "\"" -> [acc EXCEPT !.quoted = ~@]
              [] line[i] = "," /\ ~acc.quoted ->
                    [acc EXCEPT !.out = Append(@, acc.field), !.field = <<>>]
              [] OTHER -> [acc EXCEPT !.field = Append(@, line[i])]
        end == FoldLeft(step, [out |-> <<>>, field |-> <<>>, quoted |-> FALSE],
                        [i \in DOMAIN line |-> i])
    IN  Append(end.out, end.field)

\* split_csv_line
SplitCsvLine(line) ==
    LET pair(acc, i) == acc.quoted /\ i < Len(line) /\ line[i + 1] = "\""
        step(acc, i) ==
            IF acc.skip THEN [acc EXCEPT !.skip = FALSE]
            ELSE CASE line[i] = "\"" /\ pair(acc, i) ->
                        [acc EXCEPT !.field = Append(@, "\""), !.skip = TRUE]
                   [] line[i] = "\"" /\ ~pair(acc, i) -> [acc EXCEPT !.quoted = ~@]
                   [] line[i] = "," /\ ~acc.quoted ->
                        [acc EXCEPT !.out = Append(@, acc.field), !.field = <<>>]
                   [] OTHER -> [acc EXCEPT !.field = Append(@, line[i])]
        end == FoldLeft(step, [out |-> <<>>, field |-> <<>>, quoted |-> FALSE, skip |-> FALSE],
                        [i \in DOMAIN line |-> i])
    IN  Append(end.out, end.field)

\* Position of a column in the header, 0 if it has none.
IndexOf(header, name) ==
    IF name \notin Range(header) THEN 0
    ELSE CHOOSE i \in DOMAIN header :
            header[i] = name /\ \A j \in DOMAIN header : header[j] = name => i <= j

FieldOr(fields, i, default) == IF i \in DOMAIN fields THEN fields[i] ELSE default

\* One line of a file: nothing for an empty key; a value that the line is too
\* short for is null; a priority that is no number is 0.
RowOf(dim, header, fields) ==
    LET key      == FieldOr(fields, IndexOf(header, dim.key), <<>>)
        value(c) == LET i == IndexOf(header, c)
                    IN  IF i \in DOMAIN fields THEN StrCell(fields[i]) ELSE Null
        priority == ParseInt(FieldOr(fields, IndexOf(header, dim.priority), <<>>))
    IN  IF key = <<>> THEN <<>>
        ELSE <<[patterns |-> <<key>>,
                values |-> [i \in DOMAIN dim.columns |-> value(dim.columns[i])],
                priority |-> IF priority = Null THEN 0 ELSE priority[2]]>>

\* rows_from_csv.  dim.key, dim.columns and dim.priority (<<>> for none) are
\* header fields.
RowsFromCsv(dim, text) ==
    LET lines   == Kept(text, {n \in DOMAIN text :
                                  \E i \in DOMAIN text[n] : text[n][i] # " "})
        header  == SplitCsvLine(Head(lines))
        wanted  == {dim.key} \cup Range(dim.columns)
                       \cup (IF dim.priority = <<>> THEN {} ELSE {dim.priority})
        rows    == FlattenSeq([i \in DOMAIN Tail(lines) |->
                       RowOf(dim, header, SplitCsvLine(Tail(lines)[i]))])
    IN  IF lines = <<>> THEN Error("FileRead")
        ELSE IF ~(wanted \subseteq Range(header)) THEN Error("MissingColumn")
        ELSE IF Len(rows) > MaxDimensionRows THEN Error("TooManyRows")
        ELSE Ok(rows)

-----------------------------------------------------------------------------
\* Inline rows

\* build_inline_registry: a function from ids to matchers, or the first error.
BuildInlineRegistry(dims) ==
    LET inline == {i \in DOMAIN dims : ~dims[i].file}
        built  == [i \in inline |-> NewMatcher(dims[i], dims[i].rows)]
        bad    == {i \in inline : built[i].error # ""}
        last(id) == CHOOSE i \in inline : dims[i].id = id
                        /\ \A j \in inline : dims[j].id = id => j <= i
    IN  IF bad # {} THEN built[CHOOSE i \in bad : \A j \in bad : i <= j]
        ELSE Ok([id \in {dims[i].id : i \in inline} |-> built[last(id)].value])

-----------------------------------------------------------------------------
\* What the module comment promises: "ties break on priority then definition
\* order"; an exact key has one row.
RowMatches(dim, row, input) ==
    \E j \in DOMAIN row.patterns :
        LET p == Fold(dim, row.patterns[j])
            s == Fold(dim, input)
        IN  IF dim.match = "exact" THEN p = s ELSE Occurs(p, s)

LookupSpec(dim, rows, input, v) ==
    LET hits == {i \in DOMAIN rows : RowMatches(dim, rows[i], input)}
        best == CHOOSE i \in hits : \A j \in hits \ {i} :
                    \/ rows[i].priority > rows[j].priority
                    \/ rows[i].priority = rows[j].priority /\ i < j
    IN  IF hits = {} THEN OnMiss(dim, input)
        ELSE IF v \in DOMAIN rows[best].values THEN rows[best].values[v] ELSE Null

\* How a CSV writer spells a field: quoted where it has to be.
CsvField(f) ==
    IF \E i \in DOMAIN f : f[i] \in {",", "\""}
    THEN <<"\"">> \o FlattenSeq([i \in DOMAIN f |->
                        IF f[i] = "\"" THEN <<"\"", "\"">> ELSE <<f[i]>>]) \o <<"\"">>
    ELSE f

CsvLine(fields) ==
    FoldLeft(LAMBDA acc, f : acc \o <<",">> \o CsvField(f), CsvField(Head(fields)),
             Tail(fields))

=============================================================================
