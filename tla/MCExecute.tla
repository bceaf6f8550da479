----------------------------- MODULE MCExecute -----------------------------
(***************************************************************************)
(* Scenarios for Execute: families that each vary one part of a config or   *)
(* of the lake and keep the rest.                                          *)
(***************************************************************************)
EXTENDS Execute
LOCAL INSTANCE SequencesExt

\* Expressions
Col(n) == [kind |-> "col", name |-> n, kids |-> <<>>]
Lit(c) == [kind |-> "lit", cell |-> c, kids |-> <<>>]
Op(k, kids) == [kind |-> k, kids |-> kids]
Concat(kids) == [kind |-> "concat", sep |-> <<",">>, kids |-> kids]
DimRef(d, v, n) == [kind |-> "dim_ref", dim |-> d, value |-> v, kids |-> <<n>>]

\* Columns, sources, tables and mappings
Field(n, type) == [name |-> n, type |-> type, text |-> <<n>>, path |-> <<>>,
                   steps |-> <<Key(<<n>>)>>, asserts |-> <<>>]
Source(id, prefix, schema) ==
    [id |-> id, name |-> "name", prefix |-> prefix, format |-> "csv", schema |-> schema,
     filter |-> <<>>]
Table(id, schema) ==
    [id |-> id, name |-> "name", schema |-> schema, partition |-> <<>>, dedup |-> <<>>]
Output(n, e) == [name |-> n, expr |-> e]
MappingTo(id, s, t, columns) ==
    [id |-> id, source |-> s, table |-> t, columns |-> columns, where |-> <<>>]
CsvFile(key, header, rows) ==
    [key |-> key, content |-> [readable |-> TRUE, header |-> header, rows |-> rows]]
Broken(key) == [key |-> key, content |-> [readable |-> FALSE, header |-> <<>>, rows |-> <<>>]]

XY == <<Field("x", "string"), Field("y", "int64")>>
Copy == <<Output("x", Col("x")), Output("y", Col("y"))>>
DirA == <<"a", "/">>
FileA(n) == DirA \o <<n, ".csv">>

Config(sources, dims, mappings, tables) ==
    [sources |-> sources, dims |-> dims, mappings |-> mappings, tables |-> tables]
One(dims, m, t) == Config(<<Source("s1", DirA, XY)>>, dims, <<m>>, <<t>>)

-----------------------------------------------------------------------------
\* Two sources with all pairs of prefixes, a file in each folder.
Paths == {<<>>, DirA, <<"a">>, <<"a", "b", "/">>, <<"a", "/", "b", "/">>, <<"/", "a", "/">>,
          <<".", ".", "/">>, <<"a", "/", ".", ".", "/">>, <<"a", ".", ".", "/">>}
PrefixScenario(p, q) ==
    [cfg |-> Config(<<Source("s1", p, XY), Source("s2", q, <<Field("y", "int64")>>)>>, <<>>,
                    <<MappingTo("m1", "s1", "t1", Copy),
                      MappingTo("m2", "s2", "t1", <<Output("y", Col("y"))>>)>>,
                    <<Table("t1", XY)>>),
     lake |-> <<CsvFile(FileA("f"), <<"x", "y">>, <<<<StrCell(<<"a">>), IntCell(1)>>>>),
                CsvFile(<<"a", "/", "b", "/", "g", ".csv">>, <<"y", "z">>, <<<<IntCell(2), Null>>>>),
                CsvFile(<<"a", "b", "/", "h", ".csv">>, <<"y">>, <<<<IntCell(3)>>>>),
                Broken(FileA("z"))>>]

\* References: expressions of a column and of a `where`.
SomeDim(id) == [id |-> id, match |-> "exact", ci |-> FALSE, miss |-> "null", literal |-> <<>>,
                values |-> <<"v", "w">>, file |-> FALSE,
                rows |-> <<[patterns |-> <<<<"a">>>>,
                            values |-> <<StrCell(<<"b">>), StrCell(<<"a">>)>>, priority |-> 0]>>]
Exprs == <<Col("x"), Col("z"), DimRef("d1", "", Col("x")), DimRef("d1", "w", Col("x")),
           DimRef("d1", "u", Col("x")), DimRef("d2", "", Col("x")), DimRef("d1", "", Col("y")),
           Op("coalesce", <<DimRef("d1", "v", Op("lower", <<Col("x")>>)), Col("x")>>),
           Concat(<<Col("x"), DimRef("d1", "u", Col("x"))>>)>>
Wheres == <<<<>>, <<Col("y")>>, <<Op("gt", <<Col("o"), Lit(IntCell(1))>>)>>,
            <<Op("eq", <<Col("x"), DimRef("d1", "w", Col("x"))>>)>>,
            <<Op("eq", <<Col("x"), DimRef("d1", "u", Col("x"))>>)>>,
            <<Op("eq", <<Col("x"), DimRef("d2", "", Col("x"))>>)>>,
            <<Op("or", <<Op("eq", <<Col("o"), Lit(IntCell(1))>>), Op("contains", <<Col("x"), Lit(StrCell(<<"b">>))>>)>>)>>,
            <<Op("not", <<Op("eq", <<Col("o"), Lit(IntCell(1))>>)>>)>>,
            <<Op("if", <<Op("and", <<Op("gt", <<Col("o"), Lit(IntCell(0))>>),
                                     Op("eq", <<Op("add", <<Col("o"), Col("o")>>), Lit(IntCell(2))>>)>>),
                         Lit(BoolCell(TRUE)), Lit(Null)>>)>>>>
RefScenario(e, w) ==
    LET m == MappingTo("m1", "s1", "t1", <<Output("x", Exprs[e]), Output("o", Col("y"))>>)
    IN  [cfg |-> One(<<SomeDim("d1")>>, [m EXCEPT !.where = Wheres[w]],
                     Table("t1", <<Field("x", "string"), Field("o", "int64")>>)),
         lake |-> <<CsvFile(FileA("f"), <<"x", "y">>, <<<<StrCell(<<"a">>), IntCell(1)>>,
                                                        <<StrCell(<<"b">>), Null>>>>),
                    CsvFile(FileA("g"), <<"x", "y">>, <<<<Null, IntCell(2)>>>>),
                    CsvFile(FileA("h"), <<"x">>, <<<<Null>>>>)>>]

\* Other reasons for validate to refuse a config, and some it does not refuse.
Edit(c, n) ==
    CASE n = 1 -> [c EXCEPT !.sources[1].id = ""] [] n = 2 -> [c EXCEPT !.tables[1].name = ""]
      [] n = 3 -> [c EXCEPT !.sources[1].name = ""] [] n = 4 -> [c EXCEPT !.mappings[1].source = "s2"]
      [] n = 5 -> [c EXCEPT !.mappings[1].source = ""] [] n = 6 -> [c EXCEPT !.mappings[1].table = ""]
      [] n = 7 -> [c EXCEPT !.mappings[1].table = "t2"] [] n = 8 -> [c EXCEPT !.dims = <<SomeDim("d1"), SomeDim("d1")>>]
      [] n = 9 -> [c EXCEPT !.mappings = <<@[1], @[1]>>] [] n = 10 -> [c EXCEPT !.tables[1].partition = <<"x", "y", "x">>]
      [] n = 11 -> [c EXCEPT !.tables[1].partition = <<"x", "x">>] [] n = 12 -> [c EXCEPT !.tables[1].dedup = <<"z">>]
      [] n = 13 -> [c EXCEPT !.tables[1].schema[2].type = "number", !.tables[1].partition = <<"y">>]
      [] n = 14 -> [c EXCEPT !.tables[1].schema = Append(@, Field("z", "string")), !.tables[1].partition = <<"z">>]
      [] n = 15 -> [c EXCEPT !.tables[1].schema = Append(@, Field("z", "string")), !.tables[1].dedup = <<"z">>]
      [] n = 16 -> [c EXCEPT !.sources[1].schema = <<@[1], @[1], @[2]>>]
      [] n = 17 -> [c EXCEPT !.mappings[1].columns = <<@[1], @[1]>>]
      [] n = 18 -> [c EXCEPT !.mappings[1].columns[1].name = "z"] [] n = 19 -> [c EXCEPT !.sources = <<>>, !.mappings = <<>>]
      [] n = 20 -> [c EXCEPT !.tables[1].dedup = <<"x", "x">>]
EditScenario(n) ==
    [cfg |-> Edit(One(<<>>, MappingTo("m1", "s1", "t1", Copy), Table("t1", XY)), n),
     lake |-> <<CsvFile(FileA("f"), <<"x", "y">>, <<<<StrCell(<<"a">>), IntCell(1)>>>>)>>]

-----------------------------------------------------------------------------
\* Rows: three rows in two files, with keys, assertions and a third file
\* whose column has another type.
Texts == {Null, StrCell(<<"/">>), StrCell(<<"%", "2", "F">>), StrCell(<<"a", "=">>)}
Numbers == {Null, IntCell(0), IntCell(2)}
Keyings == {<<<<>>, <<>>>>, <<<<"x">>, <<>>>>, <<<<"x", "y">>, <<"x">>>>, <<<<"y">>, <<"y">>>>, <<<<"x">>, <<"y", "x">>>>}
Asserts == <<<<>>, <<[not_null |-> TRUE, min |-> <<>>, max |-> <<>>]>>,
             <<[not_null |-> FALSE, min |-> <<0>>, max |-> <<1>>]>>>>
RowScenario(a, b, keying, as, y) ==
    LET schema == [XY EXCEPT ![2].asserts = Asserts[as]]
        t == [Table("t1", schema) EXCEPT !.partition = keying[1], !.dedup = keying[2]]
    IN  [cfg |-> One(<<>>, MappingTo("m1", "s1", "t1", Copy), t),
         lake |-> <<CsvFile(FileA("f"), <<"y", "x">>, <<<<IntCell(1), a>>, <<y, b>>>>),
                    CsvFile(FileA("g"), <<"x", "y">>, <<<<StrCell(<<"/">>), y>>>>)>>]
TypeScenario(c, by) ==
    [cfg |-> One(<<>>, MappingTo("m1", "s1", "t1", Copy),
                 [Table("t1", [XY EXCEPT ![1].asserts = Asserts[3]]) EXCEPT !.partition = by]),
     lake |-> <<CsvFile(FileA("f"), <<"x", "y">>, <<<<StrCell(<<"2">>), IntCell(1)>>>>),
                CsvFile(FileA("g"), <<"x", "y">>, <<<<StrCell(<<"b">>), c>>>>)>>]

\* Dimensions: rows with patterns and priorities.
DimRow(p, v, n) == [patterns |-> p, values |-> <<StrCell(<<v>>)>>, priority |-> n]
Patterns == {<<<<"a">>>>, <<<<"A">>>>, <<<<"a", "b">>, <<"b">>>>, <<<<>>>>}
DimScenario(match, ci, miss, p, q, n, file) ==
    LET rows == <<DimRow(p, "b", n[1]), DimRow(q, "c", n[2]), DimRow(<<<<"A", "b">>>>, "d", n[3])>>
        d == [id |-> "d1", match |-> match, ci |-> ci, miss |-> miss, literal |-> <<"z">>,
              values |-> <<"v">>, file |-> file, rows |-> rows, prefix |-> <<"d", "/">>,
              key |-> <<"k">>, columns |-> <<<<"v">>>>, priority |-> <<"n">>]
        line(r) == CsvLine(<<r.patterns[1], <<<<"0", "1", "2">>[r.priority + 1]>>, r.values[1][2]>>)
    IN  [cfg |-> One(<<d>>, MappingTo("m1", "s1", "t1", <<Output("x", DimRef("d1", "v", Col("x")))>>),
                     Table("t1", XY)),
         lake |-> <<CsvFile(FileA("f"), <<"x", "y">>, <<<<StrCell(<<"a", "b">>), IntCell(1)>>>>),
                    [key |-> <<"d", "/", "k", ".csv">>,
                     content |-> [lines |-> <<CsvLine(<<<<"k">>, <<"n">>, <<"v">>>>), <<" ">>, line(rows[1])>>]],
                    [key |-> <<"d", "/", "l", ".csv">>,
                     content |-> [lines |-> <<CsvLine(<<<<"k">>, <<"n">>, <<"v">>>>), line(rows[2]), line(rows[3])>>]]>>]

\* A reference file with fields that need quotes, a short line, a line
\* without a key, and one that is not what the dimension wants.
CsvTexts == {<<"a">>, <<"\"">>, <<",", "a">>, <<"\"", ",", "\"">>, <<"a", "\"", "\"">>}
CsvScenario(k, v, header) ==
    LET rows == <<[patterns |-> <<k>>, values |-> <<StrCell(v), StrCell(<<"b">>)>>, priority |-> 0],
                  [patterns |-> <<<<"b">>>>, values |-> <<StrCell(k), Null>>, priority |-> 0]>>
        d == [id |-> "d1", match |-> "exact", ci |-> FALSE, miss |-> "passthrough", literal |-> <<>>,
              values |-> <<"v", "w">>, file |-> TRUE, rows |-> rows, prefix |-> <<"d", "/">>,
              key |-> <<"k">>, columns |-> <<<<"v">>, <<"w">>>>, priority |-> <<>>]
        lines == <<<<>>, CsvLine(<<<<"v">>, header, <<"w">>>>), CsvLine(<<v, k, <<"b">>>>),
                   CsvLine(<<k, <<"b">>>>), CsvLine(<<v, <<>>, v>>)>>
    IN  [cfg |-> One(<<d>>, MappingTo("m1", "s1", "t1", <<Output("x", DimRef("d1", "w", Col("x")))>>),
                     Table("t1", XY)),
         lake |-> <<CsvFile(FileA("f"), <<"x", "y">>, <<<<StrCell(k), IntCell(1)>>>>),
                    [key |-> <<"d", "/", "k", ".csv">>, content |-> [lines |-> IF header = <<>> THEN <<>> ELSE lines]]>>]

-----------------------------------------------------------------------------
\* JSON: paths and records of several shapes.
Obj(k, v) == <<"obj", [q \in {k} |-> v]>>
Arr(vs) == <<"arr", vs>>
Steps == {<<Key(<<"a">>)>>, <<Key(<<"a">>), Key(<<"b">>)>>, <<Key(<<"a">>), Index(1)>>,
          <<Key(<<"a">>), Index(0), Key(<<"b">>)>>, <<Index(0), Index(1)>>}
Scalars == {Null, IntCell(2), StrCell(<<"1">>), BoolCell(TRUE)}
Shape(n, v) ==
    CASE n = 1 -> Obj(<<"a">>, v) [] n = 2 -> Obj(<<"a">>, Obj(<<"b">>, v))
      [] n = 3 -> Obj(<<"a">>, Arr(<<IntCell(0), v>>)) [] n = 4 -> Obj(<<"a">>, Arr(<<Obj(<<"b">>, v)>>))
      [] n = 5 -> Obj(<<"a", ".", "b">>, v)
JsonScenario(path, steps, type, n, v, variant) ==
    LET col == [Field("x", type) EXCEPT !.path = path, !.steps = steps]
        sc  == [Source("s1", DirA, <<col>>) EXCEPT !.format = "ndjson",
                   !.filter = IF variant = 1 THEN <<>>
                              ELSE <<Op("eq", <<Col(IF variant = 2 THEN "x" ELSE "u"), Lit(StrCell(<<"1">>))>>)>>]
    IN  [cfg |-> Config(<<sc>>, <<>>, <<MappingTo("m1", "s1", "t1", <<Output("x", Col("x"))>>)>>,
                        <<[Table("t1", <<Field("x", type)>>) EXCEPT
                              !.partition = IF type \in {"number", "float64"} THEN <<>> ELSE <<"x">>]>>),
         lake |-> <<[key |-> DirA \o <<"f", ".json">>,
                     content |-> [array |-> FALSE, lines |-> <<Shape(n, v), BlankLine, Obj(<<"a">>, StrCell(<<"1">>)), BadLine>>]],
                    [key |-> DirA \o <<"g", ".jsonl">>, content |-> [array |-> TRUE, lines |-> <<>>]],
                    Broken(FileA("h"))>>]
BadPaths == {<<"a", "[">>, <<"a", "[", "]">>, <<"a", "[", "b", "]">>, <<".">>}

-----------------------------------------------------------------------------
Priorities == {<<0, 0, 0>>, <<0, 1, 0>>, <<1, 0, 1>>, <<0, 1, 2>>}
Bools == {TRUE, FALSE}

AllScenarios ==
    {<<"prefix", p, q>> : p \in Paths, q \in Paths}
    \cup {<<"refs", e, w>> : e \in DOMAIN Exprs, w \in DOMAIN Wheres}
    \cup {<<"edit", n>> : n \in 1..20}
    \cup {<<"rows", a, b, k, as, y>> : a \in Texts, b \in Texts, k \in Keyings,
                                       as \in DOMAIN Asserts, y \in Numbers}
    \cup {<<"types", c, k>> : c \in {IntCell(1), Null, StrCell(<<"3">>)}, k \in {<<>>, <<"x">>}}
    \cup {<<"dim", m, c, s, p, q, n, f>> :
             m \in {"exact", "keyword"}, c \in Bools, s \in {"null", "passthrough", "literal"},
             p \in Patterns, q \in Patterns, n \in Priorities, f \in {FALSE}}
    \cup {<<"dim", "keyword", c, "null", p, <<<<"a">>>>, n, TRUE>> :
             c \in Bools, p \in {<<<<"A">>>>, <<<<"a">>>>, <<<<"b">>>>}, n \in Priorities}
    \cup {<<"csv", k, v, h>> : k \in CsvTexts, v \in CsvTexts, h \in {<<"k">>, <<"q">>, <<>>}}
    \cup {<<"json", s, t, n, v, f>> : s \in Steps, t \in {"string", "int64", "number", "bool"},
                                      n \in 1..5, v \in Scalars, f \in 1..3}
    \cup {<<"path", p>> : p \in BadPaths}

ScenarioNamed(id) ==
    CASE id[1] = "prefix" -> PrefixScenario(id[2], id[3])
      [] id[1] = "refs" -> RefScenario(id[2], id[3])
      [] id[1] = "edit" -> EditScenario(id[2])
      [] id[1] = "rows" -> RowScenario(id[2], id[3], id[4], id[5], id[6])
      [] id[1] = "types" -> TypeScenario(id[2], id[3])
      [] id[1] = "dim" -> DimScenario(id[2], id[3], id[4], id[5], id[6], id[7], id[8])
      [] id[1] = "csv" -> CsvScenario(id[2], id[3], id[4])
      [] id[1] = "json" -> JsonScenario(RenderPath(id[2]), id[2], id[3], id[4], id[5], id[6])
      [] id[1] = "path" -> JsonScenario(id[2], <<>>, "string", 1, Null, 1)

=============================================================================
