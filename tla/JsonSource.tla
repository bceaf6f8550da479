----------------------------- MODULE JsonSource -----------------------------
(***************************************************************************)
(* The NDJSON reader (src/json_source.rs): every column of a source is      *)
(* bound to a path in each record.                                         *)
(*                                                                         *)
(* A JSON value is a scalar cell, <<"obj", function from keys to values>>,  *)
(* or <<"arr", sequence>>.  A line of a file is a value, BadLine or         *)
(* BlankLine.                                                              *)
(***************************************************************************)
EXTENDS Dimension
LOCAL INSTANCE SequencesExt

BadLine == <<"bad">>
BlankLine == <<"blank">>

Digits == {"0", "1", "2", "3"}

Key(k) == <<"key", k>>
Index(n) == <<"index", n>>

\* Takes a key that was not begun for an empty one.
FlushAlways(steps, cur) == Append(steps, Key(cur))

\* The steps with the key read so far, if any.
Flush(steps, cur) == IF cur = <<>> THEN steps ELSE Append(steps, Key(cur))

\* compile_path
CompilePath(path) ==
    LET bad(acc) == [acc EXCEPT !.bad = TRUE]
        inIndex(acc, c) ==
            CASE c = "]" -> IF ParseInt(acc.digits) = Null THEN bad(acc)
                            ELSE [acc EXCEPT !.index = FALSE,
                                     !.steps = Append(@, Index(ParseInt(acc.digits)[2]))]
              [] c \in Digits -> [acc EXCEPT !.digits = Append(@, c)]
              [] OTHER -> bad(acc)
        step(acc, c) ==
            IF acc.bad THEN acc
            ELSE IF acc.index THEN inIndex(acc, c)
            ELSE CASE c = "." -> [acc EXCEPT !.steps = Flush(@, acc.cur), !.cur = <<>>]
                   [] c = "[" -> [acc EXCEPT !.steps = Flush(@, acc.cur), !.cur = <<>>,
                                             !.index = TRUE, !.digits = <<>>]
                   [] OTHER -> [acc EXCEPT !.cur = Append(@, c)]
        end == FoldLeft(step, [steps |-> <<>>, cur |-> <<>>, digits |-> <<>>,
                               index |-> FALSE, bad |-> FALSE], path)
        steps == Flush(end.steps, end.cur)
    IN  IF end.bad \/ end.index \/ steps = <<>> THEN Error("path") ELSE Ok(steps)

\* Keeps the value reached so far where a key or an element is missing.
StepLenient(cur, s) ==
    IF s[1] = "key"
    THEN IF cur[1] = "obj" /\ s[2] \in DOMAIN cur[2] THEN cur[2][s[2]] ELSE cur
    ELSE IF cur[1] = "arr" /\ s[2] + 1 \in DOMAIN cur[2] THEN cur[2][s[2] + 1] ELSE cur

\* The value that a step leads to, Null where there is none.
StepTo(cur, s) ==
    IF s[1] = "key"
    THEN IF cur[1] = "obj" /\ s[2] \in DOMAIN cur[2] THEN cur[2][s[2]] ELSE Null
    ELSE IF cur[1] = "arr" /\ s[2] + 1 \in DOMAIN cur[2] THEN cur[2][s[2] + 1] ELSE Null

\* resolve
Resolve(record, steps) ==
    LET cur[n \in 0..Len(steps)] == IF n = 0 THEN record ELSE StepTo(cur[n - 1], steps[n])
    IN  cur[Len(steps)]

\* to_string of a number (of one digit) and of a Boolean.
ScalarText(v) ==
    CASE v[1] = "str" -> v[2]
      [] v[1] = "int" -> <<<<"0", "1", "2", "3">>[v[2] + 1]>>
      [] v[1] = "bool" -> IF v[2] THEN <<"t", "r", "u", "e">> ELSE <<"f", "a", "l", "s", "e">>

\* The number in a JSON value, if it has one.
Number(v) ==
    CASE v[1] = "int" -> {v[2]}
      [] v[1] = "str" /\ ParseInt(v[2]) # Null -> {ParseInt(v[2])[2]}
      [] OTHER -> {}

\* Builder::push.  The numbers of the instances are integers, which a float
\* column takes as floats.
Push(type, v) ==
    CASE type \in {"int64", "number", "float64"} ->
            IF Number(v) = {} THEN Null
            ELSE <<IF type = "int64" THEN "int" ELSE "float", CHOOSE n \in Number(v) : TRUE>>
      [] type = "bool" -> IF v[1] = "bool" THEN v ELSE Null
      [] OTHER -> IF v[1] \in {"str", "int", "bool"} THEN <<"str", ScalarText(v)>> ELSE Null

\* parse_records: the lines that parse.
ParseRecords(lines) == Kept(lines, {i \in DOMAIN lines : lines[i] \notin {BadLine, BlankLine}})

PathOf(col) == IF col.path = <<>> THEN col.text ELSE col.path

\* read_json_source: a frame's rows.  array: the text starts with "[".
ReadJsonSource(content, schema) ==
    LET paths   == [i \in DOMAIN schema |-> CompilePath(PathOf(schema[i]))]
        records == ParseRecords(content.lines)
        column(n) == CHOOSE i \in DOMAIN schema : schema[i].name = n
        cell(r, n) == Push(schema[column(n)].type, Resolve(r, paths[column(n)].value))
    IN  IF content.array THEN Error("array")
        ELSE IF \E i \in DOMAIN paths : paths[i].error # "" THEN Error("path")
        ELSE IF ~IsInjective([i \in DOMAIN schema |-> schema[i].name]) THEN Error("frame")
        ELSE Ok([r \in DOMAIN records |->
                    [n \in {schema[i].name : i \in DOMAIN schema} |-> cell(records[r], n)]])

-----------------------------------------------------------------------------
\* What a path is meant to name: the text of a list of steps.
RenderPath(steps) ==
    FlattenSeq([i \in DOMAIN steps |->
        IF steps[i][1] = "index"
        THEN <<"[">> \o ScalarText(<<"int", steps[i][2]>>) \o <<"]">>
        ELSE (IF i = 1 THEN <<>> ELSE <<".">>) \o steps[i][2]])

\* The member of a value that a step names, if it has it.
Member(v, s) ==
    LET shape == IF s[1] = "key" THEN "obj" ELSE "arr"
        k     == IF s[1] = "key" THEN s[2] ELSE s[2] + 1
    IN  IF v[1] = shape /\ k \in DOMAIN v[2] THEN {v[2][k]} ELSE {}

\* The value at a list of steps, Null if there is none.
ValueAt(record, steps) ==
    LET at[n \in 0..Len(steps)] ==
            IF n = 0 THEN {record} ELSE UNION {Member(v, steps[n]) : v \in at[n - 1]}
    IN  IF at[Len(steps)] = {} THEN Null ELSE CHOOSE v \in at[Len(steps)] : TRUE

=============================================================================
