----------------------------- MODULE Evaluator -----------------------------
(***************************************************************************)
(* Mapping expressions (src/evaluator.rs): compilation against the registry *)
(* of dimension matchers, and the value of an expression in one row.  The   *)
(* values are what the Polars expressions of compile give; the kinds that   *)
(* only differ in the scalar function they apply (arithmetic, string        *)
(* functions, comparisons) are represented by one each: add, lower, eq, gt.*)
(***************************************************************************)
EXTENDS Dimension, Config
LOCAL INSTANCE SequencesExt

\* An evaluation that fails makes collect() of the whole frame fail.
Fail == <<"fail">>
BoolCell(b) == <<"bool", b>>

\* compile: the registry must have every dimension, and the dimension the
\* value column.
Compiles(expr, matchers) ==
    \A r \in DimRefs(expr) :
        /\ r[1] \in DOMAIN matchers
        /\ ValueIndex(matchers[r[1]].dim, r[2]) # 0

\* Logic of three values.
And3(a, b) ==
    CASE BoolCell(FALSE) \in {a, b} -> BoolCell(FALSE)
      [] BoolCell(FALSE) \notin {a, b} /\ Null \in {a, b} -> Null
      [] OTHER -> BoolCell(TRUE)

Not3(a) == IF a = Null THEN Null ELSE BoolCell(~a[2])

Or3(a, b) == Not3(And3(Not3(a), Not3(b)))

NonNull(vs) == SelectSeq(vs, LAMBDA v : v # Null)

\* concat_str that ignores nulls.
JoinCells(sep, vs) ==
    LET given == NonNull(vs)
    IN  IF given = <<>> THEN StrCell(<<>>)
        ELSE StrCell(FoldLeft(LAMBDA acc, v : acc \o sep \o v[2], Head(given)[2], Tail(given)))

SameType(vs) == \A i, j \in DOMAIN vs : vs[i][1] = vs[j][1]

IsStr(v) == v[1] = "str"

\* The kinds that give null for a null operand.
EvalStrict(node, vs) ==
    CASE node.kind = "eq" -> IF SameType(vs) THEN BoolCell(vs[1] = vs[2]) ELSE Fail
      [] node.kind = "gt" -> IF SameType(vs) THEN BoolCell(vs[1][2] > vs[2][2]) ELSE Fail
      [] node.kind = "add" -> IF SameType(vs) THEN IntCell(vs[1][2] + vs[2][2]) ELSE Fail
      [] node.kind = "lower" -> IF IsStr(vs[1]) THEN StrCell(Lower(vs[1][2])) ELSE Fail
      [] node.kind = "contains" ->
            IF SameType(vs) /\ IsStr(vs[1]) THEN BoolCell(Occurs(vs[2][2], vs[1][2])) ELSE Fail

\* A null input gives null; an input column that is no string column fails.
EvalDimRef(node, matchers, v) ==
    IF v = Null THEN Null
    ELSE IF ~IsStr(v) THEN Fail
    ELSE LET m == matchers[node.dim] IN Lookup(m, v[2], ValueIndex(m.dim, node.value))

\* What a node makes of its operands.
Apply(node, vs, row, matchers) ==
    IF Fail \in Range(vs) THEN Fail
    ELSE CASE node.kind = "col" -> row[node.name]
      [] node.kind = "lit" -> node.cell
      [] node.kind = "and" -> And3(vs[1], vs[2])
      [] node.kind = "or" -> Or3(vs[1], vs[2])
      [] node.kind = "not" -> Not3(vs[1])
      [] node.kind = "if" -> IF vs[1] = BoolCell(TRUE) THEN vs[2] ELSE vs[3]
      [] node.kind = "coalesce" ->
            IF NonNull(vs) = <<>> THEN Null ELSE Head(NonNull(vs))
      [] node.kind = "concat" -> JoinCells(node.sep, vs)
      [] node.kind = "dim_ref" -> EvalDimRef(node, matchers, vs[1])
      [] OTHER -> IF \E i \in DOMAIN vs : vs[i] = Null THEN Null
                  ELSE EvalStrict(node, vs)

\* The value of a compiled expression.  Every operand is evaluated, whatever
\* the condition of an `if`.
Eval(expr, row, matchers) ==
    LET value[node \in WalkAst(expr)] ==
            Apply(node, [i \in DOMAIN node.kids |-> value[node.kids[i]]], row, matchers)
    IN  value[expr]

=============================================================================
