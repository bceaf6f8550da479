------------------------------- MODULE Config -------------------------------
(***************************************************************************)
(* Validation of a pipeline config (src/config.rs): a config is accepted    *)
(* when validate collects no error.                                        *)
(*                                                                         *)
(* Ids and names are atoms, "" the empty one.  An expression is a tree of   *)
(* records with a kind and a sequence of kids (src/ast.rs).                 *)
(***************************************************************************)
EXTENDS Sources, Functions

CONSTANT MaxNesting         \* bound on the nesting of expressions

ASSUME ConfigAssumption == MaxNesting \in Nat

Ids(items) == {items[i].id : i \in DOMAIN items}

Names(items) == {items[i].name : i \in DOMAIN items}

\* The item with an id; ids are unique in an accepted config.
ById(items, id) == items[CHOOSE i \in DOMAIN items : items[i].id = id]

\* check_unique_and_required_ids
UniqueIds(items) ==
    /\ "" \notin Ids(items)
    /\ \A i, j \in DOMAIN items : items[i].id = items[j].id => i = j

\* walk_ast: the nodes it visits, level by level.
WalkAst(node) ==
    LET level[d \in 0..MaxNesting] ==
            IF d = 0 THEN {node} ELSE UNION {Range(n.kids) : n \in level[d - 1]}
    IN  UNION {level[d] : d \in 0..MaxNesting}

\* The column names an expression refers to.
ColRefs(expr) == {n.name : n \in {k \in WalkAst(expr) : k.kind = "col"}}

DimRefs(expr) == {<<n.dim, n.value>> : n \in {k \in WalkAst(expr) : k.kind = "dim_ref"}}

\* The check of a `where` predicate, applied to a column.
ColumnDimsResolveById(cfg, expr) ==
    \A r \in DimRefs(expr) : r[1] \in Ids(cfg.dims)

\* A column expression: the dimension exists and has the value column, if
\* one is named ("" for none).
ColumnDimsResolve(cfg, expr) ==
    \A r \in DimRefs(expr) :
        /\ r[1] \in Ids(cfg.dims)
        /\ r[2] = "" \/ r[2] \in Range(ById(cfg.dims, r[1]).values)

\* A `where` predicate: its value column is not looked at.
WhereResolves(cfg, m) ==
    m.where # <<>> =>
        /\ \A r \in DimRefs(m.where[1]) : r[1] \in Ids(cfg.dims)
        /\ ColRefs(m.where[1]) \subseteq Names(m.columns)

\* The loop over the mappings.  An empty reference is no dangling one.
MappingValid(cfg, m) ==
    /\ m.source # "" => m.source \in Ids(cfg.sources)
    /\ m.table # "" => m.table \in Ids(cfg.tables)
    /\ \A j \in DOMAIN m.columns : ColumnDimsResolve(cfg, m.columns[j].expr)
    /\ WhereResolves(cfg, m)
    /\ m.table \in Ids(cfg.tables) =>
          Names(m.columns) \subseteq Names(ById(cfg.tables, m.table).schema)
    /\ m.source \in Ids(cfg.sources) =>
          \A j \in DOMAIN m.columns :
              ColRefs(m.columns[j].expr) \subseteq
                  Names(ById(cfg.sources, m.source).schema)

\* Of two columns with one name the later gives the type.
TypeOf(schema, name) ==
    schema[CHOOSE i \in DOMAIN schema :
               /\ schema[i].name = name
               /\ \A j \in DOMAIN schema : schema[j].name = name => j <= i].type

\* The loop over the tables: partition_keys and dedup_keys.
TableValid(t) ==
    /\ Len(t.partition) <= 2
    /\ IsInjective(t.partition) /\ IsInjective(t.dedup)
    /\ Range(t.partition) \cup Range(t.dedup) \subseteq Names(t.schema)
    /\ \A k \in Range(t.partition) : TypeOf(t.schema, k) \notin {"float64", "number"}

PrefixesOf(cfg) == [i \in DOMAIN cfg.sources |-> cfg.sources[i].prefix]

\* validate
Validate(cfg) ==
    /\ UniqueIds(cfg.sources) /\ UniqueIds(cfg.dims)
    /\ UniqueIds(cfg.mappings) /\ UniqueIds(cfg.tables)
    /\ "" \notin Names(cfg.sources) \cup Names(cfg.tables)
    /\ \A i \in DOMAIN cfg.mappings : MappingValid(cfg, cfg.mappings[i])
    /\ \A i \in DOMAIN cfg.tables : TableValid(cfg.tables[i])
    /\ PrefixesValid(PrefixesOf(cfg))

=============================================================================
