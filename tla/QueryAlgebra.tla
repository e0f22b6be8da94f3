----------------------------- MODULE QueryAlgebra -----------------------------
(***************************************************************************)
(* The algebra operators that the provenance rewriter takes as its input   *)
(* (include/model/query_operator/query_operator.h), what the backend       *)
(* database computes for each of them, and the inference of the attributes *)
(* that are never NULL (src/src/operator_optimizer/                        *)
(* optimizer_prop_inference.c), which the rewriter consults.               *)
(*                                                                         *)
(* A relation is a sequence of rows, so that duplicates count; a row is a  *)
(* sequence of values.  A query is a sequence of operators, each after its *)
(* inputs, so that an operator may feed several others: a graph, not a     *)
(* tree.  The set operators keep duplicates, as the Postgres serialiser    *)
(* writes them (UNION ALL, INTERSECT ALL, EXCEPT ALL).                     *)
(***************************************************************************)
EXTENDS Integers, FiniteSets, SequencesExt

CONSTANTS
    Null,           \* SQL's NULL
    Value,          \* the values of the columns of a table
    TableAttrs,     \* TableAttrs[t]: the attributes of table t
    NotNullAttrs,   \* NotNullAttrs[t]: those declared NOT NULL
    Databases       \* the databases: functions from tables to relations

Tables == DOMAIN TableAttrs

ASSUME NullAssumption == Null \notin Value /\ Null \notin Nat

\* A table has a name and attributes, no two of one name; some of them are
\* declared NOT NULL.
ASSUME TablesAssumption ==
    /\ Tables \subseteq STRING \ {""}
    /\ \A t \in Tables : /\ TableAttrs[t] \in Seq(STRING) \ {<< >>}
                         /\ \A j, k \in DOMAIN TableAttrs[t] :
                              TableAttrs[t][j] = TableAttrs[t][k] => j = k
                         /\ NotNullAttrs[t] \subseteq ToSet(TableAttrs[t])

\* The rows of a table have a value or NULL for each attribute, and no NULL
\* for one that is declared NOT NULL.
ASSUME DatabasesAssumption ==
    \A db \in Databases : \A t \in Tables :
        /\ db[t] \in Seq([DOMAIN TableAttrs[t] -> Value \union {Null}])
        /\ \A h \in DOMAIN db[t] : \A k \in DOMAIN TableAttrs[t] :
              TableAttrs[t][k] \in NotNullAttrs[t] => db[t][h][k] # Null

(***************************************************************************)
(* Attribute names.  A name is a prefix (a table for a provenance          *)
(* attribute), the number of the table's access, the attribute it is made  *)
(* from and the suffixes that made it unique.                              *)
(***************************************************************************)
Attr(a) == << "", 0, << a >>, << >> >>

getProvenanceAttrName(table, cnt, path) == << table, cnt, path, << >> >>

Suffixed(name, n) == << name[1], name[2], name[3], Append(name[4], n) >>

\* makeNamesUnique: the second and later occurrences of a name get the least
\* suffix, from their number on, that no name of the list has.
makeNamesUnique(names) ==
    LET after[k \in 0 .. Len(names)] ==
          IF k = 0 THEN names
          ELSE LET count == Cardinality({j \in 1 .. k - 1 : names[j] = names[k]})
                   taken == ToSet(after[k - 1])
                   free  == {n \in count .. count + Len(names) :
                               Suffixed(names[k], n) \notin taken}
               IN  IF count = 0 THEN after[k - 1]
                   ELSE [after[k - 1] EXCEPT ![k] = Suffixed(names[k], Min(free))]
    IN  after[Len(names)]

(***************************************************************************)
(* The database.                                                           *)
(***************************************************************************)
Equal(x, y) == x # Null /\ y # Null /\ x = y
IsNotDistinct(x, y) == x = y

NullRow(n) == [k \in 1 .. n |-> Null]

\* A projection on positions; position 0 stands for the constant NULL.
Project(rel, exprs) ==
    [k \in DOMAIN rel |->
        [j \in DOMAIN exprs |-> IF exprs[j] = 0 THEN Null ELSE rel[k][exprs[j]]]]

\* The rows at some positions, in their order.
Keep(rel, positions) ==
    LET kept[k \in 0 .. Len(rel)] ==
          IF k = 0 THEN << >>
          ELSE IF k \in positions THEN Append(kept[k - 1], rel[k]) ELSE kept[k - 1]
    IN  kept[Len(rel)]

Select(rel, pos) == Keep(rel, {k \in DOMAIN rel : Equal(rel[k][pos], 1)})

\* A join condition: the columns of the left and of the right input that it
\* compares, by equality or by IS NOT DISTINCT FROM.
On(left, right, nullSafe) == [left |-> left, right |-> right, nullSafe |-> nullSafe]

Satisfies(on, x, y) ==
    \A k \in DOMAIN on.left :
        IF on.nullSafe THEN IsNotDistinct(x[on.left[k]], y[on.right[k]])
                       ELSE Equal(x[on.left[k]], y[on.right[k]])

JoinOn(joinType, left, right, rightWidth, on) ==
    FlattenSeq([k \in DOMAIN left |->
        LET hits == Keep(right, {h \in DOMAIN right : Satisfies(on, left[k], right[h])})
        IN  IF hits = << >> /\ joinType = "LEFT_OUTER"
            THEN << left[k] \o NullRow(rightWidth) >>
            ELSE [h \in DOMAIN hits |-> left[k] \o hits[h]]])

Distinct(rel) == Keep(rel, {k \in DOMAIN rel : \A j \in 1 .. k - 1 : rel[j] # rel[k]})

\* count(*), with or without GROUP BY: the count first, then the group.
CountBy(rel, groupBy) ==
    LET keys == Project(rel, groupBy)
        groups == Distinct(keys)
    IN  IF groupBy = << >> THEN << << Len(rel) >> >>
        ELSE [g \in DOMAIN groups |->
                << Cardinality({k \in DOMAIN keys : keys[k] = groups[g]}) >> \o groups[g]]

\* EXCEPT ALL and INTERSECT ALL tell the copies of a row in the left input
\* that have a counterpart in the right one from those that have none.
Paired(left, right) ==
    {k \in DOMAIN left : Cardinality({j \in 1 .. k : left[j] = left[k]})
                            <= Cardinality({j \in DOMAIN right : right[j] = left[k]})}

ExceptAll(left, right) == Keep(left, DOMAIN left \ Paired(left, right))
IntersectAll(left, right) == Keep(left, Paired(left, right))

(***************************************************************************)
(* Operators: their type, the table, join or set operation they name, the  *)
(* inputs, the attribute positions of their condition or list, the schema, *)
(* the attributes inferred never to be NULL, and their result.  The width  *)
(* of a join's right input is what an outer join pads with NULLs.          *)
(***************************************************************************)
Unary == {"Selection", "Projection", "Aggregation", "DuplicateRemoval", "Order", "Limit"}
JoinTypes == {"INNER", "LEFT_OUTER"}
SetOps == {"UNION", "INTERSECTION", "DIFFERENCE"}

\* The one row of a constant relation, and the rows a LIMIT keeps.
ConstRow == << 1 >>
LimitRows == 1

Eval(o, ins, db) ==
    CASE o.type = "TableAccess"      -> db[o.how]
      [] o.type = "ConstRel"         -> << ConstRow >>
      [] o.type = "Selection"        -> Select(ins[1], o.pos[1])
      [] o.type = "Projection"       -> Project(ins[1], o.pos)
      [] o.type = "Aggregation"      -> CountBy(ins[1], o.pos)
      [] o.type = "DuplicateRemoval" -> Distinct(ins[1])
      [] o.type = "Order"            -> ins[1]
      [] o.type = "Limit"            -> SubSeq(ins[1], 1, Min({LimitRows, Len(ins[1])}))
      [] o.type = "Join"             ->
           JoinOn(o.how, ins[1], ins[2], o.rightWidth,
                  On(<< o.pos[1] >>, << o.pos[2] >>, FALSE))
      [] o.type = "Set"              ->
           CASE o.how = "UNION"        -> ins[1] \o ins[2]
             [] o.how = "INTERSECTION" -> IntersectAll(ins[1], ins[2])
             [] o.how = "DIFFERENCE"   -> ExceptAll(ins[1], ins[2])

SchemaOf(o, schemas) ==
    CASE o.type = "TableAccess" ->
           [k \in DOMAIN TableAttrs[o.how] |-> Attr(TableAttrs[o.how][k])]
      [] o.type = "ConstRel"    -> << Attr("k") >>
      [] o.type = "Projection"  ->
           makeNamesUnique([j \in DOMAIN o.pos |-> schemas[1][o.pos[j]]])
      [] o.type = "Aggregation" ->
           makeNamesUnique(<< Attr("count") >> \o
                           [j \in DOMAIN o.pos |-> schemas[1][o.pos[j]]])
      [] o.type = "Join"        -> makeNamesUnique(schemas[1] \o schemas[2])
      [] OTHER                  -> schemas[1]

(***************************************************************************)
(* computeNotNullPropInternal for one operator, from the names inferred    *)
(* for its inputs (nn) and their schemas.  It works on names: a join takes *)
(* the names of its inputs, not the ones its own schema gives them.        *)
(***************************************************************************)
\* exprListNotNull: the output names of the attribute references whose name
\* is in the set inferred for the input.
exprListNotNull(names, refs, inNotNull) ==
    {names[j] : j \in {k \in DOMAIN refs : refs[k] \in inNotNull}}

\* renameAttrsInSet, from the right input's names to the left input's.
renameAttrsInSet(inAttrs, outAttrs, notNull) ==
    {outAttrs[j] : j \in {k \in DOMAIN inAttrs : inAttrs[k] \in notNull}}

\* Mutant: the padded side of an outer join keeps its attributes.
NotNullJoinBoth(how, nn) == nn[1] \union nn[2]

NotNullJoin(how, nn) ==
    IF how = "LEFT_OUTER" THEN nn[1] ELSE nn[1] \union nn[2]

NotNullSet(how, nn, schemas) ==
    LET right == renameAttrsInSet(schemas[2], schemas[1], nn[2])
    IN  CASE how = "UNION"        -> nn[1] \intersect right
          [] how = "INTERSECTION" -> nn[1]
          [] how = "DIFFERENCE"   -> nn[1] \union right

computeNotNull(o, schema, schemas, nn) ==
    LET refs == [j \in DOMAIN o.pos |-> schemas[1][o.pos[j]]]
    IN  CASE o.type = "TableAccess" -> {Attr(a) : a \in NotNullAttrs[o.how]}
          [] o.type \in {"Selection", "DuplicateRemoval"} -> nn[1]
          [] o.type = "Projection"  -> exprListNotNull(schema, refs, nn[1])
          [] o.type = "Aggregation" ->
               {schema[1]} \union exprListNotNull(Tail(schema), refs, nn[1])
          [] o.type = "Join"        -> NotNullJoin(o.how, nn)
          [] o.type = "Set"         -> NotNullSet(o.how, nn, schemas)
          [] OTHER                  -> {}

\* An operator over the operators of query q, with all that follows from it:
\* also the operators it is made from, itself included, and the one that is
\* left of it without the duplicate removals on top.
Complete(q, o, db) ==
    LET schemas == [k \in DOMAIN o.in |-> q[o.in[k]].schema]
        schema  == SchemaOf(o, schemas)
    IN  [type |-> o.type, how |-> o.how, in |-> o.in, pos |-> o.pos,
         rightWidth |-> o.rightWidth, schema |-> schema,
         notNull |-> computeNotNull(o, schema, schemas,
                                    [k \in DOMAIN o.in |-> q[o.in[k]].notNull]),
         below |-> {Len(q) + 1} \union UNION {q[o.in[k]].below : k \in DOMAIN o.in},
         core |-> IF o.type = "DuplicateRemoval" THEN q[o.in[1]].core ELSE Len(q) + 1,
         rel |-> Eval(o, [k \in DOMAIN o.in |-> q[o.in[k]].rel], db)]

(***************************************************************************)
(* The operators that can be put on top of the operators of query q.       *)
(* Conditions compare the first attributes, or an attribute with 1; a      *)
(* projection keeps one attribute or swaps two.                            *)
(***************************************************************************)
Shape(type, how, in, pos, rightWidth) ==
    [type |-> type, how |-> how, in |-> in, pos |-> pos, rightWidth |-> rightWidth]

Width(q, i) == Len(q[i].schema)

LeafOperators ==
    {Shape("TableAccess", t, << >>, << >>, 0) : t \in Tables}
    \union {Shape("ConstRel", "", << >>, << >>, 0)}

UnaryOperators(q, i) ==
    LET keep  == {<< p >> : p \in 1 .. Width(q, i)}
        lists == [type \in Unary |->
                    CASE type = "Selection"   -> keep
                      [] type = "Projection"  ->
                           keep \union (IF Width(q, i) = 2 THEN {<< 2, 1 >>} ELSE {})
                      [] type = "Aggregation" -> {<< >>, << 1 >>}
                      [] OTHER                -> {<< >>}]
    IN  UNION {{Shape(type, "", << i >>, pos, 0) : pos \in lists[type]} : type \in Unary}

BinaryOperators(q, i, j) ==
    {Shape("Join", how, << i, j >>, << 1, 1 >>, Width(q, j)) : how \in JoinTypes}
    \union {Shape("Set", how, << i, j >>, << >>, 0) :
              how \in {h \in SetOps : Width(q, i) = Width(q, j)}}

NewOperators(q) ==
    LeafOperators
    \union (UNION {UnaryOperators(q, i) : i \in DOMAIN q})
    \union UNION {BinaryOperators(q, i, j) : i \in DOMAIN q, j \in DOMAIN q}
=============================================================================
