----------------------------- MODULE PICSRewrite ------------------------------
(***************************************************************************)
(* The PI-CS provenance rewrite of src/src/provenance_rewriter/            *)
(* pi_cs_rewrites/pi_cs_main.c, with the schema helpers of prov_utility.c  *)
(* and prov_schema.c.  rewritePI_CSOperator walks the operator graph of a  *)
(* query depth first and builds beside it a graph whose result has, next   *)
(* to each row of the query, the rows of the base tables it is made from:  *)
(* the provenance attributes.  An operator that several parents share is   *)
(* rewritten once; a later parent gets a projection over the rewritten     *)
(* operator that gives the provenance attributes new names.                *)
(*                                                                         *)
(* A node of the new graph carries what the database would compute for it, *)
(* so that the rewritten query can be compared with the query at every     *)
(* operator.  The call stack of the recursion is explicit.  AS OF, nested  *)
(* subqueries, window functions, JSON tables, the options that show or add *)
(* intermediate provenance and the coarse-grained rewrites are left out.   *)
(***************************************************************************)
EXTENDS QueryAlgebra, Functions

CONSTANTS
    MaxOps,         \* bound: the operators of a query
    MaxRows,        \* bound: the rows of an operator's result
    Admit           \* what the queries may have that InScope leaves out

ASSUME BoundsAssumption == MaxOps \in Nat /\ MaxRows \in Nat

VARIABLES
    db,
    query,              \* the operators of the query, inputs first
    phase,
    stack,              \* the active calls of rewritePI_CSOperator
    graph,              \* the nodes built so far
    opToRewrittenOp,    \* node that an operator was rewritten to, or 0
    provCounts          \* accesses to a table so far, from 0

vars == << db, query, phase, stack, graph, opToRewrittenOp, provCounts >>

ProvPrefixes == Tables \union {"query"}

IntSeq(first, last) == [k \in 1 .. (last - first + 1) |-> first + k - 1]

(***************************************************************************)
(* Nodes.  width is the number of columns the node yields, which its       *)
(* schema should agree with; info lists, for each base table access, the   *)
(* table and its attributes (PROP_PROVENANCE_TABLE_ATTRS, << >> when the   *)
(* property is not set).                                                   *)
(***************************************************************************)
Node(type, inputs, schema, width, rel) ==
    [type |-> type, inputs |-> inputs, parents |-> << >>, schema |-> schema,
     provAttrs |-> << >>, info |-> << >>, width |-> width, rel |-> rel]

NormalPos(n) ==
    Keep(IntSeq(1, Len(n.schema)), {k \in DOMAIN n.schema : ~ Contains(n.provAttrs, k)})
NormalNames(n) == [k \in DOMAIN NormalPos(n) |-> n.schema[NormalPos(n)[k]]]
ProvNames(n) == [k \in DOMAIN n.provAttrs |-> n.schema[n.provAttrs[k]]]

addNormalAttrsToSchema(n, source) == [n EXCEPT !.schema = @ \o NormalNames(source)]

\* Mutant: the positions start at the last attribute that is there.
AddProvenanceOffByOne(n, source) ==
    [n EXCEPT !.schema = @ \o ProvNames(source),
              !.provAttrs = @ \o IntSeq(Len(n.schema), Len(n.schema) + Len(source.provAttrs) - 1)]

addProvenanceAttrsToSchema(n, source) ==
    [n EXCEPT !.schema = @ \o ProvNames(source),
              !.provAttrs = @ \o IntSeq(Len(n.schema) + 1,
                                        Len(n.schema) + Len(source.provAttrs))]

\* Add node n above its inputs where the code overwrites the inputs' lists of
\* parents (rewrLeftInput->parents = singleton(...), = NIL).
AttachAlone(g, n) ==
    Append([k \in DOMAIN g |->
              IF Contains(n.inputs, k)
              THEN [g[k] EXCEPT !.parents = << Len(g) + 1 >>] ELSE g[k]],
           n)

\* The same with addChildOperator or addParent for each input.
\* Mutant: AttachAlone, a parent link that replaces the ones that are there.
Attach(g, n) ==
    Append([k \in DOMAIN g |->
              IF Contains(n.inputs, k)
              THEN [g[k] EXCEPT !.parents = Append(@, Len(g) + 1)] ELSE g[k]],
           n)

\* createProjectionOp over node c.
Projection(g, c, exprs, names) ==
    Node("Projection", << c >>, names, Len(exprs), Project(g[c].rel, exprs))

\* createJoinOp over nodes l and r, with the attribute names of both.
createJoinOp(g, l, r, rel) ==
    Node("Join", << l, r >>, g[l].schema \o g[r].schema, g[l].width + g[r].width, rel)

Join(g, joinType, l, r, on) ==
    createJoinOp(g, l, r, JoinOn(joinType, g[l].rel, g[r].rel, g[r].width, on))

\* Mutant: the join is left as it is.
ReorderNothing(g) == g

\* A projection over the last node that puts its normal attributes first.
ReorderAttrs(g) ==
    LET j == g[Len(g)]
        p == Projection(g, Len(g), NormalPos(j) \o j.provAttrs, << >>)
    IN  Attach(g, addProvenanceAttrsToSchema(addNormalAttrsToSchema(p, j), j))

\* The position of a name in a schema, and createProjOnAttrsByName.
getAttrPos(schema, name) ==
    LET at == {k \in DOMAIN schema : schema[k] = name} IN IF at = {} THEN 0 ELSE Min(at)
createProjOnAttrsByName(g, c, names, newNames) ==
    LET pos == [k \in DOMAIN names |-> getAttrPos(g[c].schema, names[k])]
    IN  [Projection(g, c, pos, newNames) EXCEPT
            !.provAttrs = Keep(IntSeq(1, Len(pos)),
                               {k \in DOMAIN pos : Contains(g[c].provAttrs, pos[k])})]

\* getOrSetOpCopy: a copy of the original operator with all below it.
OpCopy(o) == Node("Copy", << >>, o.schema, Len(o.schema), o.rel)

WithInfo(g, info) == [g EXCEPT ![Len(g)].info = info]

(***************************************************************************)
(* The rewrite of operator o, whose rewritten inputs are the nodes ins of  *)
(* graph g: the graph with the nodes it adds, the result last.             *)
(***************************************************************************)
rewriteLeaf(g, o, table, cnt, recorded) ==
    LET n     == Len(o.schema)
        leaf  == Attach(g, Node(o.type, << >>, o.schema, n, o.rel))
        names == [k \in 1 .. n |-> getProvenanceAttrName(table, cnt, o.schema[k][3])]
        proj  == Projection(leaf, Len(leaf), IntSeq(1, n) \o IntSeq(1, n), o.schema \o names)
    IN  WithInfo(Attach(leaf, [proj EXCEPT !.provAttrs = IntSeq(n + 1, 2 * n)]),
                 << << table, [k \in 1 .. n |-> recorded \o o.schema[k][3]] >> >>)

rewriteTableAccess(g, o, cnt) == rewriteLeaf(g, o, o.how, cnt, << >>)

\* A constant relation is recorded under its provenance attributes' names.
rewriteConstRel(g, o, cnt) ==
    rewriteLeaf(g, o, "query", cnt, << "query" >>)

\* Mutant: the table information of the input is not copied.
RewriteSameSchemaNoInfo(g, o, ins) ==
    LET c == g[ins[1]]
        n == Node(o.type, ins, o.schema, c.width, Eval(o, << c.rel >>, db))
    IN  Attach(g, addProvenanceAttrsToSchema(n, c))

\* Selection and Order: the operator over its rewritten input.
rewriteSameSchema(g, o, ins) ==
    LET c == g[ins[1]]
        n == Node(o.type, ins, o.schema, c.width, Eval(o, << c.rel >>, db))
    IN  WithInfo(Attach(g, addProvenanceAttrsToSchema(n, c)), c.info)

rewriteProjection(g, o, ins) ==
    LET c == g[ins[1]]
        n == Projection(g, ins[1], o.pos \o c.provAttrs, o.schema)
    IN  WithInfo(Attach(g, addProvenanceAttrsToSchema(n, c)), c.info)

rewriteJoin(g, o, ins) ==
    LET l    == g[ins[1]]
        r    == g[ins[2]]
        numL == Len(o.schema) - o.rightWidth
        both == Join(g, o.how, ins[1], ins[2], On(<< o.pos[1] >>, << o.pos[2] >>, FALSE))
        left == addProvenanceAttrsToSchema([both EXCEPT !.schema = SubSeq(o.schema, 1, numL)], l)
        join == addProvenanceAttrsToSchema(
                   [left EXCEPT !.schema = @ \o SubSeq(o.schema, numL + 1, Len(o.schema))], r)
    IN  WithInfo(ReorderAttrs(Attach(g, join)), l.info \o r.info)

(***************************************************************************)
(* An aggregation is joined with the provenance of its input on the        *)
(* group-by attributes, by equality if they cannot be NULL; without a      *)
(* group the join is an outer one, so that an empty input keeps its row.   *)
(***************************************************************************)
\* Mutant: an inner join always.
AggJoinTypeInner(o) == "INNER"

AggJoinType(o) == IF o.pos = << >> THEN "LEFT_OUTER" ELSE "INNER"

\* The group-by projection of the rewritten input, or the input itself.
GroupBySide(g, o, c) ==
    LET names == [k \in DOMAIN o.pos |-> << "_P_SIDE_", 0, o.schema[k + 1][3], o.schema[k + 1][4] >>]
        proj  == Projection(g, c, o.pos \o g[c].provAttrs, names \o ProvNames(g[c]))
    IN  IF o.pos = << >> THEN g
        ELSE AttachAlone(g, [proj EXCEPT
               !.provAttrs = IntSeq(Len(o.pos) + 1, Len(o.pos) + Len(g[c].provAttrs))])

rewriteAggregation(g, o, ins) ==
    LET notNull == query[o.in[1]].notNull
        nonNull == \A k \in DOMAIN o.pos : query[o.in[1]].schema[o.pos[k]] \in notNull
        side    == GroupBySide(g, o, ins[1])
        right   == IF o.pos = << >> THEN ins[1] ELSE Len(side)
        copied  == Attach(side, OpCopy(o))
        on      == On(IntSeq(2, Len(o.pos) + 1), IntSeq(1, Len(o.pos)), ~ nonNull)
        join    == [Join(copied, AggJoinType(o), Len(copied), right, on) EXCEPT
                      !.schema = makeNamesUnique(@),
                      !.provAttrs = [k \in DOMAIN side[right].provAttrs |->
                                       side[right].provAttrs[k] + Len(o.schema)]]
        joined  == Attach(copied, join)
        proj    == Projection(joined, Len(joined), IntSeq(1, Len(o.schema)) \o join.provAttrs,
                              o.schema \o ProvNames(side[right]))
    IN  WithInfo(Attach(joined, [proj EXCEPT
                   !.provAttrs = IntSeq(Len(o.schema) + 1, Len(o.schema) + Len(join.provAttrs))]),
                 g[ins[1]].info)

(***************************************************************************)
(* Set operations.  A union pads each side with NULLs for the provenance   *)
(* of the other; an intersection is a join of both sides by equality, with *)
(* the normal attributes of both; a difference is joined with the          *)
(* provenance of its left input.                                           *)
(***************************************************************************)
Nulls(n) == [k \in 1 .. n |-> 0]

rewriteUnion(g, o, ins) ==
    LET l  == g[ins[1]]
        r  == g[ins[2]]
        nl == Len(l.provAttrs)
        nr == Len(r.provAttrs)
        n  == Len(NormalPos(r))
        projL == [Projection(g, ins[1], IntSeq(1, Len(l.schema)) \o Nulls(nr),
                             l.schema \o ProvNames(r)) EXCEPT
                    !.provAttrs = l.provAttrs \o IntSeq(Len(l.schema) + 1, Len(l.schema) + nr)]
        gl == AttachAlone(g, projL)
        projR == [Projection(gl, ins[2], IntSeq(1, n) \o Nulls(nl) \o IntSeq(n + 1, n + nr),
                             NormalNames(r) \o ProvNames(l) \o ProvNames(r)) EXCEPT
                    !.provAttrs = IntSeq(n + 1, n + nl + nr)]
        gr == AttachAlone(gl, projR)
        union == Node("Set", << Len(gl), Len(gr) >>, o.schema, projL.width,
                      gr[Len(gl)].rel \o gr[Len(gr)].rel)
    IN  Attach(gr, addProvenanceAttrsToSchema(union, gr[Len(gl)]))

rewriteIntersection(g, o, ins) ==
    LET l == g[ins[1]]
        r == g[ins[2]]
        all  == IntSeq(1, Len(o.schema))
        both == [Join(g, "INNER", ins[1], ins[2], On(all, all, FALSE)) EXCEPT !.schema = << >>]
        left == addProvenanceAttrsToSchema(addNormalAttrsToSchema(both, l), l)
        join == addProvenanceAttrsToSchema(addNormalAttrsToSchema(left, r), r)
    IN  ReorderAttrs(Attach(g, join))

rewriteDifference(g, o, ins) ==
    LET l      == g[ins[1]]
        r      == g[ins[2]]
        n      == Len(o.schema)
        copied == Attach(g, OpCopy(o))
        join   == [Join(copied, "INNER", Len(copied), ins[1],
                        On(NormalPos(l), NormalPos(l), TRUE)) EXCEPT
                     !.schema = makeNamesUnique(@),
                     !.provAttrs = [k \in DOMAIN l.provAttrs |-> l.provAttrs[k] + n]]
        joined == AttachAlone(copied, join)
        proj   == Projection(joined, Len(joined),
                             IntSeq(1, n) \o join.provAttrs \o Nulls(Len(r.provAttrs)), o.schema)
    IN  Attach(joined, addProvenanceAttrsToSchema(addProvenanceAttrsToSchema(proj, join), r))

rewriteSet(g, o, ins) ==
    WithInfo(CASE o.how = "UNION"        -> rewriteUnion(g, o, ins)
               [] o.how = "INTERSECTION" -> rewriteIntersection(g, o, ins)
               [] o.how = "DIFFERENCE"   -> rewriteDifference(g, o, ins),
             g[ins[1]].info \o g[ins[2]].info)

\* A limit is joined, by equality on all attributes, with the provenance of
\* its input.  The table information of the input is not copied.
rewriteLimit(g, o, ins) ==
    LET c       == g[ins[1]]
        copied  == Attach(g, OpCopy(o))
        renamed == [k \in DOMAIN o.schema |-> << "__", o.schema[k][2], o.schema[k][3], o.schema[k][4] >>]
        all     == IntSeq(1, Len(o.schema))
        join    == [Join(copied, "INNER", Len(copied), ins[1], On(all, all, FALSE)) EXCEPT
                      !.schema = o.schema \o renamed \o ProvNames(c)]
        joined  == Attach(copied, join)
        proj    == createProjOnAttrsByName(joined, Len(joined), c.schema, c.schema)
    IN  Attach(joined, [proj EXCEPT !.provAttrs = c.provAttrs])

(***************************************************************************)
(* rewritePI_CSReuseRewrittenOp: a shared operator once more, with names   *)
(* from fresh counts, one for each base table access.                      *)
(***************************************************************************)
\* Mutant: the count of the last access is taken again.
FreshCountStale(info, k) == provCounts[info[k][1]]

FreshCount(info, k) ==
    provCounts[info[k][1]] + Cardinality({j \in 1 .. k : info[j][1] = info[k][1]})

ReuseCounts(info) ==
    [t \in ProvPrefixes |->
        provCounts[t] + Cardinality({j \in DOMAIN info : info[j][1] = t})]

rewriteReuse(g, c) ==
    LET n     == g[c]
        fresh == FlattenSeq([k \in DOMAIN n.info |->
                   [j \in DOMAIN n.info[k][2] |->
                      getProvenanceAttrName(n.info[k][1], FreshCount(n.info, k), n.info[k][2][j])]])
    IN  WithInfo(Attach(g, createProjOnAttrsByName(g, c, NormalNames(n) \o ProvNames(n),
                                                   NormalNames(n) \o fresh)),
                 n.info)

-----------------------------------------------------------------------------
(***************************************************************************)
(* The analyser hands over an operator graph, built from its leaves up.    *)
(***************************************************************************)
Init ==
    /\ db \in Databases
    /\ query = << >>
    /\ phase = "analyze"
    /\ stack = << >>
    /\ graph = << >>
    /\ opToRewrittenOp = << >>
    /\ provCounts = [t \in ProvPrefixes |-> -1]

(***************************************************************************)
(* The queries left out, on which the rewrite is known to go wrong.        *)
(***************************************************************************)
IsSet(o, hows) == o.type = "Set" /\ o.how \in hows
IsJoin(o, how) == o.type = "Join" /\ o.how = how

\* An operator that asks for table information over a limit, whose rewriting
\* has none.
LimitOk(q, o) ==
    \A k \in DOMAIN o.in :
        q[q[o.in[k]].core].type = "Limit" => o.type \in {"Limit", "DuplicateRemoval"}

\* An operator that does not read its input by position over an intersection.
IntersectionOk(q, o) ==
    \A k \in DOMAIN o.in :
        IsSet(q[q[o.in[k]].core], {"INTERSECTION"}) =>
            o.type \in {"Projection", "Aggregation", "DuplicateRemoval"}

\* Rows with NULLs where the rewrite joins on all attributes by equality.
NullsOk(q, o) ==
    o.type = "Limit" \/ IsSet(o, {"INTERSECTION"}) =>
        \A k \in DOMAIN o.in : \A row \in ToSet(q[o.in[k]].rel) : ~ Contains(row, Null)

\* A union or difference whose right input reuses the left one.
SharingOk(q, o) ==
    IsSet(o, {"UNION", "DIFFERENCE"}) =>
        \A k \in q[o.in[2]].below : q[k].core # q[o.in[1]].core

\* A difference or an inner join that takes a name for never NULL which is
\* so in one input only.
NotNullOk(q, o) ==
    LET l == q[o.in[1]]
        r == q[o.in[2]]
    IN  /\ IsSet(o, {"DIFFERENCE"}) =>
              renameAttrsInSet(r.schema, l.schema, r.notNull) \subseteq l.notNull
        /\ IsJoin(o, "INNER") =>
              \A name \in ToSet(l.schema) \intersect ToSet(r.schema) :
                  name \in l.notNull <=> name \in r.notNull

InScope(q, o) ==
    /\ "limit" \in Admit \/ LimitOk(q, o)
    /\ "intersection" \in Admit \/ IntersectionOk(q, o)
    /\ "nulls" \in Admit \/ NullsOk(q, o)
    /\ "sharing" \in Admit \/ SharingOk(q, o)
    /\ "not null" \in Admit \/ NotNullOk(q, o)

Unused(q) == {i \in DOMAIN q : \A j \in DOMAIN q : ~ Contains(q[j].in, i)}

addOperator ==
    /\ phase = "analyze"
    /\ Len(query) < MaxOps
    /\ \E o \in NewOperators(query) :
         /\ InScope(query, o)
         /\ query' = Append(query, Complete(query, o, db))
    /\ Len(query'[Len(query')].rel) <= MaxRows
    /\ Cardinality(Unused(query')) <= MaxOps - Len(query') + 1
    /\ UNCHANGED << db, phase, stack, graph, opToRewrittenOp, provCounts >>

rewritePI_CS ==
    /\ phase = "analyze"
    /\ Cardinality(Unused(query)) = 1
    /\ phase' = "rewrite"
    /\ stack' = << [op |-> Len(query), ins |-> << >>] >>
    /\ opToRewrittenOp' = [i \in DOMAIN query |-> 0]
    /\ UNCHANGED << db, query, graph, provCounts >>

\* The innermost call: its operator and the inputs it has rewritten.
Top == stack[Len(stack)]
Op == query[Top.op]
NextInput == Op.in[Len(Top.ins) + 1]
HasInputsLeft == phase = "rewrite" /\ Len(Top.ins) < Len(Op.in)

rewriteInput ==
    /\ HasInputsLeft
    /\ opToRewrittenOp[NextInput] = 0
    /\ stack' = Append(stack, [op |-> NextInput, ins |-> << >>])
    /\ UNCHANGED << db, query, phase, graph, opToRewrittenOp, provCounts >>

\* copyProvInfo and concatProvInfos assert that the input has the property.
InfoMissing(nodes) == \E k \in DOMAIN nodes : graph[nodes[k]].info = << >>

reuseRewrittenOp ==
    /\ HasInputsLeft
    /\ opToRewrittenOp[NextInput] # 0
    /\ LET c == opToRewrittenOp[NextInput]
           g == rewriteReuse(graph, c)
       IN  IF InfoMissing(<< c >>)
           THEN phase' = "failed" /\ UNCHANGED << stack, graph, provCounts >>
           ELSE /\ graph' = g
                /\ provCounts' = ReuseCounts(graph[c].info)
                /\ stack' = [stack EXCEPT ![Len(stack)].ins = Append(@, Len(g))]
                /\ UNCHANGED phase
    /\ UNCHANGED << db, query, opToRewrittenOp >>

\* All inputs are rewritten: the rewrite of the operator itself.
Ready(types) == /\ phase = "rewrite"
                /\ Len(Top.ins) = Len(Op.in)
                /\ Op.type \in types

\* setRewrittenOp and return; the outermost call returns to rewritePI_CS,
\* where switchSubtrees gives the new root the parents of the old one.
Return(g, node) ==
    LET rest == SubSeq(stack, 1, Len(stack) - 1)
    IN  /\ opToRewrittenOp' = [opToRewrittenOp EXCEPT ![Top.op] = node]
        /\ IF rest = << >>
           THEN /\ phase' = "done"
                /\ graph' = [g EXCEPT ![node].parents = << >>]
                /\ stack' = << >>
           ELSE /\ graph' = g
                /\ stack' = [rest EXCEPT ![Len(rest)].ins = Append(@, node)]
                /\ UNCHANGED phase

increaseRefCount(prefix) == [provCounts EXCEPT ![prefix] = @ + 1]

rewriteLeafOp ==
    /\ Ready({"TableAccess", "ConstRel"})
    /\ LET prefix == IF Op.type = "TableAccess" THEN Op.how ELSE "query"
           counts == increaseRefCount(prefix)
           g == IF Op.type = "TableAccess"
                THEN rewriteTableAccess(graph, Op, counts[prefix])
                ELSE rewriteConstRel(graph, Op, counts[prefix])
       IN  /\ provCounts' = counts
           /\ Return(g, Len(g))
    /\ UNCHANGED << db, query >>

\* DuplicateRemoval is dropped: its rewritten input stands for it.
rewriteDuplicateRemOp ==
    /\ Ready({"DuplicateRemoval"})
    /\ Return(graph, Top.ins[1])
    /\ UNCHANGED << db, query, provCounts >>

rewriteLimitOp ==
    /\ Ready({"Limit"})
    /\ LET g == rewriteLimit(graph, Op, Top.ins) IN Return(g, Len(g))
    /\ UNCHANGED << db, query, provCounts >>

Rewritten(o, ins) ==
    CASE o.type \in {"Selection", "Order"} -> rewriteSameSchema(graph, o, ins)
      [] o.type = "Projection"             -> rewriteProjection(graph, o, ins)
      [] o.type = "Aggregation"            -> rewriteAggregation(graph, o, ins)
      [] o.type = "Join"                   -> rewriteJoin(graph, o, ins)
      [] o.type = "Set"                    -> rewriteSet(graph, o, ins)

rewriteOp ==
    /\ Ready({"Selection", "Order", "Projection", "Aggregation", "Join", "Set"})
    /\ IF InfoMissing(Top.ins)
       THEN phase' = "failed" /\ UNCHANGED << stack, graph, opToRewrittenOp >>
       ELSE LET g == Rewritten(Op, Top.ins) IN Return(g, Len(g))
    /\ UNCHANGED << db, query, provCounts >>

Next ==
    \/ addOperator \/ rewritePI_CS \/ rewriteInput \/ reuseRewrittenOp
    \/ rewriteLeafOp \/ rewriteDuplicateRemOp \/ rewriteLimitOp \/ rewriteOp

Spec == Init /\ [][Next]_vars

-----------------------------------------------------------------------------
RewrittenOps == {i \in DOMAIN opToRewrittenOp : opToRewrittenOp[i] # 0}
NodeOf(i) == graph[opToRewrittenOp[i]]

\* The values of a row of operator i's rewriting that stand for the row of
\* the operator itself.
NormalPart(i, row) ==
    [k \in DOMAIN query[i].schema |-> row[NormalPos(NodeOf(i))[k]]]

\* The rewritten query returns the rows of the query and no other, once the
\* provenance attributes are left out: pi_cs_main.c adds columns to a result
\* and repeats rows, but loses and invents none, at any operator.
ResultPreserved ==
    \A i \in RewrittenOps :
        {NormalPart(i, row) : row \in ToSet(NodeOf(i).rel)} = ToSet(query[i].rel)

\* The base table accesses below an operator, counted along every path.
Accesses ==
    LET n[i \in DOMAIN query] ==
          IF query[i].in = << >> THEN 1
          ELSE FoldLeft(+, 0, [k \in DOMAIN query[i].in |-> n[query[i].in[k]]])
    IN  n

\* The columns of the k-th access of a node.
AccessCols(n, k) ==
    LET width(j) == Len(n.info[j][2])
        before == FoldLeft(+, 0, [j \in 1 .. k - 1 |-> width(j)])
    IN  SubSeq(n.provAttrs, before + 1, before + width(k))

\* The rows of the k-th access that the rewriting names for row t of i.
Witnesses(i, t, k) ==
    LET cols == AccessCols(NodeOf(i), k)
        rows == SelectSeq(NodeOf(i).rel, LAMBDA row : NormalPart(i, row) = t)
    IN  Distinct(SelectSeq(Project(rows, cols), LAMBDA w : w # NullRow(Len(cols))))

\* Operator i evaluated with the k-th access below it reading base[k].
EvalOn(i, base) ==
    LET val[x \in (1 .. i) \X (0 .. Len(base))] ==
          LET o == query[x[1]]
              skip(k) == IF k = 1 THEN 0 ELSE Accesses[o.in[1]]
          IN  IF o.in = << >> THEN base[x[2] + 1]
              ELSE Eval(o, [k \in DOMAIN o.in |-> val[<< o.in[k], x[2] + skip(k) >>]], db)
    IN  val[<< i, 0 >>]

BaseRows(table) == IF table = "query" THEN {ConstRow} ELSE ToSet(db[table])

\* An aggregation without GROUP BY makes a row of an empty input.  Above it,
\* an operator that takes the absence of rows for an answer has an answer
\* that no set of base rows explains.
IsGlobalCount(o) == o.type = "Aggregation" /\ o.pos = << >>
TestsAbsence(o) ==
    IsGlobalCount(o) \/ IsJoin(o, "LEFT_OUTER") \/ IsSet(o, {"DIFFERENCE"})
Explainable(i) ==
    \A k \in query[i].below :
        TestsAbsence(query[k]) =>
            \A j \in query[k].below \ {k} : ~ IsGlobalCount(query[j])

\* What the provenance attributes of a row name are rows of the tables the
\* query reads, and they are enough: the query over these rows alone still
\* returns the row.  This is what PI-CS provenance promises of every operator
\* that the rewrite rules of pi_cs_main.c are composed from.
ProvenanceSuffices ==
    \A i \in RewrittenOps :
        NodeOf(i).info # << >> /\ Explainable(i) =>
            \A t \in ToSet(query[i].rel) :
                LET base == [k \in 1 .. Accesses[i] |-> Witnesses(i, t, k)]
                IN  /\ \A k \in DOMAIN base :
                          ToSet(base[k]) \subseteq BaseRows(NodeOf(i).info[k][1])
                    /\ Contains(EvalOn(i, base), t)

\* The positions of the provenance attributes, after all normal ones.
ProvAttrsLast(n) ==
    n.provAttrs = IntSeq(Len(n.schema) - Len(n.provAttrs) + 1, Len(n.schema))

\* Every operator that the rewrite builds passes the schema check of
\* query_operator_model_checker.c (as many attributes as columns; a set
\* operator and an order with the schema of their left input), and the
\* provenance attributes of a rewritten operator are its last ones, which is
\* where the rewrite rules of its parents look for them.
SchemaConsistent ==
    /\ \A k \in DOMAIN graph :
          LET n == graph[k]
          IN  /\ Len(n.schema) = n.width
              /\ n.type = "Set" => /\ n.schema = graph[n.inputs[1]].schema
                                   /\ n.width = graph[n.inputs[2]].width
              /\ n.type = "Order" => n.schema = graph[n.inputs[1]].schema
    /\ \A i \in RewrittenOps : ProvAttrsLast(NodeOf(i))

\* The nodes the rewritten query consists of.
Live ==
    LET root == opToRewrittenOp[Len(query)]
        live[k \in DOMAIN graph] ==
            \/ k = root
            \/ \E m \in k + 1 .. Len(graph) : Contains(graph[m].inputs, k) /\ live[m]
    IN  {k \in DOMAIN graph : live[k]}

\* In the rewritten query every input has the operator among its parents and
\* every parent has the operator among its inputs (checkParentChildLinks of
\* query_operator_model_checker.c), also where the rewriting of a shared
\* operator is reused.  The optimiser merges an operator into its input when
\* the input has one parent only.
ParentLinks ==
    phase = "done" =>
        \A n \in Live :
            /\ \A c \in ToSet(graph[n].inputs) : Contains(graph[c].parents, n)
            /\ \A p \in ToSet(graph[n].parents) : Contains(graph[p].inputs, n)

\* No two provenance attributes of a rewritten operator have the same name,
\* however often a table is read and an operator reused: the counts of
\* increaseRefCount tell the accesses apart.
ProvNamesUnique ==
    \A i \in RewrittenOps : IsInjective(ProvNames(NodeOf(i)))

\* An attribute that computeNotNullProp takes for never NULL is not NULL in
\* any row: rewritePI_CSAggregation joins on such attributes by equality,
\* which a NULL group would not survive.
NotNullSound ==
    \A i \in DOMAIN query : \A row \in ToSet(query[i].rel) :
        \A k \in DOMAIN row : query[i].schema[k] \in query[i].notNull => row[k] # Null

\* No rewrite rule fails the assertion of copyProvInfo and concatProvInfos
\* that the rewritten inputs have table information.
AssertionsHold == phase # "failed"

-----------------------------------------------------------------------------
(***************************************************************************)
(* The inductive invariant: the query, the call stack and the graph.       *)
(***************************************************************************)
Leaves == {"TableAccess", "ConstRel"}
OpTypes == Leaves \union Unary \union {"Join", "Set"}
Arity(type) == IF type \in Leaves THEN 0 ELSE IF type \in Unary THEN 1 ELSE 2

IsSeq(s) == s \in Seq(ToSet(s))

\* Operator i has its inputs before it; below and core follow them.
OperatorOk(q, i) ==
    LET o == q[i]
    IN  /\ o.type \in OpTypes
        /\ o.in \in Seq(1 .. i - 1) /\ Len(o.in) = Arity(o.type)
        /\ o.type = "TableAccess" => o.how \in Tables
        /\ o.type = "Join" => o.how \in JoinTypes
        /\ o.type = "Set" => o.how \in SetOps
        /\ o.type \in Unary \union {"ConstRel"} => o.how = ""
        /\ o.below \subseteq 1 .. i /\ i \in o.below
        /\ \A k \in o.below : q[k].below \subseteq o.below
        /\ \A j \in DOMAIN o.in : q[o.in[j]].below \subseteq o.below
        /\ o.core = IF o.type = "DuplicateRemoval" THEN q[o.in[1]].core ELSE i
        /\ o.core \in 1 .. i /\ q[o.core].type # "DuplicateRemoval"
        /\ InScope(q, o)

QueryOk(q) == IsSeq(q) /\ \A i \in DOMAIN q : OperatorOk(q, i)

\* A call waits for the rewriting of its next input, which is the call above.
FrameOk(k) ==
    LET f == stack[k]
        in == query[f.op].in
    IN  /\ Len(f.ins) <= Len(in)
        /\ k < Len(stack) => Len(f.ins) < Len(in) /\ stack[k + 1].op = in[Len(f.ins) + 1]

\* A graph of nodes, each link of which both ends know.
NodeFields == {"type", "inputs", "parents", "schema", "provAttrs", "info", "width", "rel"}
IsNode(n) == DOMAIN n = NodeFields /\ IsSeq(n.inputs) /\ IsSeq(n.parents) /\ IsSeq(n.info)
GraphOk(g) == IsSeq(g) /\ \A k \in DOMAIN g : IsNode(g[k])
LinksOk(g) ==
    \A n \in DOMAIN g :
        /\ \A c \in ToSet(g[n].inputs) : c \in DOMAIN g /\ Contains(g[c].parents, n)
        /\ \A p \in ToSet(g[n].parents) : p \in DOMAIN g /\ Contains(g[p].inputs, n)

ControlInv ==
    /\ phase \in {"analyze", "rewrite", "done", "failed"}
    /\ QueryOk(query) /\ GraphOk(graph)
    /\ stack \in Seq([op : DOMAIN query, ins : Seq(DOMAIN graph)])
    /\ \A k \in DOMAIN stack : FrameOk(k)
    /\ phase = "analyze" => stack = << >> /\ graph = << >> /\ opToRewrittenOp = << >>
    /\ phase # "analyze" => /\ query # << >>
                            /\ opToRewrittenOp \in [DOMAIN query -> {0} \union DOMAIN graph]
    /\ phase = "rewrite" => stack # << >>
    /\ phase = "done" => stack = << >>
    /\ provCounts \in [ProvPrefixes -> Int]

\* The operators with the node that stands for them: those that are rewritten
\* and the inputs of the active calls.
Bindings ==
    {<< i, opToRewrittenOp[i] >> : i \in RewrittenOps}
    \union UNION {{<< query[stack[k].op].in[j], stack[k].ins[j] >> : j \in DOMAIN stack[k].ins} :
                    k \in DOMAIN stack}

\* Only what stands for a limit has no table information.  An input that
\* stands for a limit is the only one of its call, and so on down the stack,
\* so that nothing has been rewritten then that could be reused.
IsLimit(i) == query[query[i].core].type = "Limit"
LimitInv ==
    /\ \A b \in Bindings : graph[b[2]].info = << >> => IsLimit(b[1])
    /\ \A j, k \in DOMAIN stack : j < k /\ IsLimit(stack[k].op) => IsLimit(stack[j].op)
    /\ stack # << >> /\ RewrittenOps # {} => \E k \in DOMAIN stack : stack[k].ins # << >>

\* An active call works on what the calls below it still wait for; operators
\* that one node stands for have one core; the node of an input that no other
\* input of the call can reach has no parents yet.
NextIn(k) == query[stack[k].op].in[Len(stack[k].ins) + 1]
Exclusive(o) == o.type \in Unary \/ IsSet(o, {"UNION", "DIFFERENCE"})
LinkInv ==
    /\ \A j, k \in DOMAIN stack : j < k => stack[k].op \in query[NextIn(j)].below
    /\ \A b, c \in Bindings : b[2] = c[2] => query[b[1]].core = query[c[1]].core
    /\ \A k \in DOMAIN stack : Exclusive(query[stack[k].op]) =>
          \A j \in DOMAIN stack[k].ins : graph[stack[k].ins[j]].parents = << >>
    /\ LinksOk(graph)

(***************************************************************************)
(* Names, values and what the operators of a query compute.  A row has a   *)
(* value for each attribute.                                               *)
(***************************************************************************)
\* The strings of the model, with those the rules write down.
Words == STRING \union {"k", "count", "query"}
AttrNames == {""} \X Nat \X Seq(Words) \X Seq(Nat)
ProvAttrNames == ProvPrefixes \X Int \X Seq(Words) \X Seq(Nat)
NodeNames == ({"", "_P_SIDE_", "__"} \union ProvPrefixes) \X Int \X Seq(Words) \X Seq(Nat)
Values == Value \union {Null} \union Nat
Relations(n) == Seq([1 .. n -> Values])

PosOk(q, o) ==
    LET w(k) == Width(q, o.in[k])
    IN  /\ o.type = "Selection" => o.pos \in Seq(1 .. w(1)) /\ Len(o.pos) = 1
        /\ o.type = "Projection" => o.pos \in Seq(1 .. w(1)) \ {<< >>}
        /\ o.type = "Aggregation" => o.pos \in Seq(1 .. w(1))
        /\ o.type = "Join" => o.pos \in (1 .. w(1)) \X (1 .. w(2)) /\ o.rightWidth = w(2)
        /\ o.type = "Set" => w(1) = w(2)

SchemaOk(q, o) ==
    LET w(k) == Width(q, o.in[k])
    IN  /\ o.schema \in Seq(AttrNames) \ {<< >>} /\ IsInjective(o.schema)
        /\ o.type \in Leaves => IsInjective([k \in DOMAIN o.schema |-> o.schema[k][3]])
        /\ o.type = "Projection" => Len(o.schema) = Len(o.pos)
        /\ o.type = "Aggregation" => Len(o.schema) = Len(o.pos) + 1
        /\ o.type = "Join" => Len(o.schema) = w(1) + w(2)
        /\ o.type \in {"Selection", "DuplicateRemoval", "Order", "Limit", "Set"} =>
              o.schema = q[o.in[1]].schema

NotNullIn(o) ==
    \A row \in ToSet(o.rel) : \A k \in DOMAIN row : o.schema[k] \in o.notNull => row[k] # Null

DataOk(q, o) ==
    /\ PosOk(q, o) /\ SchemaOk(q, o)
    /\ o.rel \in Relations(Len(o.schema))
    /\ o.rel = Eval(o, [k \in DOMAIN o.in |-> q[o.in[k]].rel], db)
    /\ o.notNull \subseteq ToSet(o.schema)

DataInv == \A i \in DOMAIN query : DataOk(query, query[i])

\* A node that has as many names as columns, a set operator and an order with
\* the schema of their left input.
NodeOk(g, n) ==
    /\ IsSeq(n.schema) /\ n.width = Len(n.schema)
    /\ n.type = "Set" => /\ n.inputs[1] \in DOMAIN g /\ n.inputs[2] \in DOMAIN g
                         /\ n.schema = g[n.inputs[1]].schema
                         /\ n.width = g[n.inputs[2]].width
    /\ n.type = "Order" => n.inputs[1] \in DOMAIN g /\ n.schema = g[n.inputs[1]].schema
NodesOk(g) == \A k \in DOMAIN g : NodeOk(g, g[k])

\* A node whose attributes are a, then the provenance attributes b.
Parts(n, a, b) ==
    /\ a \in Seq(NodeNames) /\ b \in Seq(NodeNames) /\ n.schema = a \o b
    /\ n.provAttrs = IntSeq(Len(a) + 1, Len(a) + Len(b))
    /\ n.width = Len(a) + Len(b) /\ n.rel \in Relations(n.width)

\* What stands for operator o has the attributes of o first; only what stands
\* for an intersection has others before the provenance attributes.
Shaped(n, o) ==
    LET a == NormalNames(n)
        b == ProvNames(n)
    IN  /\ Parts(n, a, b) /\ a \in Seq(AttrNames) /\ b \in Seq(ProvAttrNames)
        /\ Len(o.schema) <= Len(a) /\ \A k \in DOMAIN o.schema : a[k] = o.schema[k]
        /\ IsSet(query[o.core], {"INTERSECTION"}) \/ Len(o.schema) = Len(a)

\* The table information has a path for each provenance attribute.
Paths(info) == [k \in DOMAIN info |-> info[k][2]]
InfoOk(n) ==
    /\ n.info \in Seq(ProvPrefixes \X Seq(Seq(Words)))
    /\ n.info # << >> => Len(FlattenSeq(Paths(n.info))) = Len(n.provAttrs)

ShapeInv ==
    /\ NodesOk(graph)
    /\ \A b \in Bindings : Shaped(graph[b[2]], query[b[1]]) /\ InfoOk(graph[b[2]])

\* In these attributes it has the rows of the operator.
Cut(rel, w) == {[k \in 1 .. w |-> row[k]] : row \in ToSet(rel)}
SameRows(n, o) == Cut(n.rel, Len(o.schema)) = ToSet(o.rel)
RowsInv == \A b \in Bindings : SameRows(graph[b[2]], query[b[1]])

\* The names of its provenance attributes differ, none has a count that is
\* still to come, and the attributes an access records have different paths:
\* they are what a later reuse names apart.
Counted(n, counts) ==
    /\ IsInjective(ProvNames(n))
    /\ \A name \in ToSet(ProvNames(n)) : name[2] <= counts[name[1]]
    /\ \A k \in DOMAIN n.info : IsInjective(n.info[k][2])

\* Two inputs that active calls have rewritten have no such name in common,
\* also where one operator of the query is both.
Apart(m, n) == ToSet(ProvNames(m)) \intersect ToSet(ProvNames(n)) = {}
NamesInv ==
    /\ \A b \in Bindings : Counted(graph[b[2]], provCounts)
    /\ \A k, l \in DOMAIN stack : \A i \in DOMAIN stack[k].ins, j \in DOMAIN stack[l].ins :
          << k, i >> # << l, j >> => Apart(graph[stack[k].ins[i]], graph[stack[l].ins[j]])
=============================================================================
