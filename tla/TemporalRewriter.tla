-------------------------- MODULE TemporalRewriter --------------------------
(***************************************************************************)
(* The rewriter for temporal queries, temporal_rewriter.c: a query over    *)
(* tables whose rows carry an interval of validity is turned into an       *)
(* ordinary query over the tables with their interval columns, so that the *)
(* result at any point in time is the query's result over the rows valid   *)
(* then.                                                                   *)
(*                                                                         *)
(* A query is a sequence of operators, each after its inputs.  A relation  *)
(* is a sequence of rows and a row a tuple of values; a row with an        *)
(* interval ends in its begin and its end.  The plan a rule builds is      *)
(* represented by what the backend computes for it, and the window         *)
(* functions of the plan by the sets they run over.                        *)
(*                                                                         *)
(* Abstracted: an attribute name is a number; a condition compares a       *)
(* column with a constant or with a column of the other input; a time      *)
(* domain is a range of numbers; data types, casts and the renaming of     *)
(* clashing names.  Averages are counted in twelfths.                      *)
(***************************************************************************)
EXTENDS Integers, Sequences, SequencesExt, FiniteSets, FiniteSetsExt, Bags

CONSTANTS
    Databases,      \* [rel, attrs, keys]: relations, names and keys by table
    Conditions,     \* [col, val] of a selection
    Projections,    \* sequences of columns
    JoinConditions, \* sequences of [l, r], columns compared; none: a cross product
    Aggregations,   \* [aggrs, groupBy], functions [f, col] and columns
    TimeMin, TimeMax,   \* the bounds of the time domain
    MaxOps,         \* bound on the operators of a query
    Admit,          \* the known limits a run leaves in: see Scope
    Null            \* model value

ASSUME TemporalAssumption ==
    /\ TimeMin \in Int /\ TimeMax \in Int /\ TimeMin < TimeMax
    /\ MaxOps \in Nat
    /\ Admit \subseteq {"avg before", "keyed groups"}

VARIABLES
    db,             \* the tables, with the keys the catalog declares
    aggWithNorm,    \* option TEMPORAL_AGG_WITH_NORM
    useCoalesce,    \* option TEMPORAL_USE_COALSECE
    ops,            \* the operators of the query, the last one on top
    setCoalesce,    \* the top operator is taken to return no duplicates
    marks,          \* the operators to normalize, and on which columns
    opToRewrOp,     \* what the operators rewritten so far return
    result,         \* the answer of the rewritten query
    phase           \* "query", "rewrite" or "done"

vars == << db, aggWithNorm, useCoalesce, ops, setCoalesce, marks, opToRewrOp, result, phase >>
asked == << db, aggWithNorm, useCoalesce, ops >>

Time == TimeMin .. TimeMax - 1

Init ==
    /\ db \in Databases
    /\ aggWithNorm \in BOOLEAN
    /\ useCoalesce \in BOOLEAN
    /\ ops = << >>
    /\ setCoalesce = FALSE
    /\ marks = << >>
    /\ opToRewrOp = << >>
    /\ result = << >>
    /\ phase = "query"

-----------------------------------------------------------------------------
(* The backend's operators, on relations with or without intervals.        *)

sqlEqual(v, w) == v # Null /\ w # Null /\ v = w
onColumns(row, cols) == [k \in DOMAIN cols |-> row[cols[k]]]

listOf(S) == FoldSet(LAMBDA row, rows : Append(rows, row), << >>, S)

knownValues(rel, col) ==
    SelectSeq([k \in DOMAIN rel |-> rel[k][col]], LAMBDA v : v # Null)
sqlSum(values) ==
    LET known == SelectSeq(values, LAMBDA v : v # Null)
    IN  IF known = << >> THEN Null ELSE FoldLeft(LAMBDA s, v : s + v, 0, known)
sqlMinus(v, w) == IF v = Null \/ w = Null THEN Null ELSE v - w
sqlDivide(sum, count) == IF sum = Null \/ count = 0 THEN Null ELSE (12 * sum) \div count

aggregateOf(fun, rel) ==
    CASE fun.f = "COUNT(1)" -> Len(rel)
      [] fun.f = "COUNT"    -> Len(knownValues(rel, fun.col))
      [] fun.f = "SUM"      -> sqlSum(knownValues(rel, fun.col))
      [] fun.f = "AVG"      -> LET known == knownValues(rel, fun.col)
                               IN  sqlDivide(sqlSum(known), Len(known))
      [] fun.f = "MIN"      -> LET known == ToSet(knownValues(rel, fun.col))
                               IN  IF known = {} THEN Null ELSE Min(known)

\* Without GROUP BY there is one group, an empty one too.
aggregate(rel, aggrs, groupBy) ==
    LET groups == IF groupBy = << >> THEN {<< >>}
                  ELSE {onColumns(row, groupBy) : row \in ToSet(rel)}
        rowFor(g) == LET members == SelectSeq(rel, LAMBDA row : onColumns(row, groupBy) = g)
                     IN  [k \in DOMAIN aggrs |-> aggregateOf(aggrs[k], members)] \o g
        order == listOf(groups)
    IN  [k \in DOMAIN order |-> rowFor(order[k])]

joins(on, l, r) == \A k \in DOMAIN on : sqlEqual(l[on[k].l], r[on[k].r])

asBag(rel) == [row \in ToSet(rel) |-> Cardinality({k \in DOMAIN rel : rel[k] = row})]
replicate(counts) ==
    LET order == listOf(DOMAIN counts)
    IN  FlattenSeq([k \in DOMAIN order |-> [j \in 1..counts[order[k]] |-> order[k]]])
exceptAll(left, right) == replicate(asBag(left) (-) asBag(right))

evaluate(o, ins) ==
    CASE o.kind = "selection"   -> SelectSeq(ins[1], LAMBDA row : sqlEqual(row[o.cond.col], o.cond.val))
      [] o.kind = "projection"  -> [k \in DOMAIN ins[1] |-> onColumns(ins[1][k], o.cols)]
      [] o.kind = "join"        -> FlattenSeq([k \in DOMAIN ins[1] |->
                                      LET l == ins[1][k]
                                          matches == SelectSeq(ins[2], LAMBDA r : joins(o.on, l, r))
                                      IN  [j \in DOMAIN matches |-> l \o matches[j]]])
      [] o.kind = "union"       -> ins[1] \o ins[2]
      [] o.kind = "difference"  -> exceptAll(ins[1], ins[2])
      [] o.kind = "distinct"    -> listOf(ToSet(ins[1]))
      [] o.kind = "aggregation" -> aggregate(ins[1], o.aggrs, o.groupBy)

-----------------------------------------------------------------------------
(* Rows with intervals and the query over the rows valid at a time.        *)

begin(row) == row[Len(row) - 1]
end(row) == row[Len(row)]
values(row) == SubSeq(row, 1, Len(row) - 2)

snapshot(rel, t) ==
    LET valid == SelectSeq(rel, LAMBDA row : begin(row) <= t /\ t < end(row))
    IN  [k \in DOMAIN valid |-> values(valid[k])]

snapshotQuery(t) ==
    LET answer[i \in DOMAIN ops] ==
            IF ops[i].kind = "source" THEN snapshot(db.rel[ops[i].table], t)
            ELSE evaluate(ops[i], [k \in DOMAIN ops[i].ins |-> answer[ops[i].ins[k]]])
    IN  answer[Len(ops)]

-----------------------------------------------------------------------------
(* The query a user asks, and what is known of its operators.              *)

source(t) == [kind |-> "source", ins |-> << >>, table |-> t]

\* The attribute names of each operator; an aggregation names its columns anew
\* (AGGR_0, .., GROUP_0, ..).
attrNames(os) ==
    LET names[i \in DOMAIN os] ==
            LET o == os[i] IN
            CASE o.kind = "source"      -> db.attrs[o.table]
              [] o.kind = "projection"  -> onColumns(names[o.ins[1]], o.cols)
              [] o.kind = "join"        -> names[o.ins[1]] \o names[o.ins[2]]
              [] o.kind = "aggregation" -> [k \in 1 .. Len(o.aggrs) + Len(o.groupBy) |-> 10 * i + k]
              [] OTHER                  -> names[o.ins[1]]
    IN  names

\* The keys of each operator.  A table has at most one, so removeContainedKeys
\* has nothing to do.
computeKeyProp(os) ==
    LET names == attrNames(os)
        keys[i \in DOMAIN os] ==
            LET o == os[i]
                out == ToSet(names[i]) IN
            CASE o.kind = "source"      -> db.keys[o.table]
              [] o.kind = "projection"  -> {key \in keys[o.ins[1]] : key \subseteq out}
              [] o.kind = "join"        -> {l \union r : l \in keys[o.ins[1]], r \in keys[o.ins[2]]}
              [] o.kind = "union"       -> {}
              [] o.kind = "aggregation" -> IF o.groupBy = << >> THEN {out}
                                           ELSE {key \cap out : key \in keys[o.ins[1]]}
              [] OTHER                  -> keys[o.ins[1]]
    IN  keys

isSetCoalesceSufficient(os) == computeKeyProp(os)[Len(os)] # {}

hasMinMax(o) == \E k \in DOMAIN o.aggrs : o.aggrs[k].f = "MIN"
normalizesInput(o) == o.kind = "aggregation" /\ (~aggWithNorm \/ hasMinMax(o))

\* The columns that may be NULL although no table has a NULL.
nullable(os) ==
    LET cols[i \in DOMAIN os] ==
            LET o == os[i] IN
            CASE o.kind = "source"      -> {}
              [] o.kind = "projection"  -> {k \in DOMAIN o.cols : o.cols[k] \in cols[o.ins[1]]}
              [] o.kind = "join"        -> cols[o.ins[1]] \union
                     {k + Len(attrNames(os)[o.ins[1]]) : k \in cols[o.ins[2]]}
              [] o.kind = "union"       -> cols[o.ins[1]] \union cols[o.ins[2]]
              [] o.kind = "aggregation" ->
                     {k \in DOMAIN o.aggrs : o.groupBy = << >> /\ o.aggrs[k].f \notin {"COUNT", "COUNT(1)"}}
                     \union {k + Len(o.aggrs) : k \in {k \in DOMAIN o.groupBy : o.groupBy[k] \in cols[o.ins[1]]}}
              [] OTHER                  -> cols[o.ins[1]]
    IN  cols

wellFormed(o) ==
    LET names == attrNames(ops)
        arity(k) == Len(names[o.ins[k]])
    IN  CASE o.kind = "selection"   -> o.cond.col <= arity(1)
          [] o.kind = "projection"  -> ToSet(o.cols) \subseteq 1..arity(1)
          [] o.kind = "join"        ->
                 /\ ToSet(names[o.ins[1]]) \cap ToSet(names[o.ins[2]]) = {}
                 /\ \A k \in DOMAIN o.on : o.on[k].l <= arity(1) /\ o.on[k].r <= arity(2)
          [] o.kind \in {"union", "difference"} -> arity(1) = arity(2)
          [] o.kind = "aggregation" ->
                 /\ ToSet(o.groupBy) \subseteq 1..arity(1)
                 /\ \A k \in DOMAIN o.aggrs : o.aggrs[k].col <= arity(1)
          [] OTHER -> TRUE

used(i) == \E j \in DOMAIN ops : \E k \in DOMAIN ops[j].ins : ops[j].ins[k] = i
\* PROP_TEMP_NORMALIZE_NEURAL_AGG_ELEM is set on the operator of the query, and
\* only these rules start from a copy of it.
keepsProperties(o) == o.kind \in {"source", "selection", "projection", "union"} \/ normalizesInput(o)

\* The queries the rewriter is meant for, less the ones known to go wrong.
Scope(o) ==
    /\ o.kind = "distinct" => aggWithNorm
    /\ \A k \in DOMAIN o.ins : \A j \in DOMAIN ops :
          normalizesInput(ops[j]) => o.ins[k] # ops[j].ins[1]
    /\ o.kind = "aggregation" =>
          /\ "avg before" \in Admit \/
                \A k \in 1 .. Len(o.aggrs) - 1 : o.aggrs[k].f # "AVG"
          /\ "keyed groups" \in Admit \/ o.groupBy = << >> \/
                computeKeyProp(ops)[o.ins[1]] = {}
          /\ LET unknown == nullable(ops)[o.ins[1]]
             IN  IF normalizesInput(o)
                 THEN /\ ToSet(o.groupBy) \cap unknown = {}
                      /\ ~used(o.ins[1])
                      /\ o.groupBy = << >> =>
                            /\ keepsProperties(ops[o.ins[1]])
                            /\ \A k \in DOMAIN o.aggrs : o.aggrs[k].f # "COUNT(1)"
                 ELSE \A k \in DOMAIN o.aggrs : o.aggrs[k].col \notin unknown

operators ==
    {source(t) : t \in DOMAIN db.rel} \union
    UNION {{[kind |-> "selection", ins |-> << i >>, cond |-> c] : c \in Conditions} \union
           {[kind |-> "projection", ins |-> << i >>, cols |-> p] : p \in Projections} \union
           {[kind |-> "aggregation", ins |-> << i >>, aggrs |-> a.aggrs, groupBy |-> a.groupBy] :
               a \in Aggregations} \union
           {[kind |-> "distinct", ins |-> << i >>]} : i \in DOMAIN ops} \union
    UNION {{[kind |-> "join", ins |-> << i, j >>, on |-> c] : c \in JoinConditions} \union
           {[kind |-> how, ins |-> << i, j >>] : how \in {"union", "difference"}} :
              i, j \in DOMAIN ops}

\* The parser and the translator: the query grows by one operator.
addOperator ==
    /\ phase = "query"
    /\ Len(ops) < MaxOps
    /\ \E o \in operators :
          /\ wellFormed(o)
          /\ Scope(o)
          /\ ops' = Append(ops, o)
    /\ UNCHANGED << db, aggWithNorm, useCoalesce, setCoalesce, marks, opToRewrOp, result, phase >>

-----------------------------------------------------------------------------
(* Marking and normalization.                                              *)

\* An aggregation that is not combined with normalization has its input
\* normalized on the columns it groups on.  A mark is the sequence of these
\* columns; no columns stand for the marker of an aggregation without GROUP BY.
addCoalescingAndNormalization ==
    LET marking(i) == {j \in DOMAIN ops : normalizesInput(ops[j]) /\ ops[j].ins[1] = i}
    IN  [i \in {i \in DOMAIN ops : marking(i) # {}} |-> ops[Max(marking(i))].groupBy]

rewriteImplicitTemporal ==
    /\ phase = "query" /\ ops # << >>
    /\ \A i \in 1 .. Len(ops) - 1 : used(i)
    /\ setCoalesce' = isSetCoalesceSufficient(ops)
    /\ marks' = addCoalescingAndNormalization
    /\ phase' = "rewrite"
    /\ UNCHANGED << asked, opToRewrOp, result >>

neutralRow(arity) == [k \in 1..arity |-> Null] \o << TimeMin, TimeMax >>

\* The first time in later, or otherwise.
nextOr(later, otherwise) == IF later = {} THEN otherwise ELSE Min(later)

\* Mutant: the ends of intervals are no change points.
changePointsOfBegins(rel, cols) == {<< begin(row), onColumns(row, cols) >> : row \in ToSet(rel)}
changePoints(rel, cols) ==
    UNION {{<< begin(row), onColumns(row, cols) >>, << end(row), onColumns(row, cols) >>} :
              row \in ToSet(rel)}

\* Split every row at the change points of its group.  A group whose value is
\* NULL joins with no change point.
addTemporalNormalization(rel, cols, neutral) ==
    LET rows == rel \o neutral
        points == changePoints(rows, cols)
        inside(row) == {p[1] : p \in {p \in points :
                            /\ \A k \in DOMAIN cols : sqlEqual(p[2][k], row[cols[k]])
                            /\ begin(row) <= p[1] /\ p[1] < end(row)}}
        pieces(row) == {values(row) \o << t, nextOr({u \in inside(row) : u > t}, end(row)) >> :
                            t \in inside(row)}
    IN  FlattenSeq([k \in DOMAIN rows |-> listOf(pieces(rows[k]))])

\* What temporalRewriteOperator does for every operator after its rule.
normalized(i, rel, arity) ==
    IF i \notin DOMAIN marks THEN rel
    ELSE LET neutral == IF marks[i] = << >> /\ keepsProperties(ops[i])
                        THEN << neutralRow(arity) >> ELSE << >>
         IN  addTemporalNormalization(rel, marks[i], neutral)

-----------------------------------------------------------------------------
(* The rewrite rules.                                                      *)

\* Two input rows meet when their intervals overlap, for the time they share.
overlap(l, r) == begin(l) < end(r) /\ begin(r) < end(l)
\* Mutant: a joined row keeps the interval of the left row.
joinLeftIntervals(on, left, right) ==
    FlattenSeq([k \in DOMAIN left |->
        LET l == left[k]
            matches == SelectSeq(right, LAMBDA r : joins(on, l, r) /\ overlap(l, r))
        IN  [j \in DOMAIN matches |-> values(l) \o values(matches[j]) \o << begin(l), end(l) >>]])
joinIntervals(on, left, right) ==
    FlattenSeq([k \in DOMAIN left |->
        LET l == left[k]
            matches == SelectSeq(right, LAMBDA r : joins(on, l, r) /\ overlap(l, r))
        IN  [j \in DOMAIN matches |->
                values(l) \o values(matches[j]) \o
                << Max({begin(l), begin(matches[j])}), Min({end(l), end(matches[j])}) >>]])

\* AVG is computed from a sum and a count, and the count of open intervals
\* comes last.
preAggregations(aggrs) ==
    FlattenSeq([k \in DOMAIN aggrs |->
        IF aggrs[k].f = "AVG"
        THEN << [f |-> "SUM", col |-> aggrs[k].col], [f |-> "COUNT(1)", col |-> 0] >>
        ELSE << aggrs[k] >>])
    \o << [f |-> "COUNT(1)", col |-> 0] >>

\* The aggregates of each group and interval, and without GROUP BY those of no
\* rows at all over the whole time domain.
preAggregated(rel, pre, groupBy, arity) ==
    LET ofNoRows == [k \in DOMAIN pre |-> IF pre[k].f = "SUM" THEN Null ELSE 0]
                    \o << TimeMin, TimeMax >>
    IN  aggregate(rel, pre, groupBy \o << arity + 1, arity + 2 >>)
        \o (IF groupBy = << >> THEN << ofNoRows >> ELSE << >>)

\* What the intervals of a group that begin up to a time point add up to, less
\* what those that end up to it do.  A window over both adds 0 for the others.
running(rows, k, ts) ==
    LET begun == SelectSeq(rows, LAMBDA row : begin(row) <= ts)
        ended == SelectSeq(rows, LAMBDA row : end(row) <= ts)
        win(these, others) == sqlSum([j \in DOMAIN these |-> these[j][k]]
                                     \o [j \in DOMAIN others |-> 0])
    IN  sqlMinus(win(begun, ended), win(ended, begun))

finalAggregate(aggrs, k, sums) ==
    LET avgsBefore == Cardinality({j \in 1 .. k - 1 : aggrs[j].f = "AVG"})
        pos == k + avgsBefore
    IN  CASE aggrs[k].f = "SUM" -> IF sums[Len(sums)] = 0 THEN Null ELSE sums[k]
          [] aggrs[k].f = "AVG" -> sqlDivide(sums[pos], sums[pos + 1])
          [] OTHER              -> sums[k]

\* The time points of a group bound the intervals of its results; without
\* open intervals there is a gap, which only counts without GROUP BY.
aggregationWithNormalization(rel, aggrs, groupBy, arity) ==
    LET pre == preAggregations(aggrs)
        t1 == preAggregated(rel, pre, groupBy, arity)
        group(row) == SubSeq(row, Len(pre) + 1, Len(row) - 2)
        rowsOf(g) == SelectSeq(t1, LAMBDA row : group(row) = g)
        points(g) == UNION {{begin(row), end(row)} : row \in ToSet(rowsOf(g))}
        isGap(sums) == LET open == sums[Len(aggrs) + 1] IN open = Null \/ open <= 0
        piece(g, ts) ==
            LET sums == [k \in DOMAIN pre |-> running(rowsOf(g), k, ts)]
                later == {u \in points(g) : u > ts}
            IN  IF later = {} \/ (groupBy # << >> /\ isGap(sums)) THEN {}
                ELSE {[k \in DOMAIN aggrs |-> finalAggregate(aggrs, k, sums)]
                      \o g \o << ts, Min(later) >>}
    IN  listOf(UNION {UNION {piece(g, ts) : ts \in points(g)} :
                         g \in {group(row) : row \in ToSet(t1)}})

\* The begins and ends of a value, and the number of its intervals open there.
timePoints(rel, v) == UNION {{begin(row), end(row)} : row \in {row \in ToSet(rel) : values(row) = v}}
numOpen(rel, v, ts) ==
    Cardinality({k \in DOMAIN rel : values(rel[k]) = v /\ begin(rel[k]) <= ts})
    - Cardinality({k \in DOMAIN rel : values(rel[k]) = v /\ end(rel[k]) <= ts})

\* The change points of both inputs (CP), and how many rows of the left input
\* less rows of the right one are open there.
setDiffPoints(left, right, v) == timePoints(left, v) \union timePoints(right, v)
balance(left, right, v, t) == numOpen(left, v, t) - numOpen(right, v, t)

\* A value is returned between its change points as often as the balance says.
setDiffWithNormalization(left, right) ==
    LET points(v) == setDiffPoints(left, right, v)
        intervals(v) == {v \o << t, Min({u \in points(v) : u > t}) >> :
                            t \in {t \in points(v) : balance(left, right, v, t) > 0}}
    IN  replicate([row \in UNION {intervals(values(row)) : row \in ToSet(left)} |->
                      balance(left, right, values(row), begin(row))])

current == Len(opToRewrOp) + 1
rewriting(kind) == phase = "rewrite" /\ current <= Len(ops) /\ ops[current].kind = kind
input(k) == opToRewrOp[ops[current].ins[k]]
inputArity(k) == Len(attrNames(ops)[ops[current].ins[k]])
intervalColumns == << inputArity(1) + 1, inputArity(1) + 2 >>

setRewrittenOp(rel) ==
    /\ opToRewrOp' = Append(opToRewrOp, normalized(current, rel, Len(attrNames(ops)[current])))
    /\ UNCHANGED << asked, setCoalesce, marks, result, phase >>

tempRewrTemporalSource ==
    rewriting("source") /\ setRewrittenOp(db.rel[ops[current].table])
tempRewrSelection ==
    rewriting("selection") /\ setRewrittenOp(evaluate(ops[current], << input(1) >>))
tempRewrProjection ==
    /\ rewriting("projection")
    /\ setRewrittenOp(evaluate([ops[current] EXCEPT !.cols = @ \o intervalColumns], << input(1) >>))
tempRewrJoin ==
    rewriting("join") /\ setRewrittenOp(joinIntervals(ops[current].on, input(1), input(2)))
tempRewrSetOperator ==
    rewriting("union") /\ setRewrittenOp(evaluate(ops[current], << input(1), input(2) >>))
rewriteTemporalSetDiffWithNormalization ==
    rewriting("difference") /\ setRewrittenOp(setDiffWithNormalization(input(1), input(2)))

tempRewrAggregation ==
    /\ rewriting("aggregation")
    /\ ~aggWithNorm \/ ops[current].ins[1] \in DOMAIN marks
    /\ setRewrittenOp(evaluate([ops[current] EXCEPT !.groupBy = @ \o intervalColumns], << input(1) >>))
rewriteTemporalAggregationWithNormalization ==
    /\ rewriting("aggregation")
    /\ aggWithNorm /\ ops[current].ins[1] \notin DOMAIN marks
    /\ setRewrittenOp(aggregationWithNormalization(
            input(1), ops[current].aggrs, ops[current].groupBy, inputArity(1)))
\* DISTINCT becomes an aggregation on all columns.
tempRewrDuplicateRemOp ==
    /\ rewriting("distinct")
    /\ setRewrittenOp(aggregationWithNormalization(
            input(1), << >>, [k \in 1..inputArity(1) |-> k], inputArity(1)))

-----------------------------------------------------------------------------
(* Coalescing.                                                             *)

\* Mutant: a time point counts although the number stays the same.
allPoints(rel, v) == timePoints(rel, v)
\* The time points where the number differs from the one before (T3 and T4).
changesOf(rel, v) ==
    {ts \in timePoints(rel, v) :
        LET earlier == {u \in timePoints(rel, v) : u < ts}
        IN  earlier = {} \/ numOpen(rel, v, ts) # numOpen(rel, v, Max(earlier))}

\* From each change to the next one, as often as intervals are open (T5 and T6).
addCoalesce(rel) ==
    LET intervals(v) == {v \o << ts, Min({u \in changesOf(rel, v) : u > ts}) >> :
                            ts \in {ts \in changesOf(rel, v) : \E u \in changesOf(rel, v) : u > ts}}
    IN  replicate([row \in UNION {intervals(values(row)) : row \in ToSet(rel)} |->
                      numOpen(rel, values(row), begin(row))])

\* The begins and ends of a value in order, begins first, with the number of
\* begins and ends so far: an interval of the result goes from an event before
\* which all were closed to the next one after which all are closed.
addSetCoalesce(rel) ==
    LET t1 == {[v |-> values(rel[k]), ts |-> begin(rel[k]), isS |-> 1, isE |-> 0, row |-> k] :
                  k \in DOMAIN rel} \union
              {[v |-> values(rel[k]), ts |-> end(rel[k]), isS |-> 0, isE |-> 1, row |-> k] :
                  k \in DOMAIN rel}
        upTo(e) == {d \in t1 : d.v = e.v /\ (\/ d.ts < e.ts
                                             \/ d.ts = e.ts /\ d.isE < e.isE
                                             \/ d.ts = e.ts /\ d.isE = e.isE /\ d.row <= e.row)}
        cS(e) == Cardinality({d \in upTo(e) : d.isS = 1})
        cE(e) == Cardinality({d \in upTo(e) : d.isE = 1})
        t3 == {e \in t1 : cS(e) = cE(e) \/ cS(e) - e.isS = cE(e) - e.isE}
        lag(e) == Max({d.ts : d \in {d \in t3 : d.v = e.v /\ d.ts < e.ts}})
    IN  listOf({e.v \o << lag(e), e.ts >> : e \in {e \in t3 : cS(e) = cE(e)}})

\* The end of rewriteImplicitTemporal, and the query is run.
finish ==
    /\ phase = "rewrite" /\ current > Len(ops)
    /\ result' = LET top == opToRewrOp[Len(ops)] IN
                 IF ~useCoalesce THEN top
                 ELSE IF setCoalesce THEN addSetCoalesce(top) ELSE addCoalesce(top)
    /\ phase' = "done"
    /\ UNCHANGED << asked, setCoalesce, marks, opToRewrOp >>

Next ==
    \/ addOperator
    \/ rewriteImplicitTemporal
    \/ tempRewrTemporalSource \/ tempRewrSelection \/ tempRewrProjection
    \/ tempRewrJoin \/ tempRewrSetOperator \/ rewriteTemporalSetDiffWithNormalization
    \/ tempRewrAggregation \/ rewriteTemporalAggregationWithNormalization
    \/ tempRewrDuplicateRemOp
    \/ finish

Spec == Init /\ [][Next]_vars

-----------------------------------------------------------------------------
(* Properties.                                                             *)

\* At every point in time the result holds the rows, as often, that the query
\* returns over the rows of the tables valid then: "temporal queries for
\* snapshot-reducible semantics over interval-timestamped data".
SnapshotReducible ==
    phase = "done" => \A t \in Time : asBag(snapshot(result, t)) = asBag(snapshotQuery(t))

\* A coalesced result is the one representation of its snapshots: the intervals
\* of a value are the same or disjoint, and two that touch differ in how often
\* the value occurs, or else they would be one.
UniqueEncoding ==
    phase = "done" /\ useCoalesce =>
        LET rows == asBag(result) IN
        \A x, y \in DOMAIN rows : values(x) = values(y) /\ x # y =>
            /\ ~overlap(x, y)
            /\ end(x) = begin(y) => rows[x] # rows[y]

\* What addTemporalNormalization promises to the aggregation above: the rows of
\* one group have the same or disjoint intervals, so that grouping on the
\* interval columns puts every row of a snapshot's group into one group.
GroupsAligned ==
    \A i \in DOMAIN opToRewrOp \cap DOMAIN marks : \A x, y \in ToSet(opToRewrOp[i]) :
        onColumns(x, marks[i]) = onColumns(y, marks[i]) =>
            ~overlap(x, y) \/ (begin(x) = begin(y) /\ end(x) = end(y))
=============================================================================
