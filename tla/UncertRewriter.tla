--------------------------- MODULE UncertRewriter ---------------------------
(***************************************************************************)
(* Queries over uncertain data, the attribute level and the tuple level    *)
(* semantics of                                                            *)
(* src/src/provenance_rewriter/uncertainty_rewrites/uncert_rewriter.c.     *)
(* The rewritten query is evaluated over one database, the best guess, and *)
(* carries certainty flags: one for each row (U_R), and at attribute level *)
(* one for each attribute (U_A).                                           *)
(*                                                                         *)
(* The rules rewrite the inputs of an operator first, so a query is        *)
(* rewritten from its table accesses up.  A state holds the inputs that    *)
(* are waiting for their parent, as a stack; an action is the rule of one  *)
(* operator.  What a rewritten input is to the next rule is the relation   *)
(* it evaluates to, with its flags; beside it stands what the original     *)
(* query returns in each possible world.                                   *)
(*                                                                         *)
(* Abstracted: a probability is a number of tenths, a relation a bag of    *)
(* rows, an attribute its position.  The flags are placed behind the       *)
(* attributes of the row by the code and kept apart from it here.          *)
(***************************************************************************)
EXTENDS Integers, Sequences, SequencesExt, FiniteSets, FiniteSetsExt, Bags

CONSTANTS
    Databases,      \* functions from table names to tables
    Values,         \* what an unknown value may be
    Conditions, Projections, Aggregations,  \* what queries are made of
    MaxOps,         \* a bound on the operators of a query
    MaxInputs,      \* a bound on the inputs waiting for a parent
    MaxWidth,       \* a bound on the attributes of a relation
    Admit,          \* uses of the rules that are not sound, see the README
    NULL

ASSUME UncertAssumption ==
    /\ MaxOps \in Nat /\ MaxInputs \in Nat /\ MaxWidth \in Nat
    /\ Admit \subseteq {"incomplete", "uncertain factor", "two whens",
                        "alternatives", "aggregated group"}

VARIABLES
    db,
    attrLevel,      \* attribute level or tuple level
    inputs,         \* the rewritten inputs without a parent
    numOps

vars == << db, attrLevel, inputs, numOps >>

-----------------------------------------------------------------------------
(* Bags of rows, and SQL operators on them.                                *)

bagOver(S, n(_)) == [x \in {y \in S : n(y) > 0} |-> n(x)]

select(b, P(_)) == bagOver(DOMAIN b, LAMBDA x : IF P(x) THEN b[x] ELSE 0)

project(b, f(_)) ==
    bagOver({f(x) : x \in DOMAIN b},
            LAMBDA y : MapThenSumSet(LAMBDA x : b[x], {x \in DOMAIN b : f(x) = y}))

cross(a, b) == [p \in (DOMAIN a) \X (DOMAIN b) |-> a[p[1]] * b[p[2]]]

\* One row for each group, or one for everything when there is no group-by.
aggregate(b, grouped, key(_), out(_)) ==
    IF ~grouped THEN [x \in {out(b)} |-> 1]
    ELSE LET rows == {out(select(b, LAMBDA x : key(x) = k)) : k \in {key(x) : x \in DOMAIN b}}
         IN [x \in rows |-> 1]

valuesOf(b, col(_)) == {col(x) : x \in DOMAIN b} \ {NULL}
sumOf(b, col(_)) ==
    LET known == {x \in DOMAIN b : col(x) # NULL}
    IN IF known = {} THEN NULL
       ELSE MapThenSumSet(LAMBDA x : b[x] * col(x), known)
countOf(b, col(_)) ==
    MapThenSumSet(LAMBDA x : b[x], {x \in DOMAIN b : col(x) # NULL})
maxOf(b, col(_)) ==
    LET known == valuesOf(b, col) IN IF known = {} THEN NULL ELSE Max(known)

aggregateOf(fun, b, col(_)) == CASE fun = "sum" -> sumOf(b, col)
                                 [] fun = "count" -> countOf(b, col)
                                 [] fun = "max" -> maxOf(b, col)

-----------------------------------------------------------------------------
(* Expressions and their certainty.  A flag is 1, 0 or, from an aggregate  *)
(* over nothing, NULL.                                                     *)

LEAST(a, b) == IF NULL \in {a, b} THEN NULL ELSE IF a < b THEN a ELSE b
GREATEST(a, b) == IF NULL \in {a, b} THEN NULL ELSE IF a > b THEN a ELSE b
createCaseOperator(v) == IF v = TRUE THEN 1 ELSE 0
createReverseCaseOperator(v) == IF v = TRUE THEN 0 ELSE 1

strict(a, b, v) == IF NULL \in {a, b} THEN NULL ELSE v

RECURSIVE value(_, _)
value(e, row) ==
    LET l == value(e.args[1], row)
        r == value(e.args[2], row)
        taken == {i \in DOMAIN e.whens : value(e.whens[i].when, row) = TRUE}
    IN CASE e.op = "const" -> e.val
         [] e.op = "attr" -> row[e.pos]
         [] e.op = "uncert" -> value(e.args[1], row)
         [] e.op = "coalesce" -> IF l = NULL THEN r ELSE l
         [] e.op = "case" -> IF taken = {} THEN value(e.else, row)
                             ELSE value(e.whens[Min(taken)].then, row)
         [] e.op = "=" -> strict(l, r, l = r)
         [] e.op = "+" -> strict(l, r, l + r)
         [] e.op = "*" -> strict(l, r, l * r)
         [] e.op = "AND" -> IF FALSE \in {l, r} THEN FALSE ELSE strict(l, r, TRUE)
         [] e.op = "OR" -> IF TRUE \in {l, r} THEN TRUE ELSE strict(l, r, FALSE)

\* Mutant: when no condition holds, the ELSE branch counts as uncertain.
UncertIfNoElse(whens, else) ==
    FoldLeft(GREATEST, 0, [i \in DOMAIN whens |->
        LEAST(LEAST(whens[i].uWhen, whens[i].uThen), createCaseOperator(whens[i].val))])

\* The flag of CASE: that of the branch taken and of the conditions that
\* decided for it.
UncertIf(whens, else) ==
    LET branch(i) == LEAST(LEAST(whens[i].uWhen, whens[i].uThen),
                           createCaseOperator(whens[i].val))
        notTaken(i) == LEAST(whens[i].uWhen, createReverseCaseOperator(whens[i].val))
        taken == FoldLeft(GREATEST, 0, [i \in DOMAIN whens |-> branch(i)])
        otherwise == FoldLeft(LEAST, else, [i \in DOMAIN whens |-> notTaken(i)])
    IN GREATEST(taken, otherwise)

UncertOp(op, v1, c1, v2, c2) ==
    LET both == LEAST(c1, c2)
    IN CASE op = "uncert" -> 0
         [] op = "*" -> GREATEST(GREATEST(both, createCaseOperator(strict(v1, v1, v1 = 0))),
                                 createCaseOperator(strict(v2, v2, v2 = 0)))
         [] op = "OR" -> GREATEST(GREATEST(both, LEAST(createCaseOperator(v1), c1)),
                                  LEAST(createCaseOperator(v2), c2))
         [] op = "AND" -> GREATEST(GREATEST(both, LEAST(createReverseCaseOperator(v1), c1)),
                                   LEAST(createReverseCaseOperator(v2), c2))
         [] OTHER -> both

RECURSIVE getUncertaintyExpr(_, _, _)
getUncertaintyExpr(e, row, u) ==
    LET val(i) == value(e.args[i], row)
        flag(i) == getUncertaintyExpr(e.args[i], row, u)
        when(i) == [val |-> value(e.whens[i].when, row),
                    uWhen |-> getUncertaintyExpr(e.whens[i].when, row, u),
                    uThen |-> getUncertaintyExpr(e.whens[i].then, row, u)]
    IN CASE e.op = "const" -> 1
         [] e.op = "attr" -> u[e.pos]
         [] e.op = "case" -> UncertIf([i \in DOMAIN e.whens |-> when(i)],
                                      getUncertaintyExpr(e.else, row, u))
         [] OTHER -> UncertOp(e.op, val(1), flag(1), val(2), flag(2))

-----------------------------------------------------------------------------
(* Tables and their possible worlds.  A table is a sequence of blocks, and *)
(* a block the alternatives for one row with their probabilities: a single *)
(* one unless the table is an x-table.  A block whose probabilities do not *)
(* add up to One may also contribute no row.                               *)

One == 10
Half == 5
probs(block) == {block[i].prob : i \in DOMAIN block}
sumProb(block) == FoldLeft(LAMBDA acc, alt : acc + alt.prob, 0, block)
maxProb(block) == Max(probs(block))

\* The rows a stored row with unknown values may stand for.
completions(row) ==
    {r \in [DOMAIN row -> Values] : \A i \in DOMAIN row : row[i] # NULL => r[i] = row[i]}

Absent == << >>
options(t, block) ==
    IF t.kind = "incomplete"
    THEN [row : completions(block[1].row), prob : {One}]
    ELSE Range(block) \union
         (IF sumProb(block) < One THEN {[row |-> Absent, prob |-> One - sumProb(block)]} ELSE {})

\* A world fixes, for every table, the row of each of its blocks.
worldsOf(t) ==
    {w \in [DOMAIN t.blocks -> UNION {options(t, t.blocks[i]) : i \in DOMAIN t.blocks}] :
        \A i \in DOMAIN t.blocks : w[i] \in options(t, t.blocks[i])}
Worlds == {w \in [DOMAIN db -> UNION {worldsOf(db[n]) : n \in DOMAIN db}] :
             \A n \in DOMAIN db : w[n] \in worldsOf(db[n])}

isMostLikely(w) ==
    \A n \in DOMAIN db : \A i \in DOMAIN w[n] :
        \A o \in options(db[n], db[n].blocks[i]) : o.prob <= w[n][i].prob

bagOfSeq(rows) == bagOver(Range(rows), LAMBDA x : Cardinality({i \in DOMAIN rows : rows[i] = x}))
tableIn(w, n) == bagOfSeq(SelectSeq([i \in DOMAIN w[n] |-> w[n][i].row],
                                    LAMBDA row : row # Absent))

-----------------------------------------------------------------------------
(* Rewritten inputs.                                                       *)

\* rel: what the rewritten query returns, rows with their flags; answers: what
\* the original query returns in each world.  mapped: has the root the map
\* from attributes to flags that the rule of its parent reads?  The last three
\* record how the query was built.
Init ==
    /\ db \in Databases
    /\ attrLevel \in BOOLEAN
    /\ inputs = << >>
    /\ numOps = 0

top == Last(inputs)
below == inputs[Len(inputs) - 1]

flagged(row, flag, r) ==
    [row |-> row, u |-> [i \in DOMAIN row |-> IF attrLevel THEN flag ELSE 1], r |-> r]

push(in) ==
    /\ numOps < MaxOps
    /\ Len(inputs) < MaxInputs
    /\ inputs' = Append(inputs, in)
    /\ numOps' = numOps + 1
    /\ UNCHANGED << db, attrLevel >>

replaceTop(n, in) ==
    /\ numOps < MaxOps
    /\ inputs' = Append(SubSeq(inputs, 1, Len(inputs) - n), in)
    /\ numOps' = numOps + 1
    /\ UNCHANGED << db, attrLevel >>

-----------------------------------------------------------------------------
(* Table accesses.                                                         *)

access(n, rel) ==
    push([rel |-> rel, answers |-> [w \in Worlds |-> tableIn(w, n)],
          width |-> Len(db[n].blocks[1][1].row), mapped |-> TRUE,
          isCertain |-> db[n].kind = "plain", sameFlags |-> TRUE])

\* An incomplete table is marked with one property and looked up with another
\* one: it is rewritten as any other table.
rewrite_UncertTableAccess(n) ==
    /\ \/ db[n].kind = "plain"
       \/ db[n].kind = "incomplete" /\ attrLevel /\ "incomplete" \in Admit
    /\ access(n, bagOfSeq([i \in DOMAIN db[n].blocks |->
                              flagged(db[n].blocks[i][1].row, 1, 1)]))

rewrite_UncertTIP(n) ==
    LET likely == SelectSeq([i \in DOMAIN db[n].blocks |-> db[n].blocks[i][1]],
                            LAMBDA alt : Half <= alt.prob)
    IN /\ db[n].kind = "tip"
       /\ access(n, bagOfSeq([i \in DOMAIN likely |->
                                 flagged(likely[i].row, 1, createCaseOperator(likely[i].prob = One))]))

\* Mutant: a block contributes its likeliest row even when no row is likelier.
bestAlternativesAlways(block) ==
    {i \in DOMAIN block : block[i].prob = maxProb(block)}

\* The rows of the block the first selection keeps.
bestAlternatives(block) ==
    {i \in DOMAIN block : /\ maxProb(block) > One - sumProb(block)
                          /\ block[i].prob = maxProb(block)}

\* Of equally likely alternatives ROW_NUMBER takes any.
rewrite_UncertXTable(n) ==
    LET blocks == db[n].blocks
        shown == {i \in DOMAIN blocks : bestAlternatives(blocks[i]) # {}}
        row(i, alt) == flagged(blocks[i][alt].row,
                               createCaseOperator(maxProb(blocks[i]) = One),
                               createCaseOperator(sumProb(blocks[i]) = One))
        shownSeq == SelectSeq([i \in DOMAIN blocks |-> i], LAMBDA i : i \in shown)
    IN /\ db[n].kind = "xtable"
       /\ attrLevel \/ "alternatives" \in Admit
       /\ \E pick \in [shown -> UNION {DOMAIN blocks[i] : i \in DOMAIN blocks}] :
             /\ \A i \in shown : pick[i] \in bestAlternatives(blocks[i])
             /\ access(n, bagOfSeq([k \in DOMAIN shownSeq |->
                                      row(shownSeq[k], pick[shownSeq[k]])]))

-----------------------------------------------------------------------------
(* Operators.                                                              *)

\* Expressions over the attributes of an input, without those whose flag the
\* rules get wrong.
RECURSIVE fits(_, _)
fits(e, in) ==
    CASE e.op = "const" -> TRUE
      [] e.op = "attr" -> e.pos <= in.width
      [] e.op = "case" -> /\ Len(e.whens) = 1 \/ "two whens" \in Admit
                          /\ fits(e.else, in)
                          /\ \A i \in DOMAIN e.whens : fits(e.whens[i].when, in)
                                                       /\ fits(e.whens[i].then, in)
      [] OTHER -> /\ e.op = "*" => \/ "uncertain factor" \in Admit
                                   \/ \E i \in DOMAIN e.args : e.args[i].op = "const"
                                                               /\ e.args[i].val = 0
                  /\ e.op = "uncert" => attrLevel
                  /\ \A i \in DOMAIN e.args : fits(e.args[i], in)

holds(cond, row) == value(cond, row) = TRUE

rewrite_UncertSelection(cond) ==
    LET selected == select(top.rel, LAMBDA x : holds(cond, x.row))
        flag(x) == IF attrLevel THEN LEAST(x.r, getUncertaintyExpr(cond, x.row, x.u)) ELSE x.r
    IN /\ inputs # << >>
       /\ fits(cond, top)
       /\ replaceTop(1, [top EXCEPT
             !.rel = project(selected, LAMBDA x : [x EXCEPT !.r = flag(x)]),
             !.answers = [w \in DOMAIN @ |-> select(@[w], LAMBDA row : holds(cond, row))],
             !.mapped = TRUE])

valuesAt(exprs, row) == [i \in DOMAIN exprs |-> value(exprs[i], row)]

\* At tuple level the rule needs the map of its input.
rewrite_UncertProjection(exprs) ==
    LET flag(i, x) == IF attrLevel THEN getUncertaintyExpr(exprs[i], x.row, x.u) ELSE 1
        flags(x) == [i \in DOMAIN exprs |-> flag(i, x)]
    IN /\ inputs # << >>
       /\ \A i \in DOMAIN exprs : fits(exprs[i], top)
       /\ top.mapped
       /\ replaceTop(1, [top EXCEPT
             !.rel = project(top.rel, LAMBDA x :
                         [row |-> valuesAt(exprs, x.row), u |-> flags(x), r |-> x.r]),
             !.answers = [w \in DOMAIN @ |-> project(@[w], LAMBDA row : valuesAt(exprs, row))],
             !.width = Len(exprs),
             !.isCertain = @ /\ \A i \in DOMAIN exprs : exprs[i].op # "uncert"])

\* Mutant: the condition of the join does not count.
joinFlagNoCond(on, l, r) == LEAST(l.r, r.r)

joinFlag(on, l, r) ==
    IF attrLevel /\ on # NULL
    THEN LEAST(getUncertaintyExpr(on, l.row \o r.row, l.u \o r.u), LEAST(l.r, r.r))
    ELSE LEAST(l.r, r.r)

\* At tuple level the map is left on the join, below the new root.
rewrite_UncertJoin(on) ==
    LET matches(row) == on = NULL \/ holds(on, row)
        joined(a, b, rowOf(_)) ==
            select(cross(a, b), LAMBDA p : matches(rowOf(p[1]) \o rowOf(p[2])))
        wide == [width |-> below.width + top.width]
    IN /\ Len(inputs) > 1
       /\ wide.width <= MaxWidth
       /\ on # NULL => fits(on, wide)
       /\ replaceTop(2,
             [rel |-> project(joined(below.rel, top.rel, LAMBDA x : x.row), LAMBDA p :
                          [row |-> p[1].row \o p[2].row, u |-> p[1].u \o p[2].u,
                           r |-> joinFlag(on, p[1], p[2])]),
              answers |-> [w \in DOMAIN top.answers |->
                             project(joined(below.answers[w], top.answers[w], LAMBDA row : row),
                                     LAMBDA p : p[1] \o p[2])],
              width |-> wide.width,
              mapped |-> attrLevel,
              isCertain |-> below.isCertain /\ top.isCertain,
              sameFlags |-> below.sameFlags /\ top.sameFlags])

\* The certainty of a row with all its attributes.
fullFlag(x) == FoldLeft(LEAST, x.r, x.u)

\* Only at attribute level: the rule reads a flag for every attribute.
rewrite_UncertDuplicateRemoval ==
    LET flags(b, w) == [i \in 1 .. w |-> maxOf(b, LAMBDA x : x.u[i])]
    IN /\ inputs # << >>
       /\ attrLevel
       /\ replaceTop(1, [top EXCEPT
             !.rel = aggregate(@, TRUE, LAMBDA x : x.row, LAMBDA b :
                         [row |-> (CHOOSE x \in DOMAIN b : TRUE).row,
                          u |-> flags(b, top.width), r |-> maxOf(b, fullFlag)]),
             !.answers = [w \in DOMAIN @ |-> [row \in DOMAIN @[w] |-> 1]]])

keyOf(agg, row) == [i \in DOMAIN agg.group |-> row[agg.group[i]]]
aggRow(agg, b, rowOf(_)) ==
    [i \in DOMAIN agg.funs |-> aggregateOf(agg.funs[i].fun, b, LAMBDA x : rowOf(x)[agg.funs[i].pos])]
    \o (IF agg.group = << >> THEN << >> ELSE keyOf(agg, rowOf(CHOOSE x \in DOMAIN b : TRUE)))

\* The attribute flags below the aggregation: 0 unless it is grouped by the
\* attribute.  An aggregate has the flag of the attribute it aggregates.
inputFlag(agg, x, pos) == IF pos \in Range(agg.group) THEN x.u[pos] ELSE 0

groupFlag(agg, x) ==
    FoldLeft(LAMBDA acc, pos : LEAST(acc, x.u[pos]), x.r, agg.group)

rewrite_UncertAggregation(agg) ==
    LET flagOf(b, pos) == maxOf(b, LAMBDA x : inputFlag(agg, x, pos))
        flags(b) == [i \in DOMAIN agg.funs |-> flagOf(b, agg.funs[i].pos)]
                    \o [i \in DOMAIN agg.group |-> flagOf(b, agg.group[i])]
        numAttrs == Len(agg.funs) + Len(agg.group)
        out(b) ==
            [row |-> aggRow(agg, b, LAMBDA x : x.row),
             u |-> IF attrLevel THEN flags(b) ELSE [i \in 1 .. numAttrs |-> 1],
             r |-> IF attrLevel THEN maxOf(b, LAMBDA x : groupFlag(agg, x)) ELSE 0]
        grouped == agg.group # << >>
    IN /\ inputs # << >>
       /\ \A i \in DOMAIN agg.funs : /\ agg.funs[i].pos <= top.width
                                     /\ \/ "aggregated group" \in Admit
                                        \/ agg.funs[i].pos \notin Range(agg.group)
       /\ \A i \in DOMAIN agg.group : agg.group[i] <= top.width
       /\ replaceTop(1, [top EXCEPT
             !.rel = aggregate(@, grouped, LAMBDA x : keyOf(agg, x.row), out),
             !.answers = [w \in DOMAIN @ |->
                 aggregate(@[w], grouped, LAMBDA row : keyOf(agg, row),
                           LAMBDA b : aggRow(agg, b, LAMBDA row : row))],
             !.width = numAttrs,
             !.mapped = TRUE,
             !.isCertain = FALSE])

\* The rows of a difference are compared with their flags, and are uncertain.
rewrite_UncertSet(op) ==
    LET combine(a, b) == IF op = "union" THEN a (+) b ELSE a (-) b
        rel == combine(below.rel, top.rel)
        flagsAgree == \A x \in DOMAIN below.rel, y \in DOMAIN top.rel : x.row = y.row => x = y
    IN /\ Len(inputs) > 1
       /\ below.width = top.width
       /\ replaceTop(2, [below EXCEPT
             !.rel = IF op = "union" THEN rel
                     ELSE project(rel, LAMBDA x : [x EXCEPT !.r = 0]),
             !.answers = [w \in DOMAIN @ |-> combine(@[w], top.answers[w])],
             !.mapped = TRUE,
             !.isCertain = @ /\ top.isCertain /\ op = "union",
             !.sameFlags = @ /\ top.sameFlags /\ (op = "union" \/ flagsAgree)])

Next ==
    \/ \E n \in DOMAIN db : \/ rewrite_UncertTableAccess(n)
                            \/ rewrite_UncertTIP(n)
                            \/ rewrite_UncertXTable(n)
    \/ \E cond \in Conditions : rewrite_UncertSelection(cond)
    \/ \E exprs \in Projections : rewrite_UncertProjection(exprs)
    \/ \E on \in Conditions \union {NULL} : rewrite_UncertJoin(on)
    \/ rewrite_UncertDuplicateRemoval
    \/ \E agg \in Aggregations : rewrite_UncertAggregation(agg)
    \/ \E op \in {"union", "difference"} : rewrite_UncertSet(op)

Spec == Init /\ [][Next]_vars

-----------------------------------------------------------------------------
(* Properties.                                                             *)

\* Does a row of a world agree with a row of the result in the attributes
\* that are said to be certain?
agrees(x, row) == \A i \in DOMAIN row : (~attrLevel \/ x.u[i] = 1) => x.row[i] = row[i]

total(b, S) == MapThenSumSet(LAMBDA x : b[x], S)

\* Certain is certain: in every possible world the answer of the query has,
\* for every row whose U_R is 1, a row of its own with the same values in the
\* attributes whose flag is 1 (any set of certain rows finds at least as many
\* rows in the world that agree with one of them).
CertainAnswers ==
    \A k \in DOMAIN inputs : LET in == inputs[k] IN
      \A w \in DOMAIN in.answers : \A S \in SUBSET {x \in DOMAIN in.rel : x.r = 1} :
        total(in.rel, S) <=
            total(in.answers[w], {row \in DOMAIN in.answers[w] : \E x \in S : agrees(x, row)})

\* Without its flags the result is the answer of the query in a world that is
\* as likely as any other, as long as no difference has met a row with
\* different flags on its two sides.
BestGuess ==
    \A k \in DOMAIN inputs : inputs[k].sameFlags =>
        LET bestGuess == project(inputs[k].rel, LAMBDA x : x.row)
        IN \E w \in DOMAIN inputs[k].answers : /\ bestGuess = inputs[k].answers[w]
                                               /\ isMostLikely(w)

\* Nothing is called uncertain without a reason: over tables without
\* uncertainty, and without the operators whose results always are uncertain,
\* all flags are 1.
CertaintyKept ==
    \A k \in DOMAIN inputs : inputs[k].isCertain =>
        \A x \in DOMAIN inputs[k].rel : fullFlag(x) = 1
=============================================================================
