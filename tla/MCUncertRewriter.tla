-------------------------- MODULE MCUncertRewriter --------------------------
(* Small databases and queries for UncertRewriter.                         *)
EXTENDS UncertRewriter

const(v) == [op |-> "const", val |-> v]
attr(i) == [op |-> "attr", pos |-> i]
bin(op, l, r) == [op |-> op, args |-> << l, r >>]
case(c, t, e) == [op |-> "case", whens |-> << [when |-> c, then |-> t] >>, else |-> e]
isOne(i) == bin("=", attr(i), const(1))

MCConditions ==
    { bin("=", attr(1), attr(2)), isOne(2),
      bin("OR", isOne(1), isOne(2)), bin("AND", isOne(1), bin("=", attr(2), attr(3))) }

MCProjections ==
    { << attr(1) >>, << attr(2), attr(1) >>,
      << case(isOne(2), attr(1), const(0)) >>,
      << bin("+", attr(1), attr(2)), bin("*", attr(1), const(0)) >>,
      << bin("coalesce", attr(1), const(0)) >>,
      << attr(1), [op |-> "uncert", args |-> << attr(2) >>] >> }

agg(fun, pos) == [fun |-> fun, pos |-> pos]
MCAggregations ==
    { [funs |-> << agg("sum", 2) >>, group |-> << 1 >>],
      [funs |-> << agg("count", 1), agg("max", 2) >>, group |-> << >>] }

alt(row, prob) == [row |-> row, prob |-> prob]
plain == [kind |-> "plain", blocks |-> << << alt(<< 1, 1 >>, 10) >>, << alt(<< 0, 1 >>, 10) >> >>]
tip(p, q) == [kind |-> "tip", blocks |-> << << alt(<< 1, 1 >>, p) >>, << alt(<< 1, 0 >>, q) >> >>]
xtable(p, q, r) ==
    [kind |-> "xtable", blocks |-> << << alt(<< 1, 1 >>, p), alt(<< 0, 1 >>, q) >>,
                                      << alt(<< 1, 0 >>, r) >> >>]

database(t, x) == [R |-> plain, T |-> t, X |-> x]

\* A certain, an even and an unlikely row; x-tuples with and without a row that
\* may be missing, and with a best guess that is no row.
MCDatabases ==
    { database(tip(10, 5), xtable(6, 4, 10)),
      database(tip(7, 10), xtable(2, 4, 3)),
      database(tip(4, 6), xtable(4, 1, 5)) }

MCIncompleteDatabases ==
    { [N |-> [kind |-> "incomplete", blocks |-> << << alt(<< 1, NULL >>, 10) >> >>]] }
=============================================================================
