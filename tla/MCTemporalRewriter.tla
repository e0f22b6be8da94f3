------------------------- MODULE MCTemporalRewriter -------------------------
(* Two tables, R(a, b) and S(c), over the times 0 to 4: rows that overlap,    *)
(* touch, contain each other, repeat, and leave gaps.                         *)
EXTENDS TemporalRewriter

Row(a, b, tb, te) == << a, b, tb, te >>
RelationsR ==
    { << >>,
      << Row(1, 1, 0, 2), Row(1, 1, 2, 3) >>,
      << Row(1, 1, 1, 3), Row(1, 0, 2, 4) >>,
      << Row(1, 1, 1, 3), Row(1, 1, 2, 3), Row(2, 1, 1, 2) >>,
      << Row(1, 1, 0, 1), Row(1, 1, 2, 3), Row(2, 0, 0, 4) >> }
RelationsS == { << << 1, 1, 2 >> >>, << << 1, 0, 3 >>, << 1, 2, 4 >>, << 0, 1, 3 >> >> }

MCDatabases ==
    {[rel |-> [R |-> r, S |-> s], attrs |-> [R |-> << 1, 2 >>, S |-> << 3 >>],
      keys |-> [R |-> {}, S |-> {}]] : r \in RelationsR, s \in RelationsS}
    \union
    {[rel |-> [R |-> << Row(1, 1, 1, 3), Row(2, 0, 0, 3) >>, S |-> << << 1, 1, 2 >> >>],
      attrs |-> [R |-> << 1, 2 >>, S |-> << 3 >>],
      keys |-> [R |-> {{1}}, S |-> {{3}}]]}

MCConditions == {[col |-> 1, val |-> 1]}
MCProjections == {<< 1 >>, << 2 >>}
MCJoinConditions == {<< >>, << [l |-> 1, r |-> 1] >>}
Fun(f, c) == [f |-> f, col |-> c]
MCAggregations ==
    {[aggrs |-> << Fun("SUM", 2) >>, groupBy |-> << 1 >>],
     [aggrs |-> << Fun("COUNT", 1), Fun("AVG", 1) >>, groupBy |-> << >>],
     [aggrs |-> << Fun("SUM", 1) >>, groupBy |-> << >>],
     [aggrs |-> << Fun("COUNT", 1) >>, groupBy |-> << 2 >>],
     [aggrs |-> << Fun("MIN", 2), Fun("COUNT(1)", 0) >>, groupBy |-> << 1 >>],
     [aggrs |-> << Fun("AVG", 2), Fun("SUM", 2) >>, groupBy |-> << 1 >>]}
=============================================================================
