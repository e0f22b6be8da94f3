----------------------------- MODULE PlanSearch -----------------------------
(***************************************************************************)
(* What a cost-based optimizer promises its caller, whatever the strategy: *)
(* it builds plans of the query one after the other, asks the backend for  *)
(* the cost of each one and returns, when it stops, the first of the       *)
(* cheapest.  A search that claims to be exhaustive builds no plan twice,  *)
(* loses none, and stops only when nothing is left, when it has built more *)
(* plans than its limit or, if it is adaptive, once it has a plan.  A      *)
(* heuristic search may overlook a plan that follows one the backend had   *)
(* no estimate for, and only then.                                         *)
(***************************************************************************)
EXTENDS Integers, FiniteSets

CONSTANTS Costs,        \* the costs a backend may report, negative ones too
          NoPlan        \* a model value: there is no best plan

VARIABLES limit,        \* the limit on the number of plans
          plans,        \* what this search may build: the plans of the query
          exhaustive,   \* does this search claim to be exhaustive?
          adaptive,     \* may it stop early because the best plan is cheap?
          built,        \* the plans built so far
          blind,        \* was there no estimate for one of them?
          best,         \* the cheapest of them and its cost, or NoPlan
          stopped

vars == <<limit, plans, exhaustive, adaptive, built, blind, best, stopped>>

Init == /\ built = {}
        /\ blind = FALSE
        /\ best = NoPlan
        /\ stopped = FALSE

\* A negative cost stands for "no estimate" and is never best.
Better(c) == c >= 0 /\ (best = NoPlan \/ c < best.cost)

Build(p, c) ==
  /\ ~stopped
  /\ exhaustive => p \in plans \ built
  /\ built' = built \union {p}
  /\ blind' = (blind \/ c < 0)
  /\ \/ best' = IF Better(c) THEN [plan |-> p, cost |-> c] ELSE best
     \/ ~exhaustive /\ blind /\ best' = best
  /\ UNCHANGED <<limit, plans, exhaustive, adaptive, stopped>>

Stop ==
  /\ ~stopped
  /\ built # {}
  /\ exhaustive =>
        \/ built = plans
        \/ Cardinality(built) > limit
        \/ adaptive /\ best # NoPlan
  /\ stopped' = TRUE
  /\ UNCHANGED <<limit, plans, exhaustive, adaptive, built, blind, best>>

Next == Stop \/ \E p \in plans, c \in Costs : Build(p, c)

Spec == Init /\ [][Next]_vars /\ WF_vars(Next)
=============================================================================
