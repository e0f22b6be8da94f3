------------------------ MODULE MCCostBasedOptimizer ------------------------
(* Choice trees for TLC: none at all, a line of binary choices, an          *)
(* irregular tree in which an option hides a later choice, and one with     *)
(* three options that branches on one of them.                              *)
EXTENDS CostBasedOptimizer, TLC

NoTree == [p \in {} |-> 0]
Regular == (<< >> :> 2) @@ (<<0>> :> 2) @@ (<<1>> :> 2)
Deep == [p \in UNION {[1 .. k -> {0, 1}] : k \in 0 .. 2} |-> 2]
Wide == [p \in {<< >>} \union {<<c>> : c \in 0 .. 2} |-> 3]
Irregular == (<< >> :> 2) @@ (<<0>> :> 2) @@ (<<0, 1>> :> 2)
ThreeWay == (<< >> :> 3) @@ (<<1>> :> 2) @@ (<<1, 0>> :> 1)

MCQuery ==
    [tree : {NoTree, Regular, Irregular, ThreeWay}, costs : {-1 .. 2}, maxPlans : {3}]
    \union [tree : {Deep, Wide}, costs : {{1}}, maxPlans : {7}]
MCPlugin == {"exhaustive", "exhaustive_adaptive", "sim_ann", "balance"}
=============================================================================
