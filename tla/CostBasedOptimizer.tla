------------------------- MODULE CostBasedOptimizer -------------------------
(***************************************************************************)
(* The search of src/src/operator_optimizer/cost_based_optimizer.c over    *)
(* the plans of a query.  Plan generation asks callback(n) at every choice *)
(* point which of n options to take; the strategy (a plugin) replays or    *)
(* extends a path of choices, and after each plan computes the path to try *)
(* next.  Which choice points there are depends on the choices made before *)
(* (a join that was rewritten one way has no duplicate removal to pull up  *)
(* any more), so the choices of a query form an irregular tree.            *)
(*                                                                         *)
(* Abstracted: a plan is the path of options that were really taken, the   *)
(* temperature of simulated annealing is the number of rounds that are     *)
(* left, the comparison of its acceptance probability with a random number *)
(* and the comparison of time spent with the time expected are             *)
(* nondeterministic.                                                       *)
(***************************************************************************)
EXTENDS Integers, Sequences, SequencesExt, FiniteSets

CONSTANTS
    Query,      \* records: the choice tree (a function from paths to numbers of
                \* options), what getCostEstimation may return for its plans,
                \* and OPTION_COST_BASED_MAX_PLANS
    Plugin,     \* the strategies of chooseOptimizerPlugin
    MaxOptions, \* a bound on the options of a choice point
    Rounds,     \* rounds until the temperature is at most 1
    PLAN_MAX_COST,
    NoPlan      \* NULL as a plan

\* A choice tree: every choice point is reached by options of earlier ones, and
\* offers at least one.
IsTree(t) ==
    \A p \in DOMAIN t :
        /\ p \in Seq(Nat)
        /\ t[p] \in 1 .. MaxOptions
        /\ \A i \in DOMAIN p : LET q == SubSeq(p, 1, i - 1)
                              IN  q \in DOMAIN t /\ p[i] \in 0 .. t[q] - 1

ASSUME OptimizerAssumption ==
    /\ Plugin \subseteq {"exhaustive", "exhaustive_adaptive", "sim_ann", "balance"}
    /\ \A q \in Query :
          /\ IsTree(q.tree)
          /\ \A c \in q.costs : c \in Int /\ c < PLAN_MAX_COST
          /\ q.maxPlans \in Nat
    /\ PLAN_MAX_COST \in Nat /\ MaxOptions \in Nat /\ Rounds \in Nat \ {0}
    /\ NoPlan \notin Seq(Int) \union [plan : Seq(Int), cost : Int]

VARIABLES
    query, plugin,
    pc,             \* where the main loop is
    taken,          \* the options plan generation has followed so far
    fixedPath, curPath, numChoices,
    currentPlan, currentCost,
    bestPlan, bestPlanCost,
    planCount,
    anneal,         \* AnnealingState
    bal,            \* BalancedState
    built           \* history: the plans built and their costs, in order

optState == << fixedPath, curPath, numChoices, currentPlan, currentCost,
               bestPlan, bestPlanCost, planCount >>
vars == << query, plugin, pc, taken, optState, anneal, bal, built >>

-----------------------------------------------------------------------------
(* Lists of integers, as list.c handles them.                              *)

getHead(l) == IF l = << >> THEN -1 ELSE Head(l)
removeFromHead(l) == IF Len(l) <= 1 THEN << >> ELSE Tail(l)

-----------------------------------------------------------------------------
(* Plans of a tree.                                                        *)

tree == query.tree
numOptions(path) == tree[path]
isComplete(path) == path \notin DOMAIN tree

\* What callback() may answer: the balanced search takes a number from a path
\* of an earlier plan, or one next to it, that need not be an option here.
answers(plansBuilt) == LET bound == MaxOptions + plansBuilt + 2
                       IN  -bound .. bound

\* Where the answers may lead: an inner path extended by an answer.
endsOf(t) == IF DOMAIN t = {} THEN {<< >>}
             ELSE {Append(q, c) : q \in DOMAIN t, c \in answers(query.maxPlans)}
                  \ DOMAIN t

\* The plans of the query: every answer is one of the options.
plansOf(t) == {p \in endsOf(t) : p # << >> => Last(p) \in 0 .. t[Front(p)] - 1}

-----------------------------------------------------------------------------
EmptyInterval == [lhFlag |-> 0, begin |-> << >>, end |-> << >>,
                  numContinues |-> -1, previousLH |-> -1,
                  helpPath |-> << >>, helpEnd |-> << >>, helpFlag |-> 0]

Init ==
    /\ query \in Query
    /\ plugin \in Plugin
    /\ pc = "loop"
    /\ taken = << >>
    /\ fixedPath = << >> /\ curPath = << >> /\ numChoices = << >>
    /\ currentPlan = NoPlan /\ currentCost = PLAN_MAX_COST
    /\ bestPlan = NoPlan /\ bestPlanCost = PLAN_MAX_COST
    /\ planCount = 0
    /\ anneal = [previousPlan |-> NoPlan, previousPlanCost |-> PLAN_MAX_COST,
                 previousPath |-> << >>, temp |-> Rounds]
    /\ bal = [count |-> 1, fifo |-> << >>, bl |-> EmptyInterval]
    /\ built = << >>

-----------------------------------------------------------------------------
(* The main loop.                                                          *)

exhaustiveContinueOptimization == planCount <= query.maxPlans

shouldContinue ==
    /\ exhaustiveContinueOptimization
    /\ plugin = "sim_ann" => anneal.temp > 0

\* The adaptive strategy may stop once it knows how long its best plan runs.
mayStop ==
    \/ ~shouldContinue
    \/ plugin = "exhaustive_adaptive" /\ bestPlan # NoPlan

startPlan ==
    /\ pc = "loop"
    /\ shouldContinue
    /\ pc' = "plan"
    /\ taken' = << >>
    /\ UNCHANGED << query, plugin, optState, anneal, bal, built >>

\* The loop ends when its condition fails, or by a break.
stopLoop ==
    /\ pc = "break" \/ (pc = "loop" /\ mayStop)
    /\ pc' = "done"
    /\ UNCHANGED << query, plugin, taken, optState, anneal, bal, built >>

finishPlan(cost) ==
    /\ pc = "plan"
    /\ isComplete(taken)
    /\ currentPlan' = taken
    /\ currentCost' = cost
    /\ built' = Append(built, [plan |-> taken, cost |-> cost])
    /\ pc' = "next"
    /\ UNCHANGED << query, plugin, taken, fixedPath, curPath, numChoices,
                    bestPlan, bestPlanCost, planCount, anneal, bal >>

\* Plan generation follows the answer of callback().  What an answer that is
\* none of the options amounts to depends on the call site: one tests for the
\* first option, another for the second, a third repeats itself that often.
follow(choice) ==
    LET options == 0 .. numOptions(taken) - 1
    IN \E c \in {choice} \union (IF choice \in options THEN {} ELSE options) :
          taken' = Append(taken, c)

\* What happens after generateNextChoice: the loop is left at once when there
\* is nothing to try next, before the plan is counted.
afterChoice(more) ==
    /\ pc' = IF more THEN "loop" ELSE "break"
    /\ planCount' = IF more THEN planCount + 1 ELSE planCount

\* Mutant: of two equally cheap plans the later one is kept.
updateBestPlanLast(plan, cost) ==
    LET estimate == IF cost < 0 THEN PLAN_MAX_COST ELSE cost
        better == estimate <= bestPlanCost
    IN /\ currentPlan' = plan
       /\ currentCost' = estimate
       /\ bestPlan' = IF better THEN plan ELSE bestPlan
       /\ bestPlanCost' = IF better THEN estimate ELSE bestPlanCost

updateBestPlan(plan, cost) ==
    LET estimate == IF cost < 0 THEN PLAN_MAX_COST ELSE cost
        better == estimate < bestPlanCost
    IN /\ currentPlan' = plan
       /\ currentCost' = estimate
       /\ bestPlan' = IF better THEN plan ELSE bestPlan
       /\ bestPlanCost' = IF better THEN estimate ELSE bestPlanCost

-----------------------------------------------------------------------------
(* Exhaustive search.                                                      *)

exhaustiveCallback ==
    LET choice == IF fixedPath = << >> THEN 0 ELSE Head(fixedPath)
    IN /\ pc = "plan"
       /\ plugin \in {"exhaustive", "exhaustive_adaptive"}
       /\ ~isComplete(taken)
       /\ fixedPath' = removeFromHead(fixedPath)
       /\ curPath' = Append(curPath, choice)
       /\ numChoices' = Append(numChoices, numOptions(taken))
       /\ follow(choice)
       /\ UNCHANGED << query, plugin, pc, currentPlan, currentCost, bestPlan,
                       bestPlanCost, planCount, anneal, bal, built >>

\* Mutant: the choice is advanced one option beyond the last.
advanceOneMore(path, num) ==
    LET open == {i \in DOMAIN path : path[i] # num[i]}
        last == Max(open)
    IN IF open = {} THEN << >>
       ELSE Append(SubSeq(path, 1, last - 1), path[last] + 1)

\* The path without its exhausted tail, the last choice of the rest advanced.
advance(path, num) ==
    LET open == {i \in DOMAIN path : path[i] + 1 # num[i]}
        last == Max(open)
    IN IF open = {} THEN << >>
       ELSE Append(SubSeq(path, 1, last - 1), path[last] + 1)

exhaustiveGenerateNextChoice ==
    /\ pc = "next"
    /\ plugin \in {"exhaustive", "exhaustive_adaptive"}
    /\ updateBestPlan(currentPlan, currentCost)
    /\ fixedPath' = advance(curPath, numChoices)
    /\ curPath' = << >>
    /\ numChoices' = << >>
    /\ afterChoice(fixedPath' # << >>)
    /\ UNCHANGED << query, plugin, taken, anneal, bal, built >>

-----------------------------------------------------------------------------
(* Simulated annealing.                                                    *)

\* Beyond the fixed prefix a random choice is recorded on the path, but the
\* first option is what the caller gets.
simannCallback ==
    /\ pc = "plan"
    /\ plugin = "sim_ann"
    /\ ~isComplete(taken)
    /\ \E recorded \in (IF fixedPath = << >> THEN 0 .. numOptions(taken) - 1
                                             ELSE {Head(fixedPath)}) :
          /\ curPath' = Append(curPath, recorded)
          /\ follow(IF fixedPath = << >> THEN 0 ELSE recorded)
    /\ fixedPath' = removeFromHead(fixedPath)
    /\ numChoices' = Append(numChoices, numOptions(taken))
    /\ UNCHANGED << query, plugin, pc, currentPlan, currentCost, bestPlan,
                    bestPlanCost, planCount, anneal, bal, built >>

\* A plan that costs more than the one before may be given up for it; the
\* next plan shares a random prefix with the plan that is kept.
simannGenerateNextChoice ==
    \E back \in BOOLEAN :
      LET prev == anneal.previousPlanCost
          path == IF back THEN anneal.previousPath ELSE curPath
          plan == IF back THEN anneal.previousPlan ELSE currentPlan
          cost == IF back THEN prev ELSE currentCost
      IN /\ pc = "next"
         /\ plugin = "sim_ann"
         /\ back => prev # PLAN_MAX_COST /\ prev < currentCost
         /\ updateBestPlan(plan, cost)
         /\ anneal' = [previousPlan |-> plan, previousPlanCost |-> cost,
                       previousPath |-> path, temp |-> anneal.temp - 1]
         /\ \E pos \in 1 .. Max({1, Len(path)}) :
               fixedPath' = IF path = << >> THEN << -1 >> ELSE SubSeq(path, 1, pos)
         /\ curPath' = << >>
         /\ numChoices' = << >>
         /\ afterChoice(TRUE)
         /\ UNCHANGED << query, plugin, taken, bal, built >>

-----------------------------------------------------------------------------
(* Balanced search: the first and the last path of the tree span an        *)
(* interval, and a path in the middle of an interval splits it in two.     *)

commonPrefixLength(l, h) ==
    LET agree(k) == \A i \in 1 .. k : l[i] = h[i]
    IN Max({k \in 0 .. Min({Len(l), Len(h)}) : agree(k)})

\* The number of options that belongs to position i: paths and numbers of
\* options are walked from their tails.
optionsAt(path, num, i) ==
    LET j == i + Len(num) - Len(path) IN IF j \in DOMAIN num THEN num[j] ELSE -1

\* Mutant: the positions behind the one that is advanced keep their options.
addOneNoReset(path, num) ==
    LET open == {i \in DOMAIN path : path[i] + 1 # optionsAt(path, num, i)}
        last == Max(open)
    IN IF open = {} THEN << >>
       ELSE [i \in DOMAIN path |-> IF i = last THEN path[i] + 1 ELSE path[i]]

addOne(path, num) ==
    LET open == {i \in DOMAIN path : path[i] + 1 # optionsAt(path, num, i)}
        last == Max(open)
    IN IF open = {} THEN << >>
       ELSE [i \in DOMAIN path |-> IF i < last THEN path[i]
                                   ELSE IF i = last THEN path[i] + 1 ELSE 0]

minusOne(path, num) ==
    LET open == {i \in DOMAIN path : path[i] # 0}
        last == Max(open)
    IN IF open = {} THEN << >>
       ELSE [i \in DOMAIN path |->
               IF i < last THEN path[i]
               ELSE IF i = last THEN path[i] - 1 ELSE optionsAt(path, num, i) - 1]

\* The elements are compared as the pointers that overlay them in a list
\* cell: a negative one is beyond all others.
below(a, b) == IF (a < 0) = (b < 0) THEN a < b ELSE b < 0

checkCompare(l, h) ==
    /\ Len(l) = Len(h)
    /\ \E i \in DOMAIN l : below(l[i], h[i]) /\ \A j \in 1 .. i - 1 : l[j] = h[j]

isMiddle(len) == len > 1 /\ len % 2 = 0

\* The path balancedCallback is expected to build for the interval l .. h.
generateNextPlan(lhFlag, l, h, num) ==
    LET common == commonPrefixLength(l, h)
        step(acc, i) ==
            LET n == IF i \in DOMAIN num THEN num[i] ELSE -1
                put(c, flag, help) == [path |-> Append(acc.path, c),
                                       flag |-> flag, help |-> help]
            IN CASE i <= common -> put(h[i], acc.flag, acc.help)
                 [] i > common /\ ~acc.help /\ isMiddle(h[i] - l[i]) ->
                      put((h[i] - l[i]) \div 2, acc.flag, TRUE)
                 [] i > common /\ acc.help /\ n > 2 /\ n % 2 # 0 ->
                      put((n - 1) \div 2, acc.flag, acc.help)
                 [] OTHER -> IF acc.flag = 0 THEN put(0, 1, acc.help)
                                             ELSE put(n - 1, 0, acc.help)
        positions == [i \in 1 .. Min({Len(l), Len(h)}) |-> i]
    IN FoldLeft(step, [path |-> << >>, flag |-> lhFlag, help |-> FALSE],
                positions).path

\* A half of a split interval, with the prediction of what lhFlag would build
\* in it: when the prediction falls on or beyond an end, a neighbour of that
\* end is built instead.
newInterval(lhFlag, begin, end) ==
    LET next == generateNextPlan(lhFlag, begin, end, numChoices)
        interval(flag, help) ==
            [EmptyInterval EXCEPT !.lhFlag = flag, !.begin = begin, !.end = end,
                                  !.numContinues = commonPrefixLength(begin, end),
                                  !.helpPath = help, !.helpEnd = end]
    IN CASE next = begin -> interval(2, addOne(begin, numChoices))
         [] next # begin /\ next = end -> interval(3, minusOne(end, numChoices))
         [] next # end /\ checkCompare(next, begin) ->
              interval(4, addOne(begin, numChoices))
         [] next # begin /\ ~checkCompare(next, begin) /\ checkCompare(end, next) ->
              interval(5, minusOne(end, numChoices))
         [] OTHER -> interval(lhFlag, begin)

\* The copy that is used drops the end the middle is computed from.
copyBalancedInterval(bl) == [bl EXCEPT !.helpEnd = << >>, !.helpFlag = 0]

\* The intervals left and right of the path just built, unless it is the
\* neighbour of the end of the interval.
splitInterval(bl) ==
    (IF curPath = addOne(bl.begin, numChoices) THEN << >>
     ELSE << newInterval(0, bl.begin, curPath) >>)
    \o (IF bl.end = addOne(curPath, numChoices) THEN << >>
        ELSE << newInterval(1, curPath, bl.end) >>)

balancedNext(b) ==
    LET bl == [b.bl EXCEPT !.helpFlag = 0]
        whole == [bl EXCEPT !.end = curPath, !.helpPath = bl.begin, !.helpEnd = curPath,
                            !.numContinues = commonPrefixLength(bl.begin, curPath)]
        fifo == removeFromHead(b.fifo \o splitInterval(bl))
    IN CASE b.count = 1 -> [count |-> 2, fifo |-> b.fifo,
                            bl |-> [bl EXCEPT !.begin = curPath]]
         [] b.count = 2 -> [count |-> 3, bl |-> whole,
                            fifo |-> Append(b.fifo, copyBalancedInterval(whole))]
         [] OTHER -> [count |-> b.count + 1, fifo |-> fifo,
                      bl |-> IF fifo = << >> THEN bl
                             ELSE copyBalancedInterval(Head(fifo))]

balancedGenerateNextChoice ==
    /\ pc = "next"
    /\ plugin = "balance"
    /\ updateBestPlan(currentPlan, currentCost)
    /\ bal' = balancedNext(bal)
    /\ curPath' = << >>
    /\ numChoices' = << >>
    /\ afterChoice(bal'.fifo # << >> \/ bal.count = 1)
    /\ UNCHANGED << query, plugin, taken, fixedPath, anneal, built >>

\* The choice inside an interval, whether it is recorded on the path (one
\* case forgets to), and what it leaves of the interval.
intervalChoice(bl, n) ==
    LET len == getHead(bl.helpEnd) - getHead(bl.helpPath)
        used == [bl EXCEPT !.helpPath = removeFromHead(@), !.helpEnd = removeFromHead(@)]
        answer(c, rec, help) ==
            [choice |-> c, recorded |-> rec,
             bl |-> [used EXCEPT !.previousLH = c, !.helpFlag = help]]
        first == bl.previousLH = -1
    IN CASE bl.lhFlag >= 2 ->
              [choice |-> getHead(bl.helpPath), recorded |-> TRUE,
               bl |-> [bl EXCEPT !.helpPath = removeFromHead(@)]]
         [] bl.lhFlag < 2 /\ bl.numContinues > 0 ->
              [choice |-> getHead(bl.helpPath), recorded |-> TRUE,
               bl |-> [used EXCEPT !.numContinues = @ - 1]]
         [] OTHER ->
              CASE first /\ bl.helpFlag = 0 /\ isMiddle(len) -> answer(len \div 2, TRUE, 1)
                [] first /\ bl.helpFlag = 1 /\ n > 2 /\ n % 2 # 0 ->
                     answer((n - 1) \div 2, TRUE, bl.helpFlag)
                [] ~first /\ isMiddle(len) -> answer(len \div 2, TRUE, bl.helpFlag)
                [] ~first /\ ~isMiddle(len) /\ bl.previousLH \notin {0, 1} ->
                     answer(0, FALSE, bl.helpFlag)
                [] OTHER ->
                     answer(IF (first /\ bl.lhFlag = 0) \/ (~first /\ bl.previousLH = 1)
                              THEN 0 ELSE n - 1, TRUE, bl.helpFlag)

balancedCallback ==
    LET n == numOptions(taken)
        in == intervalChoice(bal.bl, n)
        choice == CASE bal.count = 1 -> 0
                    [] bal.count = 2 -> n - 1
                    [] OTHER -> in.choice
    IN /\ pc = "plan"
       /\ plugin = "balance"
       /\ ~isComplete(taken)
       /\ curPath' = IF bal.count > 2 /\ ~in.recorded THEN curPath
                                                     ELSE Append(curPath, choice)
       /\ numChoices' = Append(numChoices, n)
       /\ bal' = IF bal.count > 2 THEN [bal EXCEPT !.bl = in.bl] ELSE bal
       /\ follow(choice)
       /\ UNCHANGED << query, plugin, pc, fixedPath, currentPlan, currentCost,
                       bestPlan, bestPlanCost, planCount, anneal, built >>

-----------------------------------------------------------------------------
Next ==
    \/ startPlan
    \/ stopLoop
    \/ \E cost \in query.costs : finishPlan(cost)
    \/ exhaustiveCallback
    \/ exhaustiveGenerateNextChoice
    \/ simannCallback
    \/ simannGenerateNextChoice
    \/ balancedCallback
    \/ balancedGenerateNextChoice

\* doCostBasedOptimization is sequential code that runs until it returns.
Spec == Init /\ [][Next]_vars /\ WF_vars(Next)

-----------------------------------------------------------------------------
(* Properties.                                                             *)

exhaustiveSearch == plugin \in {"exhaustive", "exhaustive_adaptive"}

\* While a plan is generated, the path the exhaustive search has recorded is
\* the path plan generation really took, and what is left of the fixed path
\* leads on through choice points of this plan: the choices computed from the
\* previous plan fit the choice points the next plan has.
ReplayFitsPlan ==
    pc = "plan" /\ exhaustiveSearch =>
        LET ahead == taken \o fixedPath
        IN /\ curPath = taken
           /\ \A i \in DOMAIN ahead :
                 /\ SubSeq(ahead, 1, i - 1) \in DOMAIN tree
                 /\ ahead[i] < tree[SubSeq(ahead, 1, i - 1)]

\* All inner choices have two options and all plans are equally long.
isBinary(t) == /\ \A p \in DOMAIN t : t[p] = 2
               /\ \A p, q \in plansOf(t) : Len(p) = Len(q)

\* Over a complete binary tree the intervals of the balanced search split the
\* plans between them: no plan is built twice, and when the queue of intervals
\* runs empty before the limit every plan has been built.
BalancedCovers ==
    plugin = "balance" /\ DOMAIN tree # {} /\ isBinary(tree) =>
        LET done == {built[i].plan : i \in DOMAIN built}
        IN /\ Cardinality(done) = Len(built)
           /\ pc = "break" => done = plansOf(tree)

\* The plans whose cost the search has taken into account.
considered == IF pc = "next" THEN Front(built) ELSE built

Considered == {considered[i].plan : i \in DOMAIN considered}
Blind == \E i \in DOMAIN considered : considered[i].cost < 0
Best == IF bestPlan = NoPlan THEN NoPlan
        ELSE [plan |-> bestPlan, cost |-> bestPlanCost]

PS == INSTANCE PlanSearch WITH
          Costs      <- UNION {q.costs : q \in Query},
          limit      <- query.maxPlans,
          plans      <- IF exhaustiveSearch THEN plansOf(tree) ELSE endsOf(tree),
          exhaustive <- exhaustiveSearch,
          adaptive   <- plugin = "exhaustive_adaptive",
          built      <- Considered,
          blind      <- Blind,
          best       <- Best,
          stopped    <- pc = "done"

\* The main loop with any of its strategies implements the abstract search:
\* the plan returned is the first of the cheapest plans built, and the
\* exhaustive strategies build every plan once, up to the limit.
Implements == PS!Spec
-----------------------------------------------------------------------------
(***************************************************************************)
(* The inductive invariants of the proofs.                                 *)
(***************************************************************************)

\* Every step of the path is an option of a choice point.
Fits(path) ==
    \A i \in DOMAIN path : /\ SubSeq(path, 1, i - 1) \in DOMAIN tree
                           /\ path[i] \in 0 .. tree[SubSeq(path, 1, i - 1)] - 1

\* The order in which the exhaustive search builds the plans.
Before(p, q) ==
    \E k \in DOMAIN p \intersect DOMAIN q :
        p[k] < q[k] /\ \A j \in 1 .. k - 1 : p[j] = q[j]

TypeInv ==
    /\ query \in Query /\ plugin \in Plugin
    /\ pc \in {"loop", "plan", "next", "break", "done"}
    /\ taken \in Seq(Int)
    /\ numChoices \in Seq(1 .. MaxOptions)
    /\ built \in Seq([plan : Seq(Int), cost : Int])
    /\ planCount \in Nat
    /\ pc \in {"plan", "next"} => planCount <= query.maxPlans
    /\ anneal.temp \in Int

\* Where a plan ends.
PlanInv ==
    pc \in {"plan", "next"} =>
        /\ taken # << >> => /\ Front(taken) \in DOMAIN tree
                            /\ Last(taken) \in answers(query.maxPlans)
        /\ pc = "next" => isComplete(taken)

\* The best plan is the first of the cheapest that were considered, and the
\* plan simulated annealing may return to was one of them.
CostInv ==
    /\ bestPlanCost \in Int
    /\ IF bestPlan = NoPlan
       THEN bestPlanCost = PLAN_MAX_COST
       ELSE bestPlan \in Seq(Int) /\ bestPlanCost \in 0 .. PLAN_MAX_COST - 1
    /\ pc = "next" =>
          /\ currentPlan = taken /\ currentCost \in query.costs /\ built # << >>
          /\ Last(built) = [plan |-> taken, cost |-> currentCost]
    /\ anneal.previousPlanCost \in Int
    /\ anneal.previousPlanCost \in 0 .. PLAN_MAX_COST - 1 =>
          bestPlanCost <= anneal.previousPlanCost
    /\ anneal.previousPlanCost < 0 => Blind
    /\ considered = << >> => /\ planCount = 0 /\ pc # "break"
                             /\ bestPlan = NoPlan /\ anneal.temp = Rounds

\* What simulated annealing may answer.
AnnealInv ==
    plugin = "sim_ann" =>
        {fixedPath, curPath, anneal.previousPath} \subseteq Seq(-1 .. MaxOptions)

\* What the balanced search may answer: its numbers move away from the options
\* by at most one with every plan.
IntervalOf(Path) ==
    [lhFlag : Int, begin : Path, end : Path, numContinues : Int,
     previousLH : Int, helpPath : Path, helpEnd : Path, helpFlag : Int]

Interval(plansBuilt) == IntervalOf(Seq(answers(plansBuilt)))

Balance(plansBuilt) == [count : Nat, fifo : Seq(Interval(plansBuilt)),
                        bl : Interval(plansBuilt)]

BalancedInv ==
    plugin = "balance" /\ pc \in {"loop", "plan", "next"} =>
        /\ curPath \in Seq(answers(planCount))
        /\ bal \in Balance(planCount)

\* The path the exhaustive search has made for the next plan.
position == IF pc = "loop" THEN fixedPath ELSE taken \o fixedPath

ReplayInv ==
    exhaustiveSearch =>
        /\ {fixedPath, curPath} \subseteq Seq(Nat)
        /\ pc = "loop" => curPath = << >> /\ numChoices = << >>
        /\ pc \in {"loop", "plan", "next"} => position \in Seq(Nat) /\ Fits(position)
        /\ pc \in {"plan", "next"} =>
              /\ curPath = taken /\ Len(numChoices) = Len(taken)
              /\ \A i \in DOMAIN taken : numChoices[i] = tree[SubSeq(taken, 1, i - 1)]
        /\ pc = "next" => fixedPath = << >>

\* It has considered the plans before that path, and no other.
EnumInv ==
    exhaustiveSearch =>
        /\ IsFiniteSet(Considered)
        /\ pc \in {"loop", "plan", "next"} =>
              /\ Considered = {p \in plansOf(tree) : Before(p, position)}
              /\ Cardinality(Considered) = planCount
        /\ pc = "break" => Considered = plansOf(tree)

IInv == /\ TypeInv /\ PlanInv /\ CostInv /\ AnnealInv /\ BalancedInv
        /\ ReplayInv /\ EnumInv
=============================================================================
