--------------------------- MODULE QOGraphVisitor ---------------------------
(***************************************************************************)
(* visitQOGraph of src/src/model/query_operator/query_operator.c: the      *)
(* traversal of an operator graph that the model checker, the serialisers, *)
(* the optimiser and the temporal rewriter use.  It is a depth-first walk  *)
(* with a set of seen operators in a memory context of its own.  Around    *)
(* each recursive call it releases the current memory context and acquires *)
(* it again, so that a visitor allocates in a context of the caller; with  *)
(* every level it releases one more.                                       *)
(*                                                                         *)
(* Operators are numbered so that an input has a larger number than its    *)
(* parent: the graph is acyclic, as every operator graph is.               *)
(***************************************************************************)
EXTENDS MemStack

CONSTANTS
    NumOps,      \* the operators of the graph are 1 .. NumOps
    MaxInputs,   \* bound: inputs of an operator
    full         \* the caller's stack with the visitor's context on top

Ops == 1 .. NumOps

ASSUME VisitorAssumption ==
    /\ NumOps \in Nat \ {0}
    /\ MaxInputs \in Nat
    /\ full \in Stacks
    /\ Len(full) > 1
    /\ \A i, j \in 1 .. Len(full) : full[i] = full[j] => i = j

\* The graphs below an operator q: every list of inputs of bounded length.
InputLists(q) == UNION {[1 .. n -> q + 1 .. NumOps] : n \in 0 .. MaxInputs}

TraversalOrder == {"PRE", "POST"}
Result == {"none", "TRUE", "FALSE"}

VARIABLES
    inputs,     \* inputs[q]: the inputs of operator q
    tOrder,
    stack,      \* of memory contexts
    calls,      \* the active calls of internalVisitQOGraph, outermost first
    result,     \* what the call that has just ended returned
    haveSeen,
    visited,    \* the operators visitF was called on, in order
    answer      \* what visitQOGraph returned

vars == << inputs, tOrder, stack, calls, result, haveSeen, visited, answer >>

\* A call: the operator, the input it looks at next, and the context it has
\* released around the recursive call for that input.
Call == [q : Ops, i : Nat, ctxt : Ctx \union {NULL}]

TypeOK ==
    /\ inputs \in [Ops -> Seq(Ops)]
    /\ tOrder \in TraversalOrder
    /\ stack \in Stacks
    /\ calls \in Seq(Call)
    /\ \A k \in 1 .. Len(calls) : calls[k].i <= Len(inputs[calls[k].q]) + 1
    /\ result \in Result
    /\ haveSeen \subseteq Ops
    /\ visited \in Seq(Ops)
    /\ answer \in Result

\* visitQOGraph up to its call of internalVisitQOGraph on the root
Init ==
    /\ inputs \in {f \in [Ops -> UNION {InputLists(q) : q \in Ops}] :
                      \A q \in Ops : f[q] \in InputLists(q)}
    /\ tOrder \in TraversalOrder
    /\ stack = full
    /\ calls = << [q |-> 1, i |-> 0, ctxt |-> NULL] >>
    /\ result = "none"
    /\ haveSeen = {}
    /\ visited = << >>
    /\ answer = "none"

Depth == Len(calls)
Cur == calls[Depth]

CallersOf == SubSeq(calls, 1, Depth - 1)

Return(r) ==
    /\ calls' = CallersOf
    /\ result' = r

\* The entry of a call, with the visit of a preorder traversal.
enter(r) ==
    /\ calls # << >> /\ result = "none" /\ Cur.i = 0
    /\ IF tOrder = "PRE"
       THEN /\ visited' = Append(visited, Cur.q)
            /\ IF r = "FALSE"
               THEN Return("FALSE")
               ELSE calls' = [calls EXCEPT ![Depth].i = 1] /\ UNCHANGED result
       ELSE /\ calls' = [calls EXCEPT ![Depth].i = 1]
            /\ UNCHANGED << visited, result >>
    /\ UNCHANGED << inputs, tOrder, stack, haveSeen, answer >>

InLoop == calls # << >> /\ result = "none" /\ Cur.i \in 1 .. Len(inputs[Cur.q])

\* Mutant: the loop goes on with the same input.
skipStays ==
    /\ InLoop
    /\ inputs[Cur.q][Cur.i] \in haveSeen
    /\ UNCHANGED vars

\* The loop over the inputs: one that has been seen is skipped ...
skip ==
    /\ InLoop
    /\ inputs[Cur.q][Cur.i] \in haveSeen
    /\ calls' = [calls EXCEPT ![Depth].i = @ + 1]
    /\ UNCHANGED << inputs, tOrder, stack, result, haveSeen, visited, answer >>

\* Mutant: the input is not added to haveSeen.
descendForgets ==
    LET c == inputs[Cur.q][Cur.i]
        mc == IF Len(stack) > 1 THEN Top(stack) ELSE NULL
    IN  /\ InLoop
        /\ c \notin haveSeen
        /\ stack' = Release(stack)
        /\ calls' = Append([calls EXCEPT ![Depth].ctxt = mc],
                           [q |-> c, i |-> 0, ctxt |-> NULL])
        /\ UNCHANGED << inputs, tOrder, result, haveSeen, visited, answer >>

\* ... and one that has not is visited, with the current context released
descend ==
    LET c == inputs[Cur.q][Cur.i]
        mc == IF Len(stack) > 1 THEN Top(stack) ELSE NULL
    IN  /\ InLoop
        /\ c \notin haveSeen
        /\ haveSeen' = haveSeen \union {c}
        /\ stack' = Release(stack)
        /\ calls' = Append([calls EXCEPT ![Depth].ctxt = mc],
                           [q |-> c, i |-> 0, ctxt |-> NULL])
        /\ UNCHANGED << inputs, tOrder, result, visited, answer >>

\* Mutant: a FALSE is passed on before the context is acquired again.
ascendEarly ==
    /\ calls # << >> /\ result # "none"
    /\ IF result = "FALSE"
       THEN Return("FALSE") /\ UNCHANGED stack
       ELSE /\ stack' = Acquire(stack, Cur.ctxt)
            /\ calls' = [calls EXCEPT ![Depth].i = @ + 1]
            /\ result' = "none"
    /\ UNCHANGED << inputs, tOrder, haveSeen, visited, answer >>

\* Mutant: the loop advances twice.
ascendTwice ==
    /\ calls # << >> /\ result # "none"
    /\ stack' = Acquire(stack, Cur.ctxt)
    /\ IF result = "FALSE"
       THEN Return("FALSE")
       ELSE /\ calls' = [calls EXCEPT ![Depth].i = @ + 2]
            /\ result' = "none"
    /\ UNCHANGED << inputs, tOrder, haveSeen, visited, answer >>

\* The recursive call has returned.
ascend ==
    /\ calls # << >> /\ result # "none"
    /\ stack' = Acquire(stack, Cur.ctxt)
    /\ IF result = "FALSE"
       THEN Return("FALSE")
       ELSE /\ calls' = [calls EXCEPT ![Depth].i = @ + 1]
            /\ result' = "none"
    /\ UNCHANGED << inputs, tOrder, haveSeen, visited, answer >>

\* The end of a call, with the visit of a postorder traversal.
leave(r) ==
    /\ calls # << >> /\ result = "none" /\ Cur.i > Len(inputs[Cur.q])
    /\ IF tOrder = "POST"
       THEN visited' = Append(visited, Cur.q) /\ Return(r)
       ELSE Return("TRUE") /\ UNCHANGED visited
    /\ UNCHANGED << inputs, tOrder, stack, haveSeen, answer >>

\* The end of visitQOGraph: free and release the visitor's context.
visitQOGraph ==
    /\ calls = << >> /\ answer = "none"
    /\ stack' = Release(stack)
    /\ answer' = result
    /\ UNCHANGED << inputs, tOrder, calls, result, haveSeen, visited >>

Next ==
    \/ \E r \in {"TRUE", "FALSE"} : enter(r)
    \/ skip
    \/ descend
    \/ ascend
    \/ \E r \in {"TRUE", "FALSE"} : leave(r)
    \/ visitQOGraph

\* Sequential code: it keeps running.
Spec == Init /\ [][Next]_vars /\ WF_vars(Next)

-----------------------------------------------------------------------------

\* The operators of the graph: the root and what it reaches over inputs.
InputsOf(q) == {inputs[q][i] : i \in 1 .. Len(inputs[q])}

IsGraph(S) == 1 \in S /\ \A q \in S : InputsOf(q) \subseteq S

Visited == {visited[i] : i \in 1 .. Len(visited)}

\* No operator is visited twice, although the root is never added to haveSeen
\* and operators are shared (a subquery used twice, a self join).
VisitedOnce ==
    \A i, j \in 1 .. Len(visited) : visited[i] = visited[j] => i = j

\* When no visitor said FALSE, exactly the operators of the graph have been
\* visited: the smallest set that holds the root and the inputs of its members.
AllVisited ==
    answer = "TRUE" =>
        /\ IsGraph(Visited)
        /\ \A S \in SUBSET Visited : IsGraph(S) => S = Visited

\* Postorder visits the inputs of an operator before the operator, preorder
\* visits some parent of it before.
VisitOrder ==
    \A n \in 1 .. Len(visited) :
        LET before == {visited[m] : m \in 1 .. n - 1}
        IN  IF tOrder = "POST"
            THEN InputsOf(visited[n]) \subseteq before
            ELSE visited[n] # 1 => \E p \in before : visited[n] \in InputsOf(p)

\* The caller gets its stack of memory contexts back, with its own context on
\* top, whichever visitor said FALSE and however much deeper than the stack
\* the graph is.
StackRestored ==
    /\ answer # "none" => stack = SubSeq(full, 1, Len(full) - 1)
    /\ calls = << >> /\ answer = "none" => stack = full

\* The traversal ends.
Terminates == <>(answer # "none")

\* What makes StackRestored inductive: the stack is what is left of the full
\* one after a release per level, and every waiting call holds the context
\* that its acquire puts back.
Left(d) == IF d < Len(full) THEN Len(full) - d ELSE 1

Waiting == IF result = "none" THEN Depth - 1 ELSE Depth

StackByDepth ==
    answer = "none" =>
        /\ stack = SubSeq(full, 1, Left(Waiting))
        /\ \A k \in 1 .. Waiting :
              calls[k].ctxt = IF k < Len(full) THEN full[Len(full) - k + 1] ELSE NULL

\* The inductive invariant: with it, every waiting call is inside its loop, a
\* traversal without calls has a result, and its end restores the stack.
IInv ==
    /\ TypeOK
    /\ \A k \in 1 .. Waiting : calls[k].i \in 1 .. Len(inputs[calls[k].q])
    /\ calls = << >> => result # "none"
    /\ answer # "none" => calls = << >> /\ stack = SubSeq(full, 1, Len(full) - 1)
    /\ StackByDepth

\* What makes VisitedOnce, AllVisited and VisitOrder inductive.  The operators
\* of the active calls, and all for which there has been a call.
Active == {calls[k].q : k \in 1 .. Depth}
Entered == haveSeen \union {1}

Acyclic == \A q \in Ops : \A p \in InputsOf(q) : q < p

\* The active calls are a path from the root, each of its operators the input
\* that the call before is at.
CallPath ==
    /\ calls # << >> => calls[1].q = 1
    /\ \A k \in 2 .. Depth :
          /\ calls[k].q \in haveSeen
          /\ calls[k].q = inputs[calls[k - 1].q][calls[k - 1].i]
    /\ \A j, k \in 1 .. Depth : j < k => calls[j].q < calls[k].q

\* A preorder traversal has visited the operators of the active calls but one
\* that has only been entered, a postorder traversal none of them.
Marked ==
    /\ Visited \subseteq Entered
    /\ \A k \in 1 .. Depth :
          calls[k].q \in Visited <=> (tOrder = "PRE" /\ calls[k].i > 0)

\* As long as no visitor has said FALSE, a call that has returned has visited
\* its operator and seen its inputs, and an active one those it is past.
Explored ==
    result # "FALSE" =>
        /\ \A q \in Entered \ Active : q \in Visited /\ InputsOf(q) \subseteq haveSeen
        /\ \A k \in 1 .. Depth : \A j \in 1 .. Len(inputs[calls[k].q]) :
              j < calls[k].i \/ (j = calls[k].i /\ k <= Waiting)
                  => inputs[calls[k].q][j] \in haveSeen

\* Nothing but operators of the graph is entered.
InGraph == \A S \in SUBSET Ops : IsGraph(S) => Entered \subseteq S

TInv ==
    /\ Acyclic
    /\ 1 \notin haveSeen
    /\ CallPath
    /\ Marked
    /\ Explored
    /\ InGraph
    /\ VisitedOnce
    /\ VisitOrder
    /\ answer # "none" => answer = result
=============================================================================
