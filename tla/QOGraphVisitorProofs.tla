------------------------ MODULE QOGraphVisitorProofs ------------------------
(***************************************************************************)
(* Proofs about QOGraphVisitor: whatever the operator graph, the depth of  *)
(* the stack of memory contexts and the answers of the visitor,            *)
(* visitQOGraph gives its caller the stack of contexts back (the first     *)
(* part), and it visits every operator of the graph once and nothing else, *)
(* in the order asked for, however the operators are shared (the second).  *)
(***************************************************************************)
EXTENDS QOGraphVisitor, TLAPS

USE CtxAssumption, VisitorAssumption

\* The numbers of a stack and of what is left of it at a depth.
LEMMA LeftFacts ==
    ASSUME NEW d \in Nat
    PROVE  /\ Len(full) \in Nat
           /\ Left(d) \in 1 .. Len(full)
           /\ Left(0) = Len(full)
           /\ Left(d + 1) = IF Left(d) > 1 THEN Left(d) - 1 ELSE Left(d)
           /\ d + 1 < Len(full) <=> Left(d) > 1
           /\ d + 1 < Len(full) => Left(d) = Len(full) - d
  <1>1. Len(full) \in Nat /\ Len(full) > 1
    BY DEF Stacks
  <1> QED
    BY <1>1 DEF Left

\* A prefix of the full stack.
LEMMA PrefixOfFull ==
    ASSUME NEW n \in 1 .. Len(full)
    PROVE  /\ SubSeq(full, 1, n) \in Stacks
           /\ Len(SubSeq(full, 1, n)) = n
           /\ \A i \in 1 .. n : SubSeq(full, 1, n)[i] = full[i]
  BY DEF Stacks

\* The release around a recursive call leaves the next shorter prefix.
LEMMA ReleaseOneLevel ==
    ASSUME NEW d \in Nat
    PROVE  Release(SubSeq(full, 1, Left(d))) = SubSeq(full, 1, Left(d + 1))
  <1> DEFINE s == SubSeq(full, 1, Left(d))
  <1>1. Left(d) \in 1 .. Len(full) /\ Len(full) \in Nat
    BY LeftFacts
  <1>2. /\ s \in Stacks /\ Len(s) = Left(d)
        /\ \A i \in 1 .. Left(d) : s[i] = full[i]
    BY <1>1, PrefixOfFull
  <1>3. CASE Left(d) > 1
    <2>1. Left(d + 1) = Left(d) - 1 /\ Left(d + 1) \in 1 .. Len(full)
      BY <1>1, <1>3, LeftFacts
    <2>2. Release(s) = SubSeq(s, 1, Left(d) - 1)
      BY <1>2, <1>3 DEF Release
    <2>3. SubSeq(s, 1, Left(d) - 1) = SubSeq(full, 1, Left(d) - 1)
      BY <1>1, <1>2, <1>3, <2>1 DEF Stacks
    <2> QED
      BY <2>1, <2>2, <2>3
  <1>4. CASE ~(Left(d) > 1)
    <2>1. Left(d + 1) = Left(d)
      BY <1>4, LeftFacts
    <2> QED
      BY <1>2, <1>4, <2>1 DEF Release
  <1> QED
    BY <1>3, <1>4

\* The context that a call at depth d + 1 keeps, and the acquire that undoes
\* the release.
Kept(k) == IF k < Len(full) THEN full[Len(full) - k + 1] ELSE NULL

LEMMA AcquireOneLevel ==
    ASSUME NEW d \in Nat
    PROVE  Acquire(SubSeq(full, 1, Left(d + 1)), Kept(d + 1)) = SubSeq(full, 1, Left(d))
  <1> DEFINE s == SubSeq(full, 1, Left(d + 1))
  <1>1. /\ Len(full) \in Nat /\ d + 1 \in Nat
        /\ Left(d) \in 1 .. Len(full) /\ Left(d + 1) \in 1 .. Len(full)
    <2>1. d + 1 \in Nat
      OBVIOUS
    <2>2. Left(d + 1) \in 1 .. Len(full)
      BY <2>1, LeftFacts
    <2> QED
      BY <2>1, <2>2, LeftFacts
  <1>2. /\ s \in Stacks /\ Len(s) = Left(d + 1)
        /\ \A i \in 1 .. Left(d + 1) : s[i] = full[i]
    BY <1>1, PrefixOfFull
  <1>3. CASE d + 1 < Len(full)
    <2>1. /\ Left(d) = Len(full) - d /\ Left(d) > 1
          /\ Left(d + 1) = Left(d) - 1
      BY <1>3, LeftFacts
    <2>2. Kept(d + 1) = full[Left(d)] /\ full[Left(d)] \in Ctx
      BY <1>1, <1>3, <2>1 DEF Kept, Stacks
    <2>3. full[Left(d)] # full[Left(d) - 1] /\ full[Left(d)] # NULL
      BY <1>1, <2>1, <2>2
    <2>4. Top(s) = full[Left(d) - 1]
      BY <1>1, <1>2, <2>1 DEF Top
    <2>5. Acquire(s, Kept(d + 1)) = Append(s, full[Left(d)])
      BY <2>2, <2>3, <2>4 DEF Acquire
    <2>6. Append(s, full[Left(d)]) = SubSeq(full, 1, Left(d))
      <3>1. /\ SubSeq(full, 1, Left(d)) \in Stacks /\ Len(SubSeq(full, 1, Left(d))) = Left(d)
            /\ \A i \in 1 .. Left(d) : SubSeq(full, 1, Left(d))[i] = full[i]
        BY <1>1, PrefixOfFull
      <3>2. /\ Append(s, full[Left(d)]) \in Stacks
            /\ Len(Append(s, full[Left(d)])) = Left(d)
            /\ \A i \in 1 .. Left(d) : Append(s, full[Left(d)])[i] = full[i]
        BY <1>1, <1>2, <2>1, <2>2 DEF Stacks
      <3> QED
        BY <3>1, <3>2 DEF Stacks
    <2> QED
      BY <2>5, <2>6
  <1>4. CASE ~(d + 1 < Len(full))
    <2>1. Left(d + 1) = Left(d)
      BY <1>4, LeftFacts
    <2>2. Kept(d + 1) = NULL
      BY <1>1, <1>4 DEF Kept
    <2> QED
      BY <2>1, <2>2 DEF Acquire
  <1> QED
    BY <1>3, <1>4

-----------------------------------------------------------------------------

\* The calls that remain after a return are a prefix of the ones before.
LEMMA CallersFacts ==
    ASSUME TypeOK, calls # << >>
    PROVE  /\ Depth \in Nat \ {0} /\ Cur \in Call
           /\ CallersOf \in Seq(Call) /\ Len(CallersOf) = Depth - 1
           /\ \A k \in 1 .. Depth - 1 : CallersOf[k] = calls[k]
  <1>1. calls \in Seq(Call)
    BY DEF TypeOK
  <1>2. Depth \in Nat \ {0} /\ Cur \in Call
    BY <1>1 DEF Depth, Cur
  <1>3. Depth - 1 \in 0 .. Len(calls)
    BY <1>1, <1>2 DEF Depth
  <1>4. /\ CallersOf \in Seq(Call) /\ Len(CallersOf) = Depth - 1
        /\ \A k \in 1 .. Depth - 1 : CallersOf[k] = calls[k]
    BY <1>1, <1>2, <1>3 DEF CallersOf
  <1> QED
    BY <1>2, <1>4

\* The last call with another i, and the other calls as they are.
LEMMA AdvanceFacts ==
    ASSUME TypeOK, calls # << >>, NEW n \in Nat, calls' = [calls EXCEPT ![Depth].i = n]
    PROVE  /\ calls' \in Seq(Call) /\ Len(calls') = Depth
           /\ \A k \in 1 .. Depth - 1 : calls'[k] = calls[k]
           /\ calls'[Depth].i = n /\ calls'[Depth].q = Cur.q /\ calls'[Depth].ctxt = Cur.ctxt
  <1>1. calls \in Seq(Call) /\ Depth \in 1 .. Len(calls) /\ Depth = Len(calls)
    BY CallersFacts DEF TypeOK, Depth
  <1>2. calls[Depth] \in Call
    BY <1>1
  <1>3. [calls[Depth] EXCEPT !.i = n] \in Call
    BY <1>2 DEF Call
  <1>4. calls' \in Seq(Call) /\ Len(calls') = Depth
    BY <1>1, <1>2, <1>3
  <1>5. \A k \in 1 .. Depth - 1 : calls'[k] = calls[k]
    BY <1>1
  <1>6. calls'[Depth] = [calls[Depth] EXCEPT !.i = n]
    BY <1>1
  <1> QED
    BY <1>2, <1>4, <1>5, <1>6 DEF Cur, Call

LEMMA InitIInv == Init => IInv
  <1> SUFFICES ASSUME Init PROVE IInv
    OBVIOUS
  <1> USE DEF Init
  <1>1. 1 \in Ops
    BY DEF Ops
  <1>2. inputs \in [Ops -> Seq(Ops)]
    <2>1. \A q \in Ops : inputs[q] \in InputLists(q)
      OBVIOUS
    <2>2. ASSUME NEW q \in Ops PROVE InputLists(q) \subseteq Seq(Ops)
      <3> SUFFICES ASSUME NEW n \in 0 .. MaxInputs, NEW f \in [1 .. n -> q + 1 .. NumOps]
                   PROVE  f \in Seq(Ops)
        BY DEF InputLists
      <3>1. q + 1 .. NumOps \subseteq Ops
        BY DEF Ops
      <3>2. n \in Nat
        OBVIOUS
      <3>3. f \in [1 .. n -> Ops]
        BY <3>1
      <3> QED
        BY <3>2, <3>3
    <2> QED
      BY <2>1, <2>2
  <1>3. /\ calls \in Seq(Call) /\ Len(calls) = 1 /\ calls[1].i = 0 /\ calls[1].q = 1
        /\ calls # << >>
    BY <1>1 DEF Call
  <1>4. Waiting = 0
    BY <1>3 DEF Waiting, Depth
  <1>5. TypeOK
    <2>1. \A k \in 1 .. Len(calls) : calls[k].i <= Len(inputs[calls[k].q]) + 1
      BY <1>1, <1>2, <1>3
    <2> QED
      BY <1>2, <1>3, <2>1 DEF TypeOK, Result
  <1>6. Left(0) = Len(full)
    BY LeftFacts
  <1>7. full = SubSeq(full, 1, Len(full))
    BY DEF Stacks
  <1>8. StackByDepth
    BY <1>4, <1>6, <1>7 DEF StackByDepth
  <1> QED
    BY <1>3, <1>4, <1>5, <1>8 DEF IInv

-----------------------------------------------------------------------------

\* A step that leaves the stack, the number of waiting calls and these calls
\* as they are keeps the invariant.
LEMMA SameStack ==
    ASSUME IInv, TypeOK', calls # << >>,
           UNCHANGED << inputs, stack, answer >>,
           Waiting' = Waiting,
           \A k \in 1 .. Waiting : calls'[k] = calls[k],
           calls' = << >> => result' # "none"
    PROVE  IInv'
  <1>1. answer = "none"
    BY DEF IInv
  <1>2. \A k \in 1 .. Waiting' : calls'[k].i \in 1 .. Len(inputs'[calls'[k].q])
    BY DEF IInv
  <1>3. StackByDepth'
    BY <1>1 DEF IInv, StackByDepth
  <1> QED
    BY <1>1, <1>2, <1>3 DEF IInv

\* A call that returns leaves the calls below it waiting.
LEMMA ReturnFacts ==
    ASSUME IInv, calls # << >>, NEW r \in {"TRUE", "FALSE"}, Return(r)
    PROVE  /\ calls' \in Seq(Call) /\ result' \in Result /\ result' # "none"
           /\ Waiting' = Depth - 1
           /\ Len(calls') = Depth - 1
           /\ \A k \in 1 .. Depth - 1 : calls'[k] = calls[k]
  <1>1. calls' = CallersOf /\ result' = r
    BY DEF Return
  <1>2. TypeOK
    BY DEF IInv
  <1>3. Len(calls') = Depth - 1
    BY <1>1, <1>2, CallersFacts
  <1> QED
    BY <1>1, <1>2, <1>3, CallersFacts DEF Waiting, Depth, Result

\* The calls of a state are within the inputs of their operators.
LEMMA CallBound ==
    ASSUME TypeOK
    PROVE  /\ inputs \in [Ops -> Seq(Ops)]
           /\ \A k \in 1 .. Depth : calls[k].i <= Len(inputs[calls[k].q]) + 1
  BY DEF TypeOK, Depth

\* The running call goes on to another input, with the stack as it is.
LEMMA AdvanceStep ==
    ASSUME IInv, calls # << >>, result = "none",
           NEW n \in Nat, n <= Len(inputs[Cur.q]) + 1,
           calls' = [calls EXCEPT ![Depth].i = n],
           UNCHANGED << inputs, tOrder, stack, result, haveSeen, answer >>,
           visited' \in Seq(Ops)
    PROVE  IInv'
  <1>0. TypeOK
    BY DEF IInv
  <1>1. Depth \in Nat \ {0} /\ Cur = calls[Depth]
    BY <1>0, CallersFacts DEF Cur
  <1>2. /\ calls' \in Seq(Call) /\ Len(calls') = Depth
        /\ \A k \in 1 .. Depth - 1 : calls'[k] = calls[k]
        /\ calls'[Depth].i = n /\ calls'[Depth].q = Cur.q
    BY <1>0, AdvanceFacts
  <1>3. \A k \in 1 .. Len(calls') : calls'[k].i <= Len(inputs'[calls'[k].q]) + 1
    <2> SUFFICES ASSUME NEW k \in 1 .. Depth
                 PROVE  calls'[k].i <= Len(inputs[calls'[k].q]) + 1
      BY <1>2
    <2>1. CASE k = Depth
      BY <1>2, <2>1
    <2>2. CASE k # Depth
      <3>1. calls'[k] = calls[k]
        BY <1>1, <1>2, <2>2
      <3>2. calls[k].i <= Len(inputs[calls[k].q]) + 1
        BY <1>0, CallBound
      <3> QED
        BY <3>1, <3>2
    <2> QED
      BY <2>1, <2>2
  <1>4. TypeOK'
    BY <1>0, <1>2, <1>3 DEF TypeOK
  <1>5. Waiting = Depth - 1 /\ Waiting' = Depth - 1 /\ calls' # << >>
    BY <1>1, <1>2 DEF Waiting, Depth
  <1> QED
    BY <1>2, <1>4, <1>5, SameStack

\* The running call returns, with the stack as it is.
LEMMA ReturnStep ==
    ASSUME IInv, calls # << >>, result = "none",
           NEW r \in {"TRUE", "FALSE"}, Return(r),
           UNCHANGED << inputs, tOrder, stack, haveSeen, answer >>,
           visited' \in Seq(Ops)
    PROVE  IInv'
  <1>0. TypeOK
    BY DEF IInv
  <1>1. Depth \in Nat \ {0}
    BY <1>0, CallersFacts
  <1>2. /\ calls' \in Seq(Call) /\ result' \in Result /\ result' # "none"
        /\ Waiting' = Depth - 1 /\ Len(calls') = Depth - 1
        /\ \A k \in 1 .. Depth - 1 : calls'[k] = calls[k]
    BY ReturnFacts
  <1>3. \A k \in 1 .. Len(calls') : calls'[k].i <= Len(inputs'[calls'[k].q]) + 1
    <2> SUFFICES ASSUME NEW k \in 1 .. Depth - 1
                 PROVE  calls'[k].i <= Len(inputs[calls'[k].q]) + 1
      BY <1>2
    <2>1. calls[k].i <= Len(inputs[calls[k].q]) + 1
      BY <1>0, <1>1, CallBound
    <2> QED
      BY <1>2, <2>1
  <1>4. TypeOK'
    BY <1>0, <1>2, <1>3 DEF TypeOK
  <1>5. Waiting = Depth - 1
    BY DEF Waiting
  <1> QED
    BY <1>2, <1>4, <1>5, SameStack

\* The operators visited, with the one of the running call.
LEMMA VisitedFacts ==
    ASSUME TypeOK, calls # << >>
    PROVE  visited \in Seq(Ops) /\ Append(visited, Cur.q) \in Seq(Ops)
  <1>1. visited \in Seq(Ops)
    BY DEF TypeOK
  <1>2. Cur.q \in Ops
    BY CallersFacts DEF Call
  <1> QED
    BY <1>1, <1>2

LEMMA EnterStep == ASSUME IInv, NEW r \in {"TRUE", "FALSE"}, enter(r) PROVE IInv'
  <1>0. /\ TypeOK /\ calls # << >> /\ result = "none"
        /\ UNCHANGED << inputs, tOrder, stack, haveSeen, answer >>
    BY DEF enter, IInv
  <1>1. visited' = Append(visited, Cur.q) \/ visited' = visited
    BY DEF enter
  <1>2. visited' \in Seq(Ops)
    BY <1>0, <1>1, VisitedFacts
  <1>3. CASE Return("FALSE")
    BY <1>0, <1>2, <1>3, ReturnStep
  <1>4. CASE calls' = [calls EXCEPT ![Depth].i = 1] /\ UNCHANGED result
    <2>1. Cur.q \in Ops /\ inputs \in [Ops -> Seq(Ops)]
      BY <1>0, CallersFacts, CallBound DEF Call
    <2>2. 1 \in Nat /\ 1 <= Len(inputs[Cur.q]) + 1
      BY <2>1
    <2> QED
      BY <1>0, <1>2, <1>4, <2>2, AdvanceStep
  <1> QED
    BY <1>3, <1>4 DEF enter

\* Inside the loop of a call.
LEMMA LoopFacts ==
    ASSUME TypeOK, InLoop
    PROVE  /\ Cur.q \in Ops /\ Cur.i \in Nat /\ inputs[Cur.q] \in Seq(Ops)
           /\ Len(inputs[Cur.q]) \in Nat /\ Cur.i \in 1 .. Len(inputs[Cur.q])
           /\ inputs[Cur.q][Cur.i] \in Ops
  <1>1. Cur.q \in Ops /\ inputs \in [Ops -> Seq(Ops)]
    BY CallersFacts, CallBound DEF Call, InLoop
  <1>2. inputs[Cur.q] \in Seq(Ops)
    BY <1>1
  <1> QED
    BY <1>1, <1>2 DEF InLoop

LEMMA SkipStep == ASSUME IInv, skip PROVE IInv'
  <1>0. /\ TypeOK /\ InLoop /\ calls # << >> /\ result = "none"
        /\ calls' = [calls EXCEPT ![Depth].i = @ + 1]
        /\ UNCHANGED << inputs, tOrder, stack, result, haveSeen, visited, answer >>
    BY DEF skip, InLoop, IInv
  <1>1. /\ Cur.i + 1 \in Nat /\ Cur.i + 1 <= Len(inputs[Cur.q]) + 1
    BY <1>0, LoopFacts
  <1>2. calls' = [calls EXCEPT ![Depth].i = Cur.i + 1]
    BY <1>0 DEF Cur
  <1>3. visited' \in Seq(Ops)
    BY <1>0, VisitedFacts
  <1> QED
    BY <1>0, <1>1, <1>2, <1>3, AdvanceStep

LEMMA LeaveStep == ASSUME IInv, NEW r \in {"TRUE", "FALSE"}, leave(r) PROVE IInv'
  <1>0. /\ TypeOK /\ calls # << >> /\ result = "none"
        /\ UNCHANGED << inputs, tOrder, stack, haveSeen, answer >>
    BY DEF leave, IInv
  <1>1. visited' = Append(visited, Cur.q) \/ visited' = visited
    BY DEF leave
  <1>2. visited' \in Seq(Ops)
    BY <1>0, <1>1, VisitedFacts
  <1>3. CASE Return(r)
    BY <1>0, <1>2, <1>3, ReturnStep
  <1>4. CASE Return("TRUE")
    BY <1>0, <1>2, <1>4, ReturnStep
  <1> QED
    BY <1>3, <1>4 DEF leave

\* A sequence with one more element.
LEMMA AppendFacts ==
    ASSUME NEW S, NEW s \in Seq(S), NEW e \in S, NEW n \in Nat, n = Len(s)
    PROVE  /\ Append(s, e) \in Seq(S) /\ Len(Append(s, e)) = n + 1
           /\ Append(s, e)[n + 1] = e
           /\ \A k \in 1 .. n : Append(s, e)[k] = s[k]
  OBVIOUS

\* The calls after a descent: the caller keeps mc and the new call is on top.
LEMMA DescendFacts ==
    ASSUME TypeOK, calls # << >>, NEW mc \in Ctx \union {NULL}, NEW c \in Ops,
           calls' = Append([calls EXCEPT ![Depth].ctxt = mc],
                           [q |-> c, i |-> 0, ctxt |-> NULL])
    PROVE  /\ calls' \in Seq(Call) /\ Len(calls') = Depth + 1
           /\ \A k \in 1 .. Depth - 1 : calls'[k] = calls[k]
           /\ calls'[Depth].i = Cur.i /\ calls'[Depth].q = Cur.q /\ calls'[Depth].ctxt = mc
           /\ calls'[Depth + 1].i = 0 /\ calls'[Depth + 1].q = c
  <1> DEFINE old == [calls EXCEPT ![Depth].ctxt = mc]
             new == [q |-> c, i |-> 0, ctxt |-> NULL]
  <1>1. calls \in Seq(Call) /\ Depth \in 1 .. Len(calls) /\ Depth = Len(calls) /\ Depth \in Nat
    BY CallersFacts DEF TypeOK, Depth
  <1>2. calls[Depth] \in Call /\ Cur = calls[Depth]
    BY <1>1 DEF Cur
  <1>3. [calls[Depth] EXCEPT !.ctxt = mc] \in Call
    BY <1>2 DEF Call
  <1>4. old \in Seq(Call) /\ Len(old) = Depth
    BY <1>1, <1>2, <1>3
  <1>5. \A k \in 1 .. Depth - 1 : old[k] = calls[k]
    BY <1>1
  <1>6. old[Depth] = [calls[Depth] EXCEPT !.ctxt = mc]
    BY <1>1
  <1>7. old[Depth].i = Cur.i /\ old[Depth].q = Cur.q /\ old[Depth].ctxt = mc
    BY <1>2, <1>6 DEF Call
  <1>8. new \in Call /\ new.i = 0 /\ new.q = c
    BY DEF Call
  <1>9. calls' = Append(old, new)
    OBVIOUS
  <1> HIDE DEF old, new
  <1>10. /\ calls' \in Seq(Call) /\ Len(calls') = Depth + 1 /\ calls'[Depth + 1] = new
         /\ \A k \in 1 .. Depth : calls'[k] = old[k]
    <2>1. /\ Append(old, new) \in Seq(Call) /\ Len(Append(old, new)) = Depth + 1
          /\ Append(old, new)[Depth + 1] = new
          /\ \A k \in 1 .. Depth : Append(old, new)[k] = old[k]
      BY <1>1, <1>4, <1>8, AppendFacts
    <2> QED
      BY <1>9, <2>1, Zenon
  <1>11. Depth \in 1 .. Depth /\ \A k \in 1 .. Depth - 1 : k \in 1 .. Depth
    BY <1>1
  <1> QED
    BY <1>5, <1>7, <1>8, <1>10, <1>11, Zenon

\* What the stack says while a traversal runs.
LEMMA StackFacts ==
    ASSUME IInv, calls # << >>
    PROVE  /\ answer = "none" /\ Waiting \in Nat
           /\ stack = SubSeq(full, 1, Left(Waiting))
           /\ \A k \in 1 .. Waiting : calls[k].ctxt = Kept(k)
  <1>1. TypeOK /\ answer = "none"
    BY DEF IInv
  <1>2. Depth \in Nat \ {0}
    BY <1>1, CallersFacts
  <1>3. Waiting \in Nat
    BY <1>2 DEF Waiting
  <1> QED
    BY <1>1, <1>3 DEF IInv, StackByDepth, Kept

\* The context that a descent takes off the stack is the one to be kept.
LEMMA TopIsKept ==
    ASSUME NEW d \in Nat, stack = SubSeq(full, 1, Left(d))
    PROVE  (IF Len(stack) > 1 THEN Top(stack) ELSE NULL) = Kept(d + 1)
  <1>1. Left(d) \in 1 .. Len(full) /\ Len(full) \in Nat
    BY LeftFacts
  <1>2. Len(stack) = Left(d) /\ \A i \in 1 .. Left(d) : stack[i] = full[i]
    BY <1>1, PrefixOfFull
  <1>3. /\ d + 1 < Len(full) <=> Left(d) > 1
        /\ d + 1 < Len(full) => Left(d) = Len(full) - d
    BY LeftFacts
  <1>4. CASE d + 1 < Len(full)
    <2>1. Top(stack) = full[Len(full) - d] /\ Len(stack) > 1
      BY <1>1, <1>2, <1>3, <1>4 DEF Top
    <2>2. Len(full) - d = Len(full) - (d + 1) + 1
      BY <1>1
    <2> QED
      BY <1>4, <2>1, <2>2 DEF Kept
  <1>5. CASE ~(d + 1 < Len(full))
    BY <1>1, <1>2, <1>3, <1>5 DEF Kept
  <1> QED
    BY <1>4, <1>5

LEMMA DescendStep == ASSUME IInv, descend PROVE IInv'
  <1> DEFINE c == inputs[Cur.q][Cur.i]
             mc == IF Len(stack) > 1 THEN Top(stack) ELSE NULL
  <1>0. /\ TypeOK /\ InLoop /\ calls # << >> /\ result = "none"
        /\ haveSeen' = haveSeen \union {c}
        /\ stack' = Release(stack)
        /\ calls' = Append([calls EXCEPT ![Depth].ctxt = mc],
                           [q |-> c, i |-> 0, ctxt |-> NULL])
        /\ UNCHANGED << inputs, tOrder, result, visited, answer >>
    BY DEF descend, InLoop, IInv
  <1>1. /\ c \in Ops /\ Cur.i \in 1 .. Len(inputs[Cur.q]) /\ Len(inputs[Cur.q]) \in Nat
        /\ inputs \in [Ops -> Seq(Ops)]
    BY <1>0, LoopFacts, CallBound
  <1>2. Depth \in Nat \ {0} /\ Waiting = Depth - 1
    BY <1>0, CallersFacts DEF Waiting
  <1>3. /\ answer = "none" /\ stack = SubSeq(full, 1, Left(Depth - 1))
        /\ \A k \in 1 .. Depth - 1 : calls[k].ctxt = Kept(k)
    BY <1>0, <1>2, StackFacts
  <1>4. Depth - 1 \in Nat /\ Depth - 1 + 1 = Depth
    BY <1>2
  <1>5. mc = Kept(Depth)
    BY <1>3, <1>4, TopIsKept
  <1>6. stack' = SubSeq(full, 1, Left(Depth))
    BY <1>0, <1>3, <1>4, ReleaseOneLevel
  <1>7. mc \in Ctx \union {NULL}
    BY <1>0 DEF TypeOK, Stacks, Top
  <1> HIDE DEF c, mc
  <1>8. /\ calls' \in Seq(Call) /\ Len(calls') = Depth + 1
        /\ \A k \in 1 .. Depth - 1 : calls'[k] = calls[k]
        /\ calls'[Depth].i = Cur.i /\ calls'[Depth].q = Cur.q /\ calls'[Depth].ctxt = mc
        /\ calls'[Depth + 1].i = 0 /\ calls'[Depth + 1].q = c
    BY <1>0, <1>1, <1>7, DescendFacts
  <1>9. Waiting' = Depth /\ calls' # << >>
    BY <1>0, <1>2, <1>8 DEF Waiting, Depth
  <1>10. \A k \in 1 .. Len(calls') : calls'[k].i <= Len(inputs'[calls'[k].q]) + 1
    <2> SUFFICES ASSUME NEW k \in 1 .. Depth + 1
                 PROVE  calls'[k].i <= Len(inputs[calls'[k].q]) + 1
      BY <1>0, <1>8
    <2>1. CASE k = Depth + 1
      BY <1>1, <1>8, <2>1
    <2>2. CASE k = Depth
      BY <1>1, <1>8, <2>2
    <2>3. CASE k \in 1 .. Depth - 1
      <3>1. calls[k].i <= Len(inputs[calls[k].q]) + 1
        BY <1>0, <1>2, <2>3, CallBound
      <3> QED
        BY <1>8, <2>3, <3>1
    <2> QED
      BY <1>2, <2>1, <2>2, <2>3
  <1>11. stack' \in Stacks
    <2>1. Left(Depth) \in 1 .. Len(full)
      BY <1>2, LeftFacts
    <2> QED
      BY <1>6, <2>1, PrefixOfFull
  <1>12. TypeOK'
    BY <1>0, <1>1, <1>8, <1>10, <1>11 DEF TypeOK
  <1>13. \A k \in 1 .. Waiting' : calls'[k].i \in 1 .. Len(inputs'[calls'[k].q])
    <2> SUFFICES ASSUME NEW k \in 1 .. Depth
                 PROVE  calls'[k].i \in 1 .. Len(inputs[calls'[k].q])
      BY <1>0, <1>9
    <2>1. CASE k = Depth
      BY <1>1, <1>8, <2>1
    <2>2. CASE k \in 1 .. Depth - 1
      <3>1. calls[k].i \in 1 .. Len(inputs[calls[k].q])
        BY <1>2, <2>2 DEF IInv
      <3> QED
        BY <1>8, <2>2, <3>1
    <2> QED
      BY <1>2, <2>1, <2>2
  <1>14. \A k \in 1 .. Waiting' : calls'[k].ctxt = Kept(k)
    <2> SUFFICES ASSUME NEW k \in 1 .. Depth PROVE calls'[k].ctxt = Kept(k)
      BY <1>9
    <2>1. CASE k = Depth
      BY <1>5, <1>8, <2>1
    <2>2. CASE k \in 1 .. Depth - 1
      BY <1>3, <1>8, <2>2
    <2> QED
      BY <1>2, <2>1, <2>2
  <1>15. StackByDepth'
    BY <1>6, <1>9, <1>14 DEF StackByDepth, Kept
  <1>16. answer' = "none"
    BY <1>0, <1>3
  <1> QED
    BY <1>9, <1>12, <1>13, <1>15, <1>16 DEF IInv

\* A step that ends the wait of the innermost waiting call and gives its
\* context back keeps the invariant.
LEMMA OneLevelUp ==
    ASSUME IInv, TypeOK', calls # << >>, result # "none",
           UNCHANGED << inputs, answer >>,
           stack' = Acquire(stack, Cur.ctxt),
           Waiting' = Depth - 1,
           \A k \in 1 .. Depth - 1 : calls'[k] = calls[k],
           calls' = << >> => result' # "none"
    PROVE  IInv'
  <1>1. TypeOK /\ Depth \in Nat \ {0} /\ Cur = calls[Depth]
    BY CallersFacts DEF IInv, Cur
  <1>2. Waiting = Depth
    BY DEF Waiting
  <1>3. /\ answer = "none" /\ stack = SubSeq(full, 1, Left(Depth))
        /\ \A k \in 1 .. Depth : calls[k].ctxt = Kept(k)
    BY <1>2, StackFacts
  <1>4. Cur.ctxt = Kept(Depth)
    BY <1>1, <1>3
  <1>5. Depth - 1 \in Nat /\ Depth - 1 + 1 = Depth
    BY <1>1
  <1>6. Acquire(SubSeq(full, 1, Left(Depth)), Kept(Depth)) = SubSeq(full, 1, Left(Depth - 1))
    BY <1>5, AcquireOneLevel
  <1>7. stack' = SubSeq(full, 1, Left(Depth - 1))
    BY <1>3, <1>4, <1>6
  <1>8. \A k \in 1 .. Depth - 1 : k \in 1 .. Depth
    BY <1>1
  <1>9. \A k \in 1 .. Waiting' : calls'[k].ctxt = Kept(k)
    BY <1>3, <1>8
  <1>10. StackByDepth'
    BY <1>7, <1>9 DEF StackByDepth, Kept
  <1>11. \A k \in 1 .. Waiting' : calls'[k].i \in 1 .. Len(inputs'[calls'[k].q])
    <2> SUFFICES ASSUME NEW k \in 1 .. Depth - 1
                 PROVE  calls'[k].i \in 1 .. Len(inputs[calls'[k].q])
      OBVIOUS
    <2>1. calls[k].i \in 1 .. Len(inputs[calls[k].q])
      BY <1>2, <1>8 DEF IInv
    <2> QED
      BY <2>1
  <1> QED
    BY <1>3, <1>10, <1>11 DEF IInv

LEMMA AscendStep == ASSUME IInv, ascend PROVE IInv'
  <1>0. /\ TypeOK /\ calls # << >> /\ result # "none"
        /\ stack' = Acquire(stack, Cur.ctxt)
        /\ UNCHANGED << inputs, tOrder, haveSeen, visited, answer >>
    BY DEF ascend, IInv
  <1>1. /\ Depth \in Nat \ {0} /\ Cur = calls[Depth] /\ Cur \in Call /\ Waiting = Depth
        /\ inputs \in [Ops -> Seq(Ops)]
    BY <1>0, CallersFacts, CallBound DEF Cur, Waiting
  <1>2. stack' \in Stacks
    <2>1. stack \in Seq(Ctx) /\ Cur.ctxt \in Ctx \union {NULL}
      BY <1>0, <1>1 DEF TypeOK, Stacks, Call
    <2>2. stack' = stack \/ (Cur.ctxt # NULL /\ stack' = Append(stack, Cur.ctxt))
      BY <1>0 DEF Acquire
    <2> QED
      BY <2>1, <2>2 DEF Stacks
  <1>3. CASE Return("FALSE")
    <2>1. /\ calls' \in Seq(Call) /\ result' \in Result /\ result' # "none"
          /\ Waiting' = Depth - 1 /\ Len(calls') = Depth - 1
          /\ \A k \in 1 .. Depth - 1 : calls'[k] = calls[k]
      BY <1>0, <1>3, ReturnFacts
    <2>2. \A k \in 1 .. Len(calls') : calls'[k].i <= Len(inputs'[calls'[k].q]) + 1
      <3> SUFFICES ASSUME NEW k \in 1 .. Depth - 1
                   PROVE  calls'[k].i <= Len(inputs[calls'[k].q]) + 1
        BY <1>0, <2>1
      <3>1. calls[k].i <= Len(inputs[calls[k].q]) + 1
        BY <1>0, <1>1, CallBound
      <3> QED
        BY <2>1, <3>1
    <2>3. TypeOK'
      BY <1>0, <1>2, <2>1, <2>2 DEF TypeOK
    <2> QED
      BY <1>0, <2>1, <2>3, OneLevelUp
  <1>4. CASE calls' = [calls EXCEPT ![Depth].i = @ + 1] /\ result' = "none"
    <2>1. /\ Cur.i \in 1 .. Len(inputs[Cur.q]) /\ Cur.i + 1 \in Nat
          /\ Len(inputs[Cur.q]) \in Nat
      <3>1. Cur.i \in 1 .. Len(inputs[Cur.q])
        BY <1>1 DEF IInv
      <3>2. Cur.i \in Nat /\ inputs[Cur.q] \in Seq(Ops)
        BY <1>1 DEF Call
      <3> QED
        BY <3>1, <3>2
    <2>2. calls' = [calls EXCEPT ![Depth].i = Cur.i + 1]
      BY <1>4 DEF Cur
    <2>3. /\ calls' \in Seq(Call) /\ Len(calls') = Depth
          /\ \A k \in 1 .. Depth - 1 : calls'[k] = calls[k]
          /\ calls'[Depth].i = Cur.i + 1 /\ calls'[Depth].q = Cur.q
      BY <1>0, <2>1, <2>2, AdvanceFacts
    <2>4. \A k \in 1 .. Len(calls') : calls'[k].i <= Len(inputs'[calls'[k].q]) + 1
      <3> SUFFICES ASSUME NEW k \in 1 .. Depth
                   PROVE  calls'[k].i <= Len(inputs[calls'[k].q]) + 1
        BY <1>0, <2>3
      <3>1. CASE k = Depth
        BY <2>1, <2>3, <3>1
      <3>2. CASE k # Depth
        <4>1. calls'[k] = calls[k]
          BY <1>1, <2>3, <3>2
        <4>2. calls[k].i <= Len(inputs[calls[k].q]) + 1
          BY <1>0, CallBound
        <4> QED
          BY <4>1, <4>2
      <3> QED
        BY <3>1, <3>2
    <2>5. result' \in Result
      BY <1>4 DEF Result
    <2>6. TypeOK'
      BY <1>0, <1>2, <2>3, <2>4, <2>5 DEF TypeOK
    <2>7. Waiting' = Depth - 1 /\ calls' # << >>
      BY <1>1, <1>4, <2>3 DEF Waiting, Depth
    <2> QED
      BY <1>0, <2>3, <2>6, <2>7, OneLevelUp
  <1> QED
    BY <1>3, <1>4 DEF ascend

LEMMA EndStep == ASSUME IInv, visitQOGraph PROVE IInv'
  <1>0. /\ TypeOK /\ calls = << >> /\ answer = "none"
        /\ stack' = Release(stack) /\ answer' = result
        /\ UNCHANGED << inputs, tOrder, calls, result, haveSeen, visited >>
    BY DEF visitQOGraph, IInv
  <1>1. result # "none" /\ Waiting = 0
    <2>1. result # "none"
      BY <1>0 DEF IInv
    <2> QED
      BY <1>0, <2>1 DEF Waiting, Depth
  <1>2. stack = SubSeq(full, 1, Left(0)) /\ Left(0) = Len(full)
    BY <1>0, <1>1, LeftFacts DEF IInv, StackByDepth
  <1>3. full \in Stacks /\ Len(full) \in Nat /\ Len(full) > 1 /\ SubSeq(full, 1, Len(full)) = full
    BY DEF Stacks
  <1>4. stack' = SubSeq(full, 1, Len(full) - 1)
    BY <1>0, <1>2, <1>3 DEF Release
  <1>5. stack' \in Stacks
    BY <1>3, <1>4, PrefixOfFull
  <1>6. result \in Result
    BY <1>0 DEF TypeOK
  <1>7. answer' # "none" /\ answer' \in Result
    BY <1>0, <1>1, <1>6
  <1>8. TypeOK'
    BY <1>0, <1>5, <1>7 DEF TypeOK
  <1>9. Waiting' = 0
    BY <1>0, <1>1 DEF Waiting, Depth
  <1>10. StackByDepth'
    BY <1>7 DEF StackByDepth
  <1> QED
    BY <1>0, <1>1, <1>4, <1>8, <1>9, <1>10 DEF IInv

LEMMA NextIInv == IInv /\ [Next]_vars => IInv'
  <1> SUFFICES ASSUME IInv, [Next]_vars PROVE IInv'
    OBVIOUS
  <1>1. ASSUME NEW r \in {"TRUE", "FALSE"}, enter(r) PROVE IInv'
    BY <1>1, EnterStep
  <1>2. CASE skip
    BY <1>2, SkipStep
  <1>3. CASE descend
    BY <1>3, DescendStep
  <1>4. CASE ascend
    BY <1>4, AscendStep
  <1>5. ASSUME NEW r \in {"TRUE", "FALSE"}, leave(r) PROVE IInv'
    BY <1>5, LeaveStep
  <1>6. CASE visitQOGraph
    BY <1>6, EndStep
  <1>7. CASE UNCHANGED vars
    <2>1. UNCHANGED << inputs, tOrder, stack, calls, result, haveSeen, visited, answer >>
      BY <1>7 DEF vars
    <2> QED
      BY <2>1 DEF IInv, TypeOK, StackByDepth, Waiting, Depth
  <1> QED
    BY <1>1, <1>2, <1>3, <1>4, <1>5, <1>6, <1>7 DEF Next

\* The inductive invariant gives the stack back at the end of a traversal.
LEMMA IInvRestores == IInv => StackRestored
  <1> SUFFICES ASSUME IInv PROVE StackRestored
    OBVIOUS
  <1>1. answer # "none" => stack = SubSeq(full, 1, Len(full) - 1)
    BY DEF IInv
  <1>2. ASSUME calls = << >>, answer = "none" PROVE stack = full
    <2>1. Waiting = 0
      BY <1>2 DEF IInv, Waiting, Depth
    <2>2. stack = SubSeq(full, 1, Left(0)) /\ Left(0) = Len(full)
      BY <1>2, <2>1, LeftFacts DEF IInv, StackByDepth
    <2> QED
      BY <2>2 DEF Stacks
  <1> QED
    BY <1>1, <1>2 DEF StackRestored

\* Throughout a traversal the stack is what the depth of the recursion leaves
\* of it, every waiting call holds the context it took off, and the loop of
\* every call stays within the inputs of its operator (query_operator.c:2290
\* to 2315), for every acyclic graph, every stack and every visitor.
THEOREM StackFollowsDepth == Spec => []IInv
  <1>1. Init => IInv
    BY InitIInv
  <1>2. IInv /\ [Next]_vars => IInv'
    BY NextIInv
  <1> QED
    BY <1>1, <1>2, PTL DEF Spec

\* visitQOGraph gives its caller the stack of memory contexts back: the
\* releases and acquires around the recursive calls cancel out, also where
\* the recursion is deeper than the stack and releases have no effect, and
\* whichever visitor ends the traversal early.
THEOREM StackIsRestored == Spec => []StackRestored
  <1>1. IInv => StackRestored
    BY IInvRestores
  <1> QED
    BY <1>1, StackFollowsDepth, PTL

-----------------------------------------------------------------------------
(***************************************************************************)
(* What the traversal visits.                                              *)
(***************************************************************************)
\* The inputs of an operator are a list of operators.
LEMMA InputFacts ==
    ASSUME TypeOK, NEW q \in Ops
    PROVE  /\ inputs[q] \in Seq(Ops) /\ Len(inputs[q]) \in Nat
           /\ \A j \in 1 .. Len(inputs[q]) : inputs[q][j] \in Ops /\ inputs[q][j] \in InputsOf(q)
           /\ InputsOf(q) \subseteq Ops
  <1>1. inputs[q] \in Seq(Ops)
    BY DEF TypeOK
  <1> QED
    BY <1>1 DEF InputsOf

\* The active calls and their operators.
LEMMA ActiveFacts ==
    ASSUME TypeOK
    PROVE  /\ Depth \in Nat /\ calls \in Seq(Call)
           /\ \A k \in 1 .. Depth : /\ calls[k].q \in Ops /\ calls[k].i \in Nat
                                    /\ calls[k].q \in Active
           /\ calls # << >> => Depth >= 1 /\ Cur = calls[Depth] /\ Cur.q \in Active /\ Cur.q \in Ops
           /\ calls = << >> => Depth = 0 /\ Active = {}
           /\ Active \subseteq Ops
  <1>1. calls \in Seq(Call) /\ Depth \in Nat
    BY DEF TypeOK, Depth
  <1>2. \A k \in 1 .. Depth : calls[k] \in Call
    BY <1>1 DEF Depth
  <1>3. calls # << >> => Depth >= 1 /\ Cur = calls[Depth]
    BY <1>1 DEF Depth, Cur
  <1>4. calls = << >> => Depth = 0
    BY DEF Depth
  <1> QED
    BY <1>1, <1>2, <1>3, <1>4 DEF Active, Call

\* One more visit.
LEMMA VisitFacts ==
    ASSUME TypeOK, NEW x \in Ops, visited' = Append(visited, x)
    PROVE  /\ Len(visited) \in Nat /\ Len(visited') = Len(visited) + 1
           /\ visited'[Len(visited) + 1] = x
           /\ \A n \in 1 .. Len(visited) : visited'[n] = visited[n]
           /\ Visited' = Visited \union {x}
  <1>1. visited \in Seq(Ops) /\ Len(visited) \in Nat
    BY DEF TypeOK
  <1>2. /\ Len(visited') = Len(visited) + 1 /\ visited'[Len(visited) + 1] = x
        /\ \A n \in 1 .. Len(visited) : visited'[n] = visited[n]
    BY <1>1, AppendFacts
  <1>3. \A n \in 1 .. Len(visited) + 1 : n \in 1 .. Len(visited) \/ n = Len(visited) + 1
    BY <1>1
  <1>4. \A n \in 1 .. Len(visited) : n \in 1 .. Len(visited) + 1
    BY <1>1
  <1>5. Visited' = {visited'[n] : n \in 1 .. Len(visited) + 1}
    BY <1>2 DEF Visited
  <1>6. Len(visited) + 1 \in 1 .. Len(visited) + 1
    BY <1>1
  <1>7. ASSUME NEW y PROVE y \in Visited' <=> y \in Visited \/ y = x
    <2>1. ASSUME y \in Visited' PROVE y \in Visited \/ y = x
      <3>1. PICK n \in 1 .. Len(visited) + 1 : y = visited'[n]
        BY <1>5, <2>1
      <3> QED
        BY <1>2, <1>3, <3>1 DEF Visited
    <2>2. ASSUME y \in Visited PROVE y \in Visited'
      <3>1. PICK n \in 1 .. Len(visited) : y = visited[n]
        BY <2>2 DEF Visited
      <3> QED
        BY <1>2, <1>4, <1>5, <3>1
    <2>3. x \in Visited'
      BY <1>2, <1>5, <1>6
    <2> QED
      BY <2>1, <2>2, <2>3
  <1> QED
    BY <1>1, <1>2, <1>7

\* A visit of an operator that has not been visited.
LEMMA VisitKeepsOnce ==
    ASSUME TypeOK, VisitedOnce, NEW x \in Ops, x \notin Visited,
           visited' = Append(visited, x)
    PROVE  VisitedOnce'
  <1>1. /\ Len(visited) \in Nat /\ Len(visited') = Len(visited) + 1
        /\ visited'[Len(visited) + 1] = x
        /\ \A n \in 1 .. Len(visited) : visited'[n] = visited[n]
    BY VisitFacts
  <1>2. \A n \in 1 .. Len(visited) : visited'[n] # x
    BY <1>1 DEF Visited
  <1> SUFFICES ASSUME NEW i \in 1 .. Len(visited) + 1, NEW j \in 1 .. Len(visited) + 1,
                      visited'[i] = visited'[j]
               PROVE  i = j
    BY <1>1 DEF VisitedOnce
  <1>3. CASE i \in 1 .. Len(visited) /\ j \in 1 .. Len(visited)
    BY <1>1, <1>3 DEF VisitedOnce
  <1>4. CASE i = Len(visited) + 1 \/ j = Len(visited) + 1
    BY <1>1, <1>2, <1>4
  <1> QED
    BY <1>1, <1>3, <1>4

\* A visit in the order asked for.
LEMMA VisitKeepsOrder ==
    ASSUME TypeOK, VisitOrder, NEW x \in Ops,
           UNCHANGED << inputs, tOrder >>, visited' = Append(visited, x),
           tOrder = "POST" => InputsOf(x) \subseteq Visited,
           tOrder # "POST" /\ x # 1 => \E p \in Visited : x \in InputsOf(p)
    PROVE  VisitOrder'
  <1>1. /\ Len(visited) \in Nat /\ Len(visited') = Len(visited) + 1
        /\ visited'[Len(visited) + 1] = x
        /\ \A n \in 1 .. Len(visited) : visited'[n] = visited[n]
    BY VisitFacts
  <1> DEFINE before(n) == {visited[m] : m \in 1 .. n - 1}
             after(n)  == {visited'[m] : m \in 1 .. n - 1}
             Good(v, n, B) == IF tOrder = "POST" THEN InputsOf(v[n]) \subseteq B
                              ELSE v[n] # 1 => \E p \in B : v[n] \in InputsOf(p)
  <1>2. \A q : InputsOf(q)' = InputsOf(q)
    BY DEF InputsOf
  <1>3. ASSUME NEW n \in 1 .. Len(visited) + 1 PROVE after(n) = before(n)
    <2>1. \A m \in 1 .. n - 1 : m \in 1 .. Len(visited)
      BY <1>1
    <2> QED
      BY <1>1, <2>1
  <1>4. before(Len(visited) + 1) = Visited
    <2>1. 1 .. (Len(visited) + 1) - 1 = 1 .. Len(visited)
      BY <1>1
    <2> QED
      BY <2>1 DEF Visited
  <1>5. ASSUME NEW n \in 1 .. Len(visited) PROVE Good(visited', n, after(n))
    <2>1. Good(visited, n, before(n))
      BY DEF VisitOrder
    <2>2. after(n) = before(n) /\ visited'[n] = visited[n]
      <3>1. n \in 1 .. Len(visited) + 1
        BY <1>1
      <3> QED
        BY <1>1, <1>3, <3>1
    <2> HIDE DEF before, after
    <2> QED
      BY <2>1, <2>2
  <1>6. Good(visited', Len(visited) + 1, after(Len(visited) + 1))
    <2>1. Len(visited) + 1 \in 1 .. Len(visited) + 1
      BY <1>1
    <2>2. after(Len(visited) + 1) = Visited
      BY <1>3, <1>4, <2>1
    <2> HIDE DEF after
    <2> QED
      BY <1>1, <2>2
  <1>7. \A n \in 1 .. Len(visited') : Good(visited', n, after(n))
    <2>1. \A n \in 1 .. Len(visited') : n \in 1 .. Len(visited) \/ n = Len(visited) + 1
      BY <1>1
    <2> HIDE DEF Good, after
    <2> QED
      BY <1>5, <1>6, <2>1
  <1> QED
    BY <1>2, <1>7 DEF VisitOrder

\* No visit.
LEMMA NoVisit ==
    ASSUME VisitedOnce, VisitOrder, UNCHANGED << inputs, tOrder, visited >>
    PROVE  /\ VisitedOnce' /\ VisitOrder' /\ Visited' = Visited
  <1>1. inputs' = inputs /\ tOrder' = tOrder /\ visited' = visited
    OBVIOUS
  <1>2. VisitedOnce' /\ Visited' = Visited
    BY <1>1 DEF VisitedOnce, Visited
  <1>3. \A q : InputsOf(q)' = InputsOf(q)
    BY <1>1 DEF InputsOf
  <1>4. VisitOrder'
    <2>1. \A n : {visited'[m] : m \in 1 .. n - 1} = {visited[m] : m \in 1 .. n - 1}
      BY <1>1
    <2> QED
      BY <1>1, <1>3, <2>1 DEF VisitOrder
  <1> QED
    BY <1>2, <1>4

-----------------------------------------------------------------------------

\* What no step changes: the graph.
LEMMA GraphFacts ==
    ASSUME UNCHANGED inputs
    PROVE  /\ \A q : InputsOf(q)' = InputsOf(q)
           /\ Acyclic' = Acyclic
           /\ \A S : IsGraph(S)' = IsGraph(S)
  <1>1. \A q : InputsOf(q)' = InputsOf(q)
    BY DEF InputsOf
  <1> QED
    BY <1>1 DEF Acyclic, IsGraph

\* The running call goes on to input n, having seen the ones before.
LEMMA AdvanceTInv ==
    ASSUME IInv, TInv, calls # << >>, result # "FALSE",
           NEW n \in Nat, n > 0, calls' = [calls EXCEPT ![Depth].i = n], result' = "none",
           UNCHANGED << inputs, tOrder, haveSeen, answer >>, answer = "none",
           VisitedOnce', VisitOrder',
           Visited' = Visited \/ Visited' = Visited \union {Cur.q},
           Cur.q \in Visited' <=> tOrder = "PRE",
           \A j \in 1 .. Len(inputs[Cur.q]) : j < n => inputs[Cur.q][j] \in haveSeen
    PROVE  TInv'
  <1>0. TypeOK
    BY DEF IInv
  <1>1. /\ Depth \in Nat /\ Depth >= 1 /\ Cur = calls[Depth] /\ Cur.q \in Ops
        /\ \A k \in 1 .. Depth : calls[k].q \in Ops
    BY <1>0, ActiveFacts
  <1>2. /\ Depth' = Depth
        /\ \A k \in 1 .. Depth : calls'[k].q = calls[k].q
        /\ \A k \in 1 .. Depth - 1 : calls'[k].i = calls[k].i
        /\ calls'[Depth].i = n
        /\ calls' # << >>
    <2>1. /\ calls' \in Seq(Call) /\ Len(calls') = Depth
          /\ \A k \in 1 .. Depth - 1 : calls'[k] = calls[k]
          /\ calls'[Depth].i = n /\ calls'[Depth].q = Cur.q
      BY <1>0, AdvanceFacts
    <2> QED
      BY <1>1, <2>1 DEF Depth
  <1>3. Active' = Active
    BY <1>2 DEF Active
  <1>4. Entered' = Entered
    BY DEF Entered
  <1>5. Waiting' = Depth - 1 /\ Waiting >= Depth - 1
    BY <1>1, <1>2 DEF Waiting
  <1>6. CallPath'
    <2>1. CallPath
      BY DEF TInv
    <2>2. calls'[1].q = 1
      BY <1>1, <1>2, <2>1 DEF CallPath
    <2>3. ASSUME NEW k \in 2 .. Depth
          PROVE  /\ calls'[k].q \in haveSeen
                 /\ calls'[k].q = inputs[calls'[k - 1].q][calls'[k - 1].i]
      <3>1. k \in 1 .. Depth /\ k - 1 \in 1 .. Depth - 1 /\ k - 1 \in 1 .. Depth
        BY <1>1
      <3> QED
        BY <1>2, <2>1, <3>1 DEF CallPath
    <2>4. \A j, k \in 1 .. Depth : j < k => calls'[j].q < calls'[k].q
      BY <1>2, <2>1 DEF CallPath
    <2> QED
      BY <1>2, <2>2, <2>3, <2>4 DEF CallPath
  <1>7. Marked'
    <2>1. Marked /\ CallPath
      BY DEF TInv
    <2>2. Visited' \subseteq Entered'
      <3>1. Cur.q \in Entered
        BY <1>1, <2>1 DEF CallPath, Entered
      <3> QED
        BY <1>4, <2>1, <3>1 DEF Marked
    <2>3. ASSUME NEW k \in 1 .. Depth
          PROVE  calls'[k].q \in Visited' <=> (tOrder = "PRE" /\ calls'[k].i > 0)
      <3>1. CASE k = Depth
        BY <1>1, <1>2, <3>1
      <3>2. CASE k # Depth
        <4>1. k \in 1 .. Depth - 1 /\ Depth \in 1 .. Depth /\ k < Depth
          BY <1>1, <3>2
        <4>2. calls[k].q # Cur.q
          <5>1. calls[k].q < calls[Depth].q /\ calls[k].q \in Ops /\ calls[Depth].q \in Ops
            BY <1>1, <2>1, <4>1 DEF CallPath
          <5> QED
            BY <1>1, <5>1 DEF Ops
        <4>3. calls[k].q \in Visited <=> (tOrder = "PRE" /\ calls[k].i > 0)
          BY <2>1 DEF Marked
        <4> QED
          BY <1>2, <4>1, <4>2, <4>3
      <3> QED
        BY <3>1, <3>2
    <2> QED
      BY <1>2, <2>2, <2>3 DEF Marked
  <1>8. Explored'
    <2>1. Explored
      BY DEF TInv
    <2>2. \A q \in Entered \ Active : q \in Visited' /\ InputsOf(q) \subseteq haveSeen
      BY <2>1 DEF Explored
    <2>3. ASSUME NEW k \in 1 .. Depth, NEW j \in 1 .. Len(inputs[calls'[k].q]),
                 j < calls'[k].i \/ (j = calls'[k].i /\ k <= Waiting')
          PROVE  inputs[calls'[k].q][j] \in haveSeen
      <3>1. CASE k = Depth
        BY <1>1, <1>2, <1>5, <2>3, <3>1
      <3>2. CASE k # Depth
        <4>1. k \in 1 .. Depth - 1 /\ k <= Waiting
          BY <1>1, <1>5, <3>2 DEF Waiting
        <4> QED
          BY <1>2, <2>1, <2>3, <4>1 DEF Explored
      <3> QED
        BY <3>1, <3>2
    <2> QED
      BY <1>2, <1>3, <1>4, <2>2, <2>3, GraphFacts DEF Explored
  <1>9. InGraph'
    BY <1>4, GraphFacts DEF TInv, InGraph
  <1> QED
    BY <1>6, <1>7, <1>8, <1>9, GraphFacts DEF TInv

\* The running call returns.
LEMMA ReturnTInv ==
    ASSUME IInv, TInv, calls # << >>, NEW r \in {"TRUE", "FALSE"}, Return(r),
           UNCHANGED << inputs, tOrder, haveSeen, answer >>, answer = "none",
           VisitedOnce', VisitOrder',
           Visited' = Visited \/ Visited' = Visited \union {Cur.q},
           r = "TRUE" => /\ result # "FALSE"
                         /\ Cur.q \in Visited' /\ InputsOf(Cur.q) \subseteq haveSeen
    PROVE  TInv'
  <1>0. TypeOK
    BY DEF IInv
  <1>1. /\ Depth \in Nat /\ Depth >= 1 /\ Cur = calls[Depth] /\ Cur.q \in Ops
        /\ \A k \in 1 .. Depth : calls[k].q \in Ops
    BY <1>0, ActiveFacts
  <1>2. /\ Depth' = Depth - 1 /\ Waiting' = Depth - 1 /\ result' = r
        /\ \A k \in 1 .. Depth - 1 : calls'[k] = calls[k]
    BY ReturnFacts DEF Depth, Return
  <1>3. CallPath /\ Marked /\ Explored
    BY DEF TInv
  <1>4. \A k \in 1 .. Depth - 1 : calls[k].q # Cur.q
    <2> SUFFICES ASSUME NEW k \in 1 .. Depth - 1 PROVE calls[k].q # Cur.q
      OBVIOUS
    <2>1. k \in 1 .. Depth /\ Depth \in 1 .. Depth /\ k < Depth
      BY <1>1
    <2>2. calls[k].q < calls[Depth].q /\ calls[k].q \in Ops /\ calls[Depth].q \in Ops
      BY <1>1, <1>3, <2>1 DEF CallPath
    <2> QED
      BY <1>1, <2>2 DEF Ops
  <1>5. Active \subseteq Active' \union {Cur.q}
    <2> SUFFICES ASSUME NEW k \in 1 .. Depth PROVE calls[k].q \in Active' \union {Cur.q}
      BY DEF Active
    <2>1. CASE k = Depth
      BY <1>1, <2>1
    <2>2. CASE k # Depth
      <3>1. k \in 1 .. Depth - 1
        BY <1>1, <2>2
      <3> QED
        BY <1>2, <3>1 DEF Active
    <2> QED
      BY <2>1, <2>2
  <1>6. Entered' = Entered
    BY DEF Entered
  <1>7. \A k \in 1 .. Depth - 1 : k \in 1 .. Depth
    BY <1>1
  <1>8. CallPath'
    <2>1. calls' # << >> => 1 \in 1 .. Depth - 1
      <3>1. calls' \in Seq(Call) /\ Len(calls') = Depth - 1
        BY ReturnFacts
      <3> QED
        BY <1>1, <3>1
    <2>2. calls' # << >> => calls'[1].q = 1
      BY <1>2, <1>3, <2>1 DEF CallPath
    <2>3. ASSUME NEW k \in 2 .. Depth - 1
          PROVE  /\ calls'[k].q \in haveSeen
                 /\ calls'[k].q = inputs[calls'[k - 1].q][calls'[k - 1].i]
      <3>1. k \in 2 .. Depth /\ k \in 1 .. Depth - 1 /\ k - 1 \in 1 .. Depth - 1
        BY <1>1
      <3> QED
        BY <1>2, <1>3, <3>1 DEF CallPath
    <2>4. \A j, k \in 1 .. Depth - 1 : j < k => calls'[j].q < calls'[k].q
      BY <1>2, <1>3, <1>7 DEF CallPath
    <2> QED
      BY <1>2, <2>2, <2>3, <2>4 DEF CallPath
  <1>9. Marked'
    <2>1. Visited' \subseteq Entered'
      <3>1. Cur.q \in Entered
        BY <1>1, <1>3 DEF CallPath, Entered
      <3> QED
        BY <1>3, <1>6, <3>1 DEF Marked
    <2>2. \A k \in 1 .. Depth - 1 :
             calls'[k].q \in Visited' <=> (tOrder = "PRE" /\ calls'[k].i > 0)
      BY <1>2, <1>3, <1>4, <1>7 DEF Marked
    <2> QED
      BY <1>2, <2>1, <2>2 DEF Marked
  <1>10. ASSUME r = "TRUE"
         PROVE  \A q \in Entered \ Active' : q \in Visited' /\ InputsOf(q) \subseteq haveSeen
    BY <1>3, <1>5, <1>10 DEF Explored
  <1>11. ASSUME r = "TRUE", NEW k \in 1 .. Depth - 1, NEW j \in 1 .. Len(inputs[calls[k].q]),
                j < calls[k].i \/ (j = calls[k].i /\ k <= Depth - 1)
         PROVE  inputs[calls[k].q][j] \in haveSeen
    <2>1. CASE j < calls[k].i \/ k <= Waiting
      BY <1>3, <1>7, <1>11, <2>1 DEF Explored
    <2>2. CASE j = calls[k].i /\ k = Depth - 1
      <3>1. k + 1 \in 2 .. Depth /\ (k + 1) - 1 = k
        BY <1>1, <2>2
      <3> QED
        BY <1>3, <2>2, <3>1 DEF CallPath
    <2>3. Waiting = Depth \/ Waiting = Depth - 1
      BY DEF Waiting
    <2> QED
      BY <1>1, <1>11, <2>1, <2>2, <2>3
  <1>12. Explored'
    BY <1>2, <1>6, <1>10, <1>11, GraphFacts DEF Explored
  <1>13. InGraph'
    BY <1>6, GraphFacts DEF TInv, InGraph
  <1> QED
    BY <1>8, <1>9, <1>12, <1>13, GraphFacts DEF TInv

-----------------------------------------------------------------------------

\* The first state: a call for the root, nothing seen or visited.
LEMMA InitTInv == Init => TInv
  <1> SUFFICES ASSUME Init PROVE TInv
    OBVIOUS
  <1>0. IInv /\ TypeOK
    BY InitIInv DEF IInv
  <1>1. /\ Depth = 1 /\ calls[1].q = 1 /\ calls[1].i = 0 /\ result = "none"
        /\ haveSeen = {} /\ visited = << >> /\ answer = "none" /\ Waiting = 0
    BY DEF Init, Depth, Waiting
  <1>2. Visited = {} /\ Active = {1} /\ Entered = {1}
    <2>1. Len(visited) = 0
      BY <1>1
    <2>2. 1 .. Len(visited) = {}
      BY <2>1
    <2>3. Visited = {}
      BY <2>2 DEF Visited
    <2>4. 1 .. Depth = {1}
      BY <1>1
    <2> QED
      BY <1>1, <2>3, <2>4 DEF Active, Entered
  <1>3. Acyclic
    <2> SUFFICES ASSUME NEW q \in Ops, NEW i \in 1 .. Len(inputs[q])
                 PROVE  q < inputs[q][i]
      BY DEF Acyclic, InputsOf
    <2>1. inputs[q] \in InputLists(q)
      BY DEF Init
    <2>2. PICK n \in 0 .. MaxInputs : inputs[q] \in [1 .. n -> q + 1 .. NumOps]
      BY <2>1 DEF InputLists
    <2>3. n \in Nat
      BY <2>2
    <2>4. Len(inputs[q]) = n
      BY <2>2, <2>3
    <2>5. inputs[q][i] \in q + 1 .. NumOps
      BY <2>2, <2>4
    <2> QED
      BY <2>5 DEF Ops
  <1>4. CallPath /\ Marked
    BY <1>1, <1>2 DEF CallPath, Marked
  <1>5. Explored
    BY <1>1, <1>2 DEF Explored
  <1>6. InGraph
    BY <1>2 DEF InGraph, IsGraph
  <1>7. VisitedOnce /\ VisitOrder
    BY <1>1 DEF VisitedOnce, VisitOrder
  <1> QED
    BY <1>1, <1>3, <1>4, <1>5, <1>6, <1>7 DEF TInv

\* A preorder visit follows the visit of the operator of the calling call.
LEMMA EnterTInv == ASSUME IInv, TInv, NEW r \in {"TRUE", "FALSE"}, enter(r) PROVE TInv'
  <1>0. /\ TypeOK /\ calls # << >> /\ result = "none" /\ Cur.i = 0 /\ answer = "none"
        /\ UNCHANGED << inputs, tOrder, haveSeen, answer >>
    BY DEF enter, IInv
  <1>1. /\ Depth \in Nat /\ Depth >= 1 /\ Cur = calls[Depth] /\ Cur.q \in Ops
        /\ Depth \in 1 .. Depth
    BY <1>0, ActiveFacts
  <1>2. CallPath /\ Marked /\ VisitedOnce /\ VisitOrder
    BY DEF TInv
  <1>3. Cur.q \notin Visited
    BY <1>0, <1>1, <1>2 DEF Marked
  <1>4. CASE tOrder = "PRE"
    <2>1. visited' = Append(visited, Cur.q)
      BY <1>4 DEF enter
    <2>2. Visited' = Visited \union {Cur.q} /\ VisitedOnce'
      BY <1>0, <1>1, <1>2, <1>3, <2>1, VisitFacts, VisitKeepsOnce
    <2>3. Cur.q # 1 => \E p \in Visited : Cur.q \in InputsOf(p)
      <3> SUFFICES ASSUME Cur.q # 1 PROVE \E p \in Visited : Cur.q \in InputsOf(p)
        OBVIOUS
      <3> DEFINE d == Depth - 1
      <3>1. Depth \in 2 .. Depth /\ d \in 1 .. Depth /\ d <= Waiting /\ d \in 1 .. Waiting
        BY <1>0, <1>1, <1>2 DEF CallPath, Waiting
      <3>2. calls[d].i \in 1 .. Len(inputs[calls[d].q]) /\ calls[d].q \in Ops
        BY <1>0, <3>1, ActiveFacts DEF IInv
      <3>3. calls[d].i > 0
        BY <3>2
      <3>4. calls[d].q \in Visited
        BY <1>2, <1>4, <3>1, <3>3 DEF Marked
      <3>5. Cur.q = inputs[calls[d].q][calls[d].i]
        BY <1>1, <1>2, <3>1 DEF CallPath
      <3> QED
        BY <3>2, <3>4, <3>5 DEF InputsOf
    <2>4. VisitOrder'
      BY <1>0, <1>1, <1>2, <1>4, <2>1, <2>3, VisitKeepsOrder
    <2>5. CASE Return("FALSE")
      BY <1>0, <2>2, <2>4, <2>5, ReturnTInv
    <2>6. CASE calls' = [calls EXCEPT ![Depth].i = 1] /\ UNCHANGED result
      <3>1. /\ 1 \in Nat /\ 1 > 0 /\ result' = "none" /\ result # "FALSE"
            /\ \A j \in 1 .. Len(inputs[Cur.q]) : j < 1 => inputs[Cur.q][j] \in haveSeen
        BY <1>0, <1>1, <2>6, InputFacts
      <3> QED
        BY <1>0, <1>4, <2>2, <2>4, <2>6, <3>1, AdvanceTInv
    <2> QED
      BY <1>4, <2>5, <2>6 DEF enter
  <1>5. CASE tOrder # "PRE"
    <2>1. visited' = visited /\ calls' = [calls EXCEPT ![Depth].i = 1] /\ result' = "none"
      BY <1>0, <1>5 DEF enter
    <2>2. VisitedOnce' /\ VisitOrder' /\ Visited' = Visited
      BY <1>0, <1>2, <2>1, NoVisit
    <2>3. /\ 1 \in Nat /\ 1 > 0 /\ result # "FALSE"
          /\ Cur.q \in Visited' <=> tOrder = "PRE"
          /\ \A j \in 1 .. Len(inputs[Cur.q]) : j < 1 => inputs[Cur.q][j] \in haveSeen
      BY <1>0, <1>1, <1>3, <1>5, <2>2, InputFacts
    <2> QED
      BY <1>0, <1>3, <1>5, <2>1, <2>2, <2>3, AdvanceTInv
  <1> QED
    BY <1>4, <1>5

\* The inputs a call inside its loop has seen: those it is past.
LEMMA SeenInputs ==
    ASSUME IInv, TInv, calls # << >>, result # "FALSE"
    PROVE  /\ \A j \in 1 .. Len(inputs[Cur.q]) : j < Cur.i => inputs[Cur.q][j] \in haveSeen
           /\ result # "none" => \A j \in 1 .. Len(inputs[Cur.q]) :
                                    j = Cur.i => inputs[Cur.q][j] \in haveSeen
  <1>1. /\ Depth \in Nat /\ Depth >= 1 /\ Cur = calls[Depth] /\ Depth \in 1 .. Depth
    BY ActiveFacts DEF IInv
  <1>2. result # "none" => Depth <= Waiting
    BY <1>1 DEF Waiting
  <1> QED
    BY <1>1, <1>2 DEF TInv, Explored

LEMMA SkipTInv == ASSUME IInv, TInv, skip PROVE TInv'
  <1>0. /\ TypeOK /\ InLoop /\ calls # << >> /\ result = "none" /\ answer = "none"
        /\ inputs[Cur.q][Cur.i] \in haveSeen
        /\ calls' = [calls EXCEPT ![Depth].i = Cur.i + 1]
        /\ UNCHANGED << inputs, tOrder, stack, result, haveSeen, visited, answer >>
    BY DEF skip, InLoop, IInv, Cur
  <1>1. Cur.i \in Nat /\ Cur.i + 1 \in Nat /\ Cur.i + 1 > 0 /\ Cur.i > 0 /\ Len(inputs[Cur.q]) \in Nat
    BY <1>0, LoopFacts
  <1>2. VisitedOnce' /\ VisitOrder' /\ Visited' = Visited
    BY <1>0, NoVisit DEF TInv
  <1>3. \A j \in 1 .. Len(inputs[Cur.q]) : j < Cur.i + 1 => inputs[Cur.q][j] \in haveSeen
    <2>1. \A j \in 1 .. Len(inputs[Cur.q]) : j < Cur.i + 1 => j < Cur.i \/ j = Cur.i
      BY <1>1
    <2> QED
      BY <1>0, <2>1, SeenInputs
  <1>4. Cur.q \in Visited <=> tOrder = "PRE"
    BY <1>0, <1>1, ActiveFacts DEF TInv, Marked
  <1> QED
    BY <1>0, <1>1, <1>2, <1>3, <1>4, AdvanceTInv

\* An input that is not on the path, because it has not been seen, is called.
LEMMA DescendTInv == ASSUME IInv, TInv, descend PROVE TInv'
  <1> DEFINE c == inputs[Cur.q][Cur.i]
             mc == IF Len(stack) > 1 THEN Top(stack) ELSE NULL
  <1>0. /\ TypeOK /\ InLoop /\ calls # << >> /\ result = "none" /\ answer = "none"
        /\ c \notin haveSeen /\ haveSeen' = haveSeen \union {c}
        /\ calls' = Append([calls EXCEPT ![Depth].ctxt = mc],
                           [q |-> c, i |-> 0, ctxt |-> NULL])
        /\ UNCHANGED << inputs, tOrder, result, visited, answer >>
    BY DEF descend, InLoop, IInv
  <1>1. /\ Depth \in Nat /\ Depth >= 1 /\ Cur = calls[Depth] /\ Cur.q \in Ops
        /\ Depth \in 1 .. Depth
        /\ \A k \in 1 .. Depth : calls[k].q \in Ops
    BY <1>0, ActiveFacts
  <1>2. /\ Cur.i \in 1 .. Len(inputs[Cur.q]) /\ c \in Ops /\ c \in InputsOf(Cur.q)
    BY <1>0, <1>1, LoopFacts, InputFacts
  <1>3. mc \in Ctx \union {NULL}
    BY <1>0 DEF TypeOK, Stacks, Top
  <1> HIDE DEF c, mc
  <1>4. /\ Depth' = Depth + 1 /\ calls' # << >>
        /\ \A k \in 1 .. Depth : calls'[k].q = calls[k].q /\ calls'[k].i = calls[k].i
        /\ calls'[Depth + 1].i = 0 /\ calls'[Depth + 1].q = c
    <2>1. /\ calls' \in Seq(Call) /\ Len(calls') = Depth + 1
          /\ \A k \in 1 .. Depth - 1 : calls'[k] = calls[k]
          /\ calls'[Depth].i = Cur.i /\ calls'[Depth].q = Cur.q /\ calls'[Depth].ctxt = mc
          /\ calls'[Depth + 1].i = 0 /\ calls'[Depth + 1].q = c
      BY <1>0, <1>2, <1>3, DescendFacts
    <2> QED
      BY <1>1, <2>1 DEF Depth
  <1>5. CallPath /\ Marked /\ Explored /\ Acyclic /\ InGraph /\ 1 \notin haveSeen
    BY DEF TInv
  <1>6. Cur.q < c /\ c # 1
    BY <1>1, <1>2, <1>5 DEF Acyclic, Ops
  <1>7. \A k \in 1 .. Depth + 1 : k \in 1 .. Depth \/ k = Depth + 1
    BY <1>1
  <1>8. \A k \in 1 .. Depth : calls[k].q < c
    <2> SUFFICES ASSUME NEW k \in 1 .. Depth PROVE calls[k].q < c
      OBVIOUS
    <2>1. k = Depth \/ calls[k].q < calls[Depth].q
      BY <1>1, <1>5 DEF CallPath
    <2> QED
      BY <1>1, <1>2, <1>6, <2>1 DEF Ops
  <1>9. Active' = Active \union {c} /\ Entered' = Entered \union {c} /\ Waiting' = Depth
        /\ Waiting = Depth - 1
    <2>1. Active' = {calls'[k].q : k \in 1 .. Depth + 1}
      BY <1>4 DEF Active
    <2>2. \A k \in 1 .. Depth : k \in 1 .. Depth + 1
      BY <1>1
    <2>3. Depth + 1 \in 1 .. Depth + 1
      BY <1>1
    <2>4. Active' = Active \union {c}
      <3>1. ASSUME NEW y \in Active' PROVE y \in Active \union {c}
        <4>1. PICK k \in 1 .. Depth + 1 : y = calls'[k].q
          BY <2>1, <3>1
        <4> QED
          BY <1>4, <1>7, <4>1 DEF Active
      <3>2. ASSUME NEW y \in Active PROVE y \in Active'
        <4>1. PICK k \in 1 .. Depth : y = calls[k].q
          BY <3>2 DEF Active
        <4> QED
          BY <1>4, <2>1, <2>2, <4>1
      <3>3. c \in Active'
        BY <1>4, <2>1, <2>3
      <3> QED
        BY <3>1, <3>2, <3>3
    <2> QED
      BY <1>0, <1>1, <1>4, <2>4 DEF Entered, Waiting
  <1>10. VisitedOnce' /\ VisitOrder' /\ Visited' = Visited
    BY <1>0, NoVisit DEF TInv
  <1>11. CallPath'
    <2>1. calls'[1].q = 1
      BY <1>0, <1>1, <1>4, <1>5 DEF CallPath
    <2>2. ASSUME NEW k \in 2 .. Depth + 1
          PROVE  /\ calls'[k].q \in haveSeen'
                 /\ calls'[k].q = inputs[calls'[k - 1].q][calls'[k - 1].i]
      <3>1. CASE k = Depth + 1
        <4>1. k - 1 = Depth
          BY <1>1, <3>1
        <4>2. calls'[k].q = c
          BY <1>4, <3>1
        <4>3. calls'[k - 1].q = Cur.q /\ calls'[k - 1].i = Cur.i
          BY <1>1, <1>4, <4>1
        <4>4. inputs' = inputs /\ c \in haveSeen'
          BY <1>0
        <4> QED
          BY <4>2, <4>3, <4>4 DEF c
      <3>2. CASE k # Depth + 1
        <4>1. k \in 2 .. Depth /\ k \in 1 .. Depth /\ k - 1 \in 1 .. Depth
          BY <1>1, <3>2
        <4> QED
          BY <1>0, <1>4, <1>5, <4>1 DEF CallPath
      <3> QED
        BY <3>1, <3>2
    <2>3. ASSUME NEW j \in 1 .. Depth + 1, NEW k \in 1 .. Depth + 1, j < k
          PROVE  calls'[j].q < calls'[k].q
      <3>1. j \in 1 .. Depth
        BY <1>1, <2>3
      <3>2. CASE k = Depth + 1
        BY <1>4, <1>8, <3>1, <3>2
      <3>3. CASE k \in 1 .. Depth
        BY <1>4, <1>5, <2>3, <3>1, <3>3 DEF CallPath
      <3> QED
        BY <1>7, <3>2, <3>3
    <2> QED
      BY <1>0, <1>4, <2>1, <2>2, <2>3 DEF CallPath
  <1>12. Marked'
    <2>1. c \notin Visited
      BY <1>0, <1>5, <1>6 DEF Marked, Entered
    <2>2. ASSUME NEW k \in 1 .. Depth + 1
          PROVE  calls'[k].q \in Visited <=> (tOrder = "PRE" /\ calls'[k].i > 0)
      BY <1>4, <1>5, <1>7, <2>1 DEF Marked
    <2> QED
      BY <1>0, <1>4, <1>5, <1>9, <1>10, <2>2 DEF Marked
  <1>13. Explored'
    <2>1. \A q \in Entered' \ Active' : q \in Visited /\ InputsOf(q) \subseteq haveSeen'
      BY <1>0, <1>5, <1>9 DEF Explored
    <2>2. ASSUME NEW k \in 1 .. Depth + 1, NEW j \in 1 .. Len(inputs[calls'[k].q]),
                 j < calls'[k].i \/ (j = calls'[k].i /\ k <= Waiting')
          PROVE  inputs[calls'[k].q][j] \in haveSeen'
      <3>1. CASE k = Depth + 1
        BY <1>1, <1>4, <1>9, <2>2, <3>1
      <3>2. CASE k = Depth
        <4>1. calls'[k].q = Cur.q /\ calls'[k].i = Cur.i
          BY <1>1, <1>4, <3>2
        <4>2. j < Cur.i \/ j = Cur.i
          BY <2>2, <4>1
        <4>3. j < Cur.i => inputs[Cur.q][j] \in haveSeen
          BY <1>0, <4>1, SeenInputs
        <4> QED
          BY <1>0, <4>1, <4>2, <4>3 DEF c
      <3>3. CASE k \in 1 .. Depth /\ k # Depth
        <4>1. k <= Waiting
          BY <1>1, <1>9, <3>3
        <4>2. calls'[k].q = calls[k].q /\ calls'[k].i = calls[k].i
          BY <1>4, <3>3
        <4>3. inputs[calls[k].q][j] \in haveSeen
          BY <1>0, <1>5, <2>2, <3>3, <4>1, <4>2 DEF Explored
        <4> QED
          BY <1>0, <4>2, <4>3
      <3> QED
        BY <1>7, <3>1, <3>2, <3>3
    <2>3. \A q \in Entered' \ Active' : q \in Visited' /\ InputsOf(q)' \subseteq haveSeen'
      BY <1>0, <1>10, <2>1, GraphFacts
    <2>4. Depth' = Depth + 1 /\ inputs' = inputs
      BY <1>0, <1>4
    <2> QED
      BY <2>2, <2>3, <2>4 DEF Explored
  <1>14. InGraph'
    <2> SUFFICES ASSUME NEW S \in SUBSET Ops, IsGraph(S) PROVE Entered' \subseteq S
      BY <1>0, GraphFacts DEF InGraph
    <2>1. Entered \subseteq S
      BY <1>5 DEF InGraph
    <2>2. Cur.q \in Entered
      <3>1. Depth = 1 \/ Depth \in 2 .. Depth
        BY <1>1
      <3> QED
        BY <1>0, <1>1, <1>5, <3>1 DEF CallPath, Entered
    <2> QED
      BY <1>2, <1>9, <2>1, <2>2 DEF IsGraph
  <1> QED
    BY <1>0, <1>5, <1>6, <1>10, <1>11, <1>12, <1>13, <1>14, GraphFacts DEF TInv

LEMMA AscendTInv == ASSUME IInv, TInv, ascend PROVE TInv'
  <1>0. /\ TypeOK /\ calls # << >> /\ result # "none" /\ answer = "none"
        /\ UNCHANGED << inputs, tOrder, haveSeen, visited, answer >>
    BY DEF ascend, IInv
  <1>1. VisitedOnce' /\ VisitOrder' /\ Visited' = Visited
    BY <1>0, NoVisit DEF TInv
  <1>2. CASE Return("FALSE")
    BY <1>0, <1>1, <1>2, ReturnTInv
  <1>3. CASE result # "FALSE" /\ calls' = [calls EXCEPT ![Depth].i = @ + 1] /\ result' = "none"
    <2>1. /\ Depth \in 1 .. Waiting /\ Depth \in 1 .. Depth /\ Cur = calls[Depth]
          /\ Cur.q \in Ops /\ Cur.i \in Nat
      BY <1>0, ActiveFacts DEF Waiting
    <2>2. Cur.i \in 1 .. Len(inputs[Cur.q]) /\ Len(inputs[Cur.q]) \in Nat
      BY <1>0, <2>1, InputFacts DEF IInv
    <2>3. Cur.i + 1 \in Nat /\ Cur.i + 1 > 0 /\ Cur.i > 0
      BY <2>1, <2>2
    <2>4. calls' = [calls EXCEPT ![Depth].i = Cur.i + 1]
      BY <1>3 DEF Cur
    <2>5. \A j \in 1 .. Len(inputs[Cur.q]) : j < Cur.i + 1 => inputs[Cur.q][j] \in haveSeen
      <3>1. \A j \in 1 .. Len(inputs[Cur.q]) : j < Cur.i + 1 => j < Cur.i \/ j = Cur.i
        BY <2>1
      <3> QED
        BY <1>0, <1>3, <3>1, SeenInputs
    <2>6. Cur.q \in Visited <=> tOrder = "PRE"
      BY <2>1, <2>3 DEF TInv, Marked
    <2> QED
      BY <1>0, <1>1, <1>3, <2>3, <2>4, <2>5, <2>6, AdvanceTInv
  <1> QED
    BY <1>2, <1>3 DEF ascend

\* A postorder visit follows the visits of all inputs: they have been seen, and
\* those that are seen and not visited are on the path, above the operator.
LEMMA LeaveTInv == ASSUME IInv, TInv, NEW r \in {"TRUE", "FALSE"}, leave(r) PROVE TInv'
  <1>0. /\ TypeOK /\ calls # << >> /\ result = "none" /\ answer = "none"
        /\ Cur.i > Len(inputs[Cur.q])
        /\ UNCHANGED << inputs, tOrder, haveSeen, answer >>
    BY DEF leave, IInv
  <1>1. /\ Depth \in Nat /\ Depth >= 1 /\ Cur = calls[Depth] /\ Cur.q \in Ops
        /\ Depth \in 1 .. Depth /\ Cur.i \in Nat
        /\ \A k \in 1 .. Depth : calls[k].q \in Ops
    BY <1>0, ActiveFacts
  <1>2. CallPath /\ Marked /\ Explored /\ Acyclic /\ VisitedOnce /\ VisitOrder
    BY DEF TInv
  <1>3. inputs[Cur.q] \in Seq(Ops) /\ Len(inputs[Cur.q]) \in Nat /\ InputsOf(Cur.q) \subseteq Ops
    BY <1>0, <1>1, InputFacts
  <1>4. InputsOf(Cur.q) \subseteq haveSeen
    <2>1. \A j \in 1 .. Len(inputs[Cur.q]) : j < Cur.i
      BY <1>0, <1>1, <1>3
    <2> QED
      BY <1>0, <2>1, SeenInputs DEF InputsOf
  <1>5. CASE tOrder = "POST"
    <2>1. visited' = Append(visited, Cur.q) /\ Return(r)
      BY <1>5 DEF leave
    <2>2. Cur.q \notin Visited
      BY <1>1, <1>2, <1>5 DEF Marked
    <2>3. Visited' = Visited \union {Cur.q} /\ VisitedOnce'
      BY <1>0, <1>1, <1>2, <2>1, <2>2, VisitFacts, VisitKeepsOnce
    <2>4. InputsOf(Cur.q) \subseteq Visited
      <3> SUFFICES ASSUME NEW p \in InputsOf(Cur.q) PROVE p \in Visited
        OBVIOUS
      <3>1. Cur.q < p /\ p \in Ops
        BY <1>1, <1>2, <1>3 DEF Acyclic
      <3>2. ASSUME NEW k \in 1 .. Depth PROVE calls[k].q # p
        <4>1. k = Depth \/ calls[k].q < Cur.q
          BY <1>1, <1>2 DEF CallPath
        <4> QED
          BY <1>1, <3>1, <4>1 DEF Ops
      <3>3. p \notin Active
        BY <3>2 DEF Active
      <3> QED
        BY <1>0, <1>2, <1>4, <3>3 DEF Explored, Entered
    <2>5. VisitOrder'
      BY <1>0, <1>1, <1>2, <1>5, <2>1, <2>4, VisitKeepsOrder
    <2> QED
      BY <1>0, <1>4, <2>1, <2>3, <2>5, ReturnTInv
  <1>6. CASE tOrder # "POST"
    <2>1. visited' = visited /\ Return("TRUE")
      BY <1>6 DEF leave
    <2>2. VisitedOnce' /\ VisitOrder' /\ Visited' = Visited
      BY <1>0, <1>2, <2>1, NoVisit
    <2>3. tOrder = "PRE" /\ Cur.i > 0
      BY <1>0, <1>1, <1>3, <1>6 DEF TypeOK, TraversalOrder
    <2>4. Cur.q \in Visited
      BY <1>1, <1>2, <2>3 DEF Marked
    <2> QED
      BY <1>0, <1>4, <2>1, <2>2, <2>4, ReturnTInv
  <1> QED
    BY <1>5, <1>6

LEMMA NextTInv == IInv /\ TInv /\ [Next]_vars => TInv'
  <1> SUFFICES ASSUME IInv, TInv, [Next]_vars PROVE TInv'
    OBVIOUS
  <1>0. ASSUME UNCHANGED << inputs, tOrder, calls, result, haveSeen, visited >>,
               answer' # "none" => answer' = result
        PROVE  TInv'
    <2>1. VisitedOnce' /\ VisitOrder' /\ Visited' = Visited
      BY <1>0, NoVisit DEF TInv
    <2>2. Active' = Active /\ Entered' = Entered /\ Depth' = Depth /\ Waiting' = Waiting
      BY <1>0 DEF Active, Entered, Depth, Waiting
    <2>3. CallPath' /\ Marked'
      BY <1>0, <2>1, <2>2 DEF TInv, CallPath, Marked
    <2>4. Explored'
      BY <1>0, <2>1, <2>2, GraphFacts DEF TInv, Explored
    <2>5. InGraph'
      BY <1>0, <2>2, GraphFacts DEF TInv, InGraph
    <2> QED
      BY <1>0, <2>1, <2>3, <2>4, <2>5, GraphFacts DEF TInv
  <1>1. ASSUME NEW r \in {"TRUE", "FALSE"}, enter(r) PROVE TInv'
    BY <1>1, EnterTInv
  <1>2. CASE skip
    BY <1>2, SkipTInv
  <1>3. CASE descend
    BY <1>3, DescendTInv
  <1>4. CASE ascend
    BY <1>4, AscendTInv
  <1>5. ASSUME NEW r \in {"TRUE", "FALSE"}, leave(r) PROVE TInv'
    BY <1>5, LeaveTInv
  <1>6. CASE visitQOGraph
    BY <1>0, <1>6 DEF visitQOGraph
  <1>7. CASE UNCHANGED vars
    BY <1>0, <1>7 DEF vars, TInv
  <1> QED
    BY <1>1, <1>2, <1>3, <1>4, <1>5, <1>6, <1>7 DEF Next

LEMMA TInvHolds == Spec => [](IInv /\ TInv)
  <1>1. Init => IInv /\ TInv
    BY InitIInv, InitTInv
  <1>2. IInv /\ TInv /\ [Next]_vars => IInv' /\ TInv'
    BY NextIInv, NextTInv
  <1> QED
    BY <1>1, <1>2, PTL DEF Spec

\* visitQOGraph never calls the visitor twice on an operator, however many
\* parents the operator has and although the root is not added to the set of
\* seen operators (query_operator.c:2290 to 2315).
THEOREM NoOperatorTwice == Spec => []VisitedOnce
  <1>1. TInv => VisitedOnce
    BY DEF TInv
  <1> QED
    BY <1>1, TInvHolds, PTL

\* A postorder traversal visits the inputs of an operator before the operator,
\* a preorder traversal one of its parents before it.
THEOREM OrderIsKept == Spec => []VisitOrder
  <1>1. TInv => VisitOrder
    BY DEF TInv
  <1> QED
    BY <1>1, TInvHolds, PTL

\* A traversal that no visitor ended early has visited the operators of the
\* graph: the root, the inputs of all it has visited, and nothing else.
THEOREM TraversalIsComplete == Spec => []AllVisited
  <1>1. IInv /\ TInv => AllVisited
    <2> SUFFICES ASSUME IInv, TInv, answer = "TRUE"
                 PROVE  /\ IsGraph(Visited)
                        /\ \A S \in SUBSET Visited : IsGraph(S) => S = Visited
      BY DEF AllVisited
    <2>1. calls = << >> /\ result = "TRUE" /\ TypeOK
      BY DEF IInv, TInv
    <2>2. Active = {}
      BY <2>1, ActiveFacts
    <2>3. Visited = Entered /\ \A q \in Entered : InputsOf(q) \subseteq haveSeen
      BY <2>1, <2>2 DEF TInv, Explored, Marked
    <2>4. Visited \subseteq Ops
      BY <2>1 DEF Visited, TypeOK
    <2> QED
      BY <2>3, <2>4 DEF IsGraph, Entered, TInv, InGraph
  <1> QED
    BY <1>1, TInvHolds, PTL
=============================================================================
