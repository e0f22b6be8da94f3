-------------------------- MODULE LibGProMProofs ----------------------------
(***************************************************************************)
(* The invariants of the library and of the wrapper around it, for any     *)
(* number of threads, any set of contexts and any sequence of calls.       *)
(***************************************************************************)
EXTENDS LibGProM, PipelineProofs

LEMMA Names ==
    /\ LibName \notin {QueryName, StageName} /\ wipeContext = LibName
    /\ ctxName[defaultCtx] # LibName
    /\ \A c \in LongLived : ctxName[c] # LibName
    /\ \A c : StageContext(c) => ctxName[c] # LibName
    /\ Stages = {"pipeline", "cost"}
    /\ Metadata \in Ctx /\ defaultCtx \in Ctx /\ defaultCtx # Metadata
  BY LibAssumption, PipelineAssumption, ExceptionAssumption, CtxAssumption
     DEF StageContext

\* The steps of the pipeline that do not throw leave the blocks alone.
LEMMA PipelineBlocks ==
    ASSUME PipelineNext
    PROVE  /\ pc \in Stages
           /\ \/ UNCHANGED << frames, exceptionBuf, unhandled, pc >>
              \/ \E s \in Thrown : Throwing(s)
  BY DEF PipelineNext, enterStage, leaveStage, visitDown, visitUp, fail, copyFails, THROW

\* The actions that only move the threads and the wrapper.
ThreadStep ==
    \/ \E t \in Thread, o \in Op : call(t, o)
    \/ \E t \in Thread : checkExceptions(t)
    \/ \E t \in Thread : reportExceptions(t)

LEMMA ThreadStepFacts ==
    ASSUME ThreadStep
    PROVE  UNCHANGED << pipeVars, pc >>
  BY DEF ThreadStep, call, checkExceptions, reportExceptions

-----------------------------------------------------------------------------
(***************************************************************************)
(* The TRY blocks                                                          *)
(***************************************************************************)

LEMMA ThrownBlocks ==
    ASSUME OpenBlocks, pc \in Stages, NEW s, Throwing(s)
    PROVE  OpenBlocks' /\ pc' = "catch" /\ unhandled' = unhandled + 1
  <1> DEFINE a == [fn |-> "gprom_rewriteQuery", save |-> 0]
             b == [fn |-> "rewriteQueryInternal", save |-> 1]
             c == [fn |-> "gprom_costQuery", save |-> 0]
  <1>1. CASE pc = "pipeline"
    <2>1. frames = << a, b >> /\ exceptionBuf = 2 /\ b.save = 1
      BY <1>1 DEF OpenBlocks
    <2> HIDE DEF a, b
    <2>2. /\ frames' = << a, b >> /\ exceptionBuf' = 1 /\ pc' = "catch"
          /\ unhandled' = unhandled + 1
      BY <2>1, ThrowingFacts
    <2> QED
      BY <2>2 DEF OpenBlocks, a, b
  <1>2. CASE pc = "cost"
    <2>1. frames = << c >> /\ exceptionBuf = 1 /\ c.save = 0
      BY <1>2 DEF OpenBlocks
    <2> HIDE DEF c
    <2>2. /\ frames' = << c >> /\ exceptionBuf' = 0 /\ pc' = "catch"
          /\ unhandled' = unhandled + 1
      BY <2>1, ThrowingFacts
    <2> QED
      BY <2>2 DEF OpenBlocks, c
  <1> QED
    BY <1>1, <1>2, Names

\* The blocks that may be waiting for an exception.
LEMMA CatchFacts ==
    ASSUME OpenBlocks, pc = "catch"
    PROVE  \/ /\ frames = << [fn |-> "gprom_rewriteQuery", save |-> 0],
                             [fn |-> "rewriteQueryInternal", save |-> 1] >>
              /\ exceptionBuf = 1 /\ CurFrame.fn = "rewriteQueryInternal"
           \/ \E fn \in {"gprom_rewriteQuery", "gprom_costQuery"} :
                 /\ frames = << [fn |-> fn, save |-> 0] >> /\ exceptionBuf = 0
                 /\ CurFrame.fn = fn
  <1> DEFINE one(fn) == << [fn |-> fn, save |-> 0] >>
             a == [fn |-> "gprom_rewriteQuery", save |-> 0]
             b == [fn |-> "rewriteQueryInternal", save |-> 1]
  <1>1. \/ frames = << a, b >> /\ exceptionBuf = 1
        \/ \E fn \in {"gprom_rewriteQuery", "gprom_costQuery"} :
              frames = one(fn) /\ exceptionBuf = 0
    BY DEF OpenBlocks
  <1>2. CASE frames = << a, b >> /\ exceptionBuf = 1
    <2>1. CurFrame = b /\ b.fn = "rewriteQueryInternal"
      BY <1>2, FrameFacts DEF CurFrame
    <2> QED
      BY <1>2, <2>1
  <1>3. ASSUME NEW fn, frames = one(fn)
        PROVE  CurFrame.fn = fn
    BY <1>3, FrameFacts DEF CurFrame
  <1> QED
    BY <1>1, <1>2, <1>3

LEMMA InitBlockInv == Init => BlockInv
  BY DEF Init, ExcInit, BlockInv, OpenBlocks, HandledOnce, Running

LEMMA NextBlockInv == BlockInv /\ [Next]_vars => BlockInv'
  <1> SUFFICES ASSUME BlockInv, [Next]_vars PROVE BlockInv'
    OBVIOUS
  <1>0. op \in [Thread -> Op] /\ OpenBlocks /\ HandledOnce
    BY DEF BlockInv
  <1>1. op' \in [Thread -> Op]
    <2>1. CASE \E t \in Thread, o \in Op : op' = [op EXCEPT ![t] = o]
      BY <1>0, <2>1
    <2>2. CASE op' = op
      BY <1>0, <2>2
    <2> QED
      BY <2>1, <2>2
         DEF Next, vars, libVars, call, LOCK_MUTEX, gprom_rewriteQuery,
             rewriteQueryInternal, rewriteQueryReturns, gprom_rewriteQueryEnds,
             gprom_costQuery, gprom_costQueryEnds, pipelineStep, Catch,
             catchRewriteInternal, catchLibrary, handleException, UNLOCK_MUTEX,
             checkExceptions, reportExceptions
  <1>2. ASSUME OpenBlocks', unhandled' = IF pc' = "catch" THEN 1 ELSE 0
        PROVE  BlockInv'
    BY <1>1, <1>2 DEF BlockInv, HandledOnce
  <1>3. ASSUME Running PROVE unhandled = IF pc = "catch" THEN 1 ELSE 0
    BY <1>0, <1>3 DEF HandledOnce
  <1>4. ASSUME pc' = "exited" PROVE BlockInv'
    BY <1>1, <1>4 DEF BlockInv, OpenBlocks, HandledOnce, Running
  <1>5. CASE UNCHANGED << frames, exceptionBuf, unhandled, pc >>
    <2>1. OpenBlocks' = OpenBlocks
      BY <1>5 DEF OpenBlocks
    <2>2. HandledOnce' = HandledOnce
      BY <1>5 DEF HandledOnce, Running
    <2> QED
      BY <1>0, <1>1, <2>1, <2>2 DEF BlockInv
  <1>6. CASE \E t \in Thread : LOCK_MUTEX(t)
    <2>1. /\ pc = "idle" /\ pc' \in Op
          /\ UNCHANGED << frames, exceptionBuf, unhandled >>
      BY <1>0, <1>6 DEF LOCK_MUTEX, pipeVars, excVars
    <2>2. pc' \in {"gprom_rewriteQuery", "gprom_costQuery"}
      BY <2>1, LibAssumption
    <2>3. frames = << >> /\ exceptionBuf = 0
      BY <1>0, <2>1 DEF OpenBlocks
    <2>4. OpenBlocks'
      BY <2>1, <2>2, <2>3 DEF OpenBlocks
    <2> QED
      BY <1>2, <1>3, <2>1, <2>2, <2>4 DEF Running
  <1>7. CASE gprom_rewriteQuery
    <2>1. /\ pc = "gprom_rewriteQuery" /\ TRY("gprom_rewriteQuery")
          /\ pc' = "rewriteQueryInternal" /\ unhandled' = unhandled
      BY <1>7 DEF gprom_rewriteQuery
    <2>2. OpenBlocks'
      BY <1>0, <2>1, TryFacts DEF OpenBlocks
    <2> QED
      BY <1>2, <1>3, <2>1, <2>2 DEF Running
  <1>8. CASE rewriteQueryInternal
    <2>1. /\ pc = "rewriteQueryInternal" /\ TRY("rewriteQueryInternal")
          /\ pc' = "pipeline" /\ unhandled' = unhandled
      BY <1>8 DEF rewriteQueryInternal
    <2>2. frames = << [fn |-> "gprom_rewriteQuery", save |-> 0] >> /\ exceptionBuf = 1
      BY <1>0, <2>1 DEF OpenBlocks
    <2>3. /\ frames' = << [fn |-> "gprom_rewriteQuery", save |-> 0],
                          [fn |-> "rewriteQueryInternal", save |-> 1] >>
          /\ exceptionBuf' = 2
      BY <2>1, <2>2, TryFacts
    <2>4. OpenBlocks'
      BY <2>1, <2>3 DEF OpenBlocks
    <2> QED
      BY <1>2, <1>3, <2>1, <2>4 DEF Running
  <1>9. CASE rewriteQueryReturns
    <2>1. /\ pc = "pipeline" /\ ReturnInsideTry /\ pc' = "rewriteEnd"
          /\ unhandled' = unhandled
      BY <1>9 DEF rewriteQueryReturns
    <2>2. /\ frames = << [fn |-> "gprom_rewriteQuery", save |-> 0],
                         [fn |-> "rewriteQueryInternal", save |-> 1] >>
          /\ exceptionBuf = 2
      BY <1>0, <2>1 DEF OpenBlocks
    <2>3. Len(frames) - 1 = 1 /\ exceptionBuf' = 2
      BY <2>1, <2>2, FrameFacts DEF ReturnInsideTry
    <2>4. frames' = << [fn |-> "gprom_rewriteQuery", save |-> 0] >>
      BY <2>1, <2>2, <2>3, FrameFacts DEF ReturnInsideTry
    <2>5. OpenBlocks'
      BY <2>1, <2>3, <2>4 DEF OpenBlocks
    <2> QED
      BY <1>2, <1>3, <2>1, <2>5 DEF Running
  <1>10. CASE gprom_rewriteQueryEnds \/ gprom_costQueryEnds
    <2>1. /\ pc \in {"rewriteEnd", "cost"} /\ END_TRY /\ pc' = "unlock"
          /\ unhandled' = unhandled
      BY <1>10 DEF gprom_rewriteQueryEnds, gprom_costQueryEnds
    <2>2. \E fn : frames = << [fn |-> fn, save |-> 0] >>
      BY <1>0, <2>1 DEF OpenBlocks
    <2>3. frames' = << >> /\ exceptionBuf' = 0
      BY <2>1, <2>2, EndTryFacts
    <2>4. OpenBlocks'
      BY <2>1, <2>3 DEF OpenBlocks
    <2> QED
      BY <1>2, <1>3, <2>1, <2>4 DEF Running
  <1>11. CASE gprom_costQuery
    <2>1. /\ pc = "gprom_costQuery" /\ TRY("gprom_costQuery")
          /\ pc' = "cost" /\ unhandled' = unhandled
      BY <1>11 DEF gprom_costQuery
    <2>2. OpenBlocks'
      BY <1>0, <2>1, TryFacts DEF OpenBlocks
    <2> QED
      BY <1>2, <1>3, <2>1, <2>2 DEF Running
  <1>12. CASE pipelineStep
    <2>1. /\ pc \in Stages
          /\ \/ UNCHANGED << frames, exceptionBuf, unhandled, pc >>
             \/ \E s \in Thrown : Throwing(s)
      BY <1>12, PipelineBlocks DEF pipelineStep
    <2>2. ASSUME NEW s \in Thrown, Throwing(s) PROVE BlockInv'
      <3>1. OpenBlocks' /\ pc' = "catch" /\ unhandled' = unhandled + 1
        BY <1>0, <2>1, <2>2, ThrownBlocks
      <3> QED
        BY <1>2, <1>3, <2>1, <3>1, Names DEF Running
    <2> QED
      BY <1>5, <2>1, <2>2
  <1>13. CASE catchRewriteInternal
    <2>1. pc = "catch" /\ RETHROW /\ CurFrame.fn = "rewriteQueryInternal"
      BY <1>13 DEF catchRewriteInternal
    <2>2. /\ frames = << [fn |-> "gprom_rewriteQuery", save |-> 0],
                         [fn |-> "rewriteQueryInternal", save |-> 1] >>
          /\ exceptionBuf = 1
      BY <1>0, <2>1, CatchFacts
    <2>3. /\ frames' = << [fn |-> "gprom_rewriteQuery", save |-> 0] >>
          /\ exceptionBuf' = 0 /\ pc' = "catch" /\ unhandled' = unhandled
      BY <2>1, <2>2, RethrowFacts
    <2>4. OpenBlocks'
      BY <2>3 DEF OpenBlocks
    <2> QED
      BY <1>2, <1>3, <2>1, <2>3, <2>4 DEF Running
  <1>14. CASE catchLibrary
    <2>1. /\ pc = "catch" /\ CurFrame.fn # "rewriteQueryInternal"
          /\ unhandled' = unhandled - 1
          /\ \/ pc' = "exited"
             \/ pc' = "unlock" /\ END_TRY
      BY <1>14 DEF catchLibrary, handleException, processException
    <2>2. \E fn : frames = << [fn |-> fn, save |-> 0] >>
      BY <1>0, <2>1, CatchFacts
    <2>3. CASE pc' = "unlock" /\ END_TRY
      <3>1. frames' = << >> /\ exceptionBuf' = 0
        BY <2>2, <2>3, EndTryFacts
      <3>2. OpenBlocks'
        BY <2>3, <3>1 DEF OpenBlocks
      <3> QED
        BY <1>2, <1>3, <2>1, <2>3, <3>2 DEF Running
    <2> QED
      BY <1>4, <2>1, <2>3
  <1>15. CASE UNLOCK_MUTEX
    <2>1. /\ pc = "unlock" /\ pc' = "idle"
          /\ UNCHANGED << frames, exceptionBuf, unhandled >>
      BY <1>15 DEF UNLOCK_MUTEX, pipeVars, excVars
    <2>2. OpenBlocks'
      BY <1>0, <2>1 DEF OpenBlocks
    <2> QED
      BY <1>2, <1>3, <2>1, <2>2 DEF Running
  <1>16. CASE ThreadStep
    BY <1>5, <1>16, ThreadStepFacts DEF pipeVars, excVars
  <1>17. CASE UNCHANGED vars
    BY <1>5, <1>17 DEF vars, pipeVars, excVars
  <1> QED
    BY <1>6, <1>7, <1>8, <1>9, <1>10, <1>11, <1>12, <1>13, <1>14, <1>15, <1>16, <1>17
       DEF Next, Catch, ThreadStep

LEMMA BlockInvHolds == Spec => []BlockInv
  <1> QED
    BY InitBlockInv, NextBlockInv, PTL DEF Spec

\* The return from inside a TRY block is harmless: wherever a call throws, the
\* jump goes to the innermost block that is still open.
THEOREM ReturnInsideTryIsHarmless == Spec => []LibHandlerChain
  <1>1. BlockInv => LibHandlerChain
    <2> SUFFICES ASSUME BlockInv PROVE LibHandlerChain
      OBVIOUS
    <2> DEFINE a == [fn |-> "gprom_rewriteQuery", save |-> 0]
               b == [fn |-> "rewriteQueryInternal", save |-> 1]
               one(fn) == << [fn |-> fn, save |-> 0] >>
    <2>1. OpenBlocks
      BY DEF BlockInv
    <2>2. ASSUME frames = << >>, exceptionBuf = 0, pc # "catch", pc # "rewriteEnd"
          PROVE  LibHandlerChain
      BY <2>1, <2>2, FrameFacts DEF OpenBlocks, LibHandlerChain, Chained
    <2>3. ASSUME NEW fn, frames = one(fn),
                 pc # "rewriteEnd" => exceptionBuf = IF pc = "catch" THEN 0 ELSE 1
          PROVE  LibHandlerChain
      <3>1. Len(frames) = 1 /\ frames[1].save = 1 - 1 /\ \A i \in 1 .. 1 : i = 1
        BY <2>3, FrameFacts
      <3> QED
        BY <2>1, <2>3, <3>1 DEF OpenBlocks, LibHandlerChain, Chained
    <2>4. ASSUME frames = << a, b >>, pc # "rewriteEnd",
                 exceptionBuf = IF pc = "catch" THEN 1 ELSE 2
          PROVE  LibHandlerChain
      <3>1. /\ Len(frames) = 2 /\ frames[1].save = 1 - 1 /\ frames[2].save = 2 - 1
            /\ \A i \in 1 .. 2 : i = 1 \/ i = 2
        BY <2>4, FrameFacts
      <3> QED
        BY <2>1, <2>4, <3>1 DEF OpenBlocks, LibHandlerChain, Chained
    <2>5. CASE pc = "exited"
      BY <2>5 DEF LibHandlerChain, Running
    <2> QED
      BY <2>1, <2>2, <2>3, <2>4, <2>5 DEF OpenBlocks
  <1> QED
    BY <1>1, BlockInvHolds, PTL

-----------------------------------------------------------------------------
(***************************************************************************)
(* The stack                                                               *)
(***************************************************************************)

\* What StackInv says of the stack of a running program.
LEMMA StackFacts ==
    ASSUME StackInv, Running
    PROVE  /\ Sound(stack, live) /\ stack[1] = defaultCtx /\ stack # << >>
           /\ Len(stack) \in Nat /\ Len(stack) >= 1
           /\ pc \notin Stages => released = << >>
  <1>1. /\ Sound(stack, live) /\ stack[1] = defaultCtx /\ stack # << >>
        /\ stack \in Seq(Ctx)
    BY DEF StackInv, StackSound, Sound, Injective, Stacks
  <1>2. Len(stack) \in Nat /\ Len(stack) >= 1
    BY <1>1
  <1> QED
    BY <1>1, <1>2 DEF StackInv

\* What a step has to show of it.
LEMMA ShowStackInv ==
    ASSUME Sound(stack, live)', stack' # << >>, stack'[1] = defaultCtx,
           pc' \notin Stages => released' = << >>,
           pc' \in {"idle", "gprom_rewriteQuery", "gprom_costQuery", "unlock"} =>
              Len(stack') = 1,
           pc' \in {"rewriteQueryInternal", "rewriteEnd"} =>
              Len(stack') = 2 /\ LibContext(stack'),
           pc' = "pipeline" => /\ PipeInv' /\ base' = 3 /\ LibContext(Unwound')
                               /\ ctxName[Unwound'[3]] = QueryName,
           pc' = "cost" => PipeInv' /\ base' = 1,
           pc' = "catch" => Named(stack', LibName) \subseteq {2}
    PROVE  StackInv'
  BY Names DEF StackInv, StackSound, Running, Sound, Injective, LibContext, Named

LEMMA ExitedStackInv ==
    ASSUME pc' = "exited"
    PROVE  StackInv'
  BY Names DEF StackInv, StackSound, Running

\* A step that leaves the stack of a program that runs no pipeline alone.
LEMMA SameStackInv ==
    ASSUME StackInv, Running, pc \notin Stages, pc' \notin Stages,
           UNCHANGED << stack, live, released >>,
           \/ pc' = pc
           \/ /\ pc \in {"idle", "unlock"}
              /\ pc' \in {"idle", "gprom_rewriteQuery", "gprom_costQuery"}
    PROVE  StackInv'
  <1>1. /\ Sound(stack, live) /\ stack[1] = defaultCtx /\ stack # << >>
        /\ released = << >>
    BY StackFacts
  <1>2. Sound(stack, live)' /\ Named(stack', LibName) = Named(stack, LibName)
    BY <1>1 DEF Sound, Named
  <1> QED
    BY <1>1, <1>2, Names, ShowStackInv DEF StackInv, LibContext

LEMMA InitStackInv == Init => StackInv
  <1> SUFFICES ASSUME Init PROVE StackInv
    OBVIOUS
  <1>1. /\ stack = << defaultCtx >> /\ live = {defaultCtx, Metadata}
        /\ released = << >> /\ pc = "idle"
    BY DEF Init, ExcInit
  <1>2. /\ stack \in Seq(Ctx) /\ Len(stack) = 1 /\ stack[1] = defaultCtx
        /\ stack # << >>
    BY <1>1, Names
  <1>3. \A i \in 1 .. 1 : i = 1
    OBVIOUS
  <1>4. stack \in Stacks /\ StackSound
    BY <1>1, <1>2, <1>3 DEF StackSound, OnStack, Stacks
  <1> QED
    BY <1>1, <1>2, <1>4, Names DEF StackInv

\* Releasing the top of the two and of the three contexts of a call.
LEMMA PopTwo ==
    ASSUME NEW l, NEW s, Sound(s, l), Len(s) = 2
    PROVE  /\ Top(s) = s[2] /\ FreeCur(s) = {s[2]}
           /\ Sound(Release(s), l \ {s[2]}) /\ Len(Release(s)) = 1
           /\ \A i \in 1 .. 1 : Release(s)[i] = s[i]
  <1>1. Len(s) > 1
    OBVIOUS
  <1>2. /\ FreeCur(s) = {s[Len(s)]} /\ Top(s) = s[Len(s)]
        /\ Sound(Release(s), l \ {s[Len(s)]}) /\ Len(Release(s)) = Len(s) - 1
        /\ \A i \in 1 .. Len(s) - 1 : Release(s)[i] = s[i]
    BY <1>1, PopFacts DEF Sound
  <1>3. s[Len(s)] = s[2] /\ Len(s) - 1 = 1
    OBVIOUS
  <1>4. Sound(Release(s), l \ {s[2]})
    BY <1>2, <1>3 DEF Sound
  <1>5. \A i \in 1 .. 1 : i \in 1 .. Len(s) - 1
    BY <1>3
  <1> QED
    BY <1>2, <1>3, <1>4, <1>5

LEMMA PopThree ==
    ASSUME NEW l, NEW s, Sound(s, l), Len(s) = 3
    PROVE  /\ Top(s) = s[3] /\ FreeCur(s) = {s[3]}
           /\ Sound(Release(s), l \ {s[3]}) /\ Len(Release(s)) = 2
           /\ \A i \in 1 .. 2 : Release(s)[i] = s[i]
  <1>1. Len(s) > 1
    OBVIOUS
  <1>2. /\ FreeCur(s) = {s[Len(s)]} /\ Top(s) = s[Len(s)]
        /\ Sound(Release(s), l \ {s[Len(s)]}) /\ Len(Release(s)) = Len(s) - 1
        /\ \A i \in 1 .. Len(s) - 1 : Release(s)[i] = s[i]
    BY <1>1, PopFacts DEF Sound
  <1>3. s[Len(s)] = s[3] /\ Len(s) - 1 = 2
    OBVIOUS
  <1>4. Sound(Release(s), l \ {s[3]})
    BY <1>2, <1>3 DEF Sound
  <1>5. \A i \in 1 .. 2 : i \in 1 .. Len(s) - 1
    BY <1>3
  <1> QED
    BY <1>2, <1>3, <1>4, <1>5

\* The calls of the library up to the pipeline, and back.
LEMMA CallStackInv ==
    ASSUME StackInv,
           \/ gprom_rewriteQuery \/ rewriteQueryInternal \/ rewriteQueryReturns
           \/ gprom_rewriteQueryEnds \/ gprom_costQuery \/ gprom_costQueryEnds
    PROVE  StackInv'
  <1>1. /\ Sound(stack, live) /\ stack[1] = defaultCtx /\ stack # << >>
        /\ Len(stack) \in Nat /\ Len(stack) >= 1
        /\ pc \notin Stages => released = << >>
    BY StackFacts
       DEF Running, gprom_rewriteQuery, rewriteQueryInternal, rewriteQueryReturns,
           gprom_rewriteQueryEnds, gprom_costQuery, gprom_costQueryEnds
  <1>2. CASE gprom_rewriteQuery
    <2>1. /\ pc = "gprom_rewriteQuery" /\ pc' = "rewriteQueryInternal"
          /\ NewAndAcquire(LibName) /\ released' = released
      BY <1>2 DEF gprom_rewriteQuery
    <2>2. Len(stack) = 1 /\ released = << >>
      BY <1>1, <2>1, Names DEF StackInv
    <2>3. PICK c \in Ctx \ live :
             /\ ctxName[c] = LibName /\ Sound(stack', live') /\ Len(stack') = 2
             /\ \A i \in 1 .. Len(stack) : stack'[i] = stack[i]
             /\ stack'[Len(stack) + 1] = c
      BY <1>1, <2>1, <2>2, NewAndAcquireFacts
    <2>4. stack'[1] = defaultCtx /\ stack'[2] = c /\ stack' # << >>
      BY <1>1, <2>2, <2>3
    <2> QED
      BY <2>1, <2>2, <2>3, <2>4, Names, ShowStackInv DEF LibContext
  <1>3. CASE rewriteQueryInternal
    <2>1. /\ pc = "rewriteQueryInternal" /\ pc' = "pipeline"
          /\ NewAndAcquire(QueryName) /\ released' = released /\ base' = Len(stack')
      BY <1>3 DEF rewriteQueryInternal
    <2>2. Len(stack) = 2 /\ LibContext(stack) /\ released = << >>
      BY <1>1, <2>1, Names DEF StackInv
    <2>3. PICK c \in Ctx \ live :
             /\ ctxName[c] = QueryName /\ Sound(stack', live') /\ Len(stack') = 3
             /\ \A i \in 1 .. Len(stack) : stack'[i] = stack[i]
             /\ stack'[Len(stack) + 1] = c
      BY <1>1, <2>1, <2>2, NewAndAcquireFacts
    <2>4. /\ stack'[1] = defaultCtx /\ stack'[2] = stack[2] /\ stack'[3] = c
          /\ stack' # << >> /\ base' = 3 /\ base' \in 1 .. Len(stack')
      BY <1>1, <2>1, <2>2, <2>3
    <2>5. PipeInv' /\ Unwound' = stack'
      BY <2>1, <2>2, <2>3, <2>4, PipelineEntered
    <2> QED
      BY <2>1, <2>2, <2>3, <2>4, <2>5, Names, ShowStackInv DEF LibContext
  <1>4. CASE rewriteQueryReturns
    <2> DEFINE r == Release(stack)
               q == stack[3]
    <2>1. /\ pc = "pipeline" /\ pc' = "rewriteEnd" /\ PipelineDone
          /\ stack' = FreeMemContext(r, Top(stack))
          /\ live' = live \ FreeMemContextFrees(r, Top(stack))
          /\ released' = released
      BY <1>4 DEF rewriteQueryReturns
    <2>2. PipeInv /\ base = 3 /\ LibContext(Unwound)
      BY <2>1 DEF StackInv
    <2>3. LibContext(stack) /\ Len(stack) = 3 /\ released = << >>
      BY <2>1, <2>2, PipelineLeft
    <2>4. /\ Top(stack) = q /\ Sound(r, live \ {q}) /\ Len(r) = 2
          /\ \A i \in 1 .. 2 : r[i] = stack[i]
      <3>1. /\ Top(stack) = stack[3]
            /\ Sound(Release(stack), live \ {stack[3]}) /\ Len(Release(stack)) = 2
            /\ \A i \in 1 .. 2 : Release(stack)[i] = stack[i]
        BY <1>1, <2>3, PopThree
      <3> QED
        BY <3>1 DEF r, q
    <2>5. q \in Ctx /\ q \in live /\ q # NULL
      <3>1. 3 \in 1 .. Len(stack)
        BY <2>3
      <3> QED
        BY <1>1, <3>1, CtxAssumption DEF Sound, Stacks, OnStack
    <2> HIDE DEF r, q
    <2>6. q \notin OnStack(r)
      BY <2>4 DEF Sound
    <2>7. Acquire(r, q) = Append(r, q)
      <3>1. r # << >> => Top(r) \in OnStack(r)
        BY <2>4 DEF Sound, Stacks, Top, OnStack
      <3> QED
        BY <2>5, <2>6, <3>1 DEF Acquire
    <2>8. /\ Sound(Append(r, q), (live \ {q}) \union {q})
          /\ Len(Append(r, q)) = 3
          /\ \A i \in 1 .. 2 : Append(r, q)[i] = r[i]
          /\ Append(r, q)[3] = q
      <3>1. Sound(Append(r, q), (live \ {q}) \union {q}) /\ r \in Stacks
        BY <2>4, <2>5, <2>6, PushKeepsSound DEF Sound
      <3>2. PICK n : n = Len(r)
        OBVIOUS
      <3>3. /\ Len(Append(r, q)) = n + 1
            /\ \A i \in 1 .. n : Append(r, q)[i] = r[i]
            /\ Append(r, q)[n + 1] = q
        BY <2>5, <3>1, <3>2, PushFacts
      <3> QED
        BY <2>4, <3>1, <3>2, <3>3
    <2>9. /\ FreeCur(Append(r, q)) = {q}
          /\ Sound(Release(Append(r, q)), ((live \ {q}) \union {q}) \ {q})
          /\ Len(Release(Append(r, q))) = 2
          /\ \A i \in 1 .. 2 : Release(Append(r, q))[i] = Append(r, q)[i]
      <3> PICK s, l : s = Append(r, q) /\ l = (live \ {q}) \union {q}
        OBVIOUS
      <3>1. /\ FreeCur(s) = {s[3]}
            /\ Sound(Release(s), l \ {s[3]}) /\ Len(Release(s)) = 2
            /\ \A i \in 1 .. 2 : Release(s)[i] = s[i]
        <4>1. Sound(s, l) /\ Len(s) = 3
          BY <2>8
        <4> QED
          BY <4>1, PopThree
      <3>2. s[3] = q
        BY <2>8
      <3> QED
        BY <3>1, <3>2 DEF Sound
    <2>10. stack' = Release(Append(r, q)) /\ live' = live \ {q}
      BY <2>1, <2>4, <2>7, <2>9 DEF FreeMemContext, FreeMemContextFrees
    <2>11. /\ Sound(stack', live') /\ Len(stack') = 2 /\ stack'[1] = defaultCtx
           /\ stack'[2] = stack[2] /\ stack' # << >>
      <3>1. ((live \ {q}) \union {q}) \ {q} = live \ {q}
        OBVIOUS
      <3>2. Sound(stack', live') /\ Len(stack') = 2
        BY <2>9, <2>10, <3>1
      <3>3. 1 \in 1 .. 2 /\ 2 \in 1 .. 2
        OBVIOUS
      <3>4. stack'[1] = defaultCtx /\ stack'[2] = stack[2]
        BY <1>1, <2>4, <2>8, <2>9, <2>10, <3>3
      <3> QED
        BY <3>2, <3>4
    <2> QED
      BY <2>1, <2>3, <2>11, Names, ShowStackInv DEF LibContext
  <1>5. CASE gprom_rewriteQueryEnds
    <2>1. /\ pc = "rewriteEnd" /\ pc' = "unlock" /\ stack' = Release(stack)
          /\ live' = live /\ released' = released
      BY <1>5 DEF gprom_rewriteQueryEnds
    <2>2. Len(stack) = 2 /\ released = << >>
      BY <1>1, <2>1, Names DEF StackInv
    <2>3. /\ Sound(stack', live \ {stack[Len(stack)]}) /\ Len(stack') = 1
          /\ \A i \in 1 .. 1 : stack'[i] = stack[i]
      <3>1. /\ Sound(Release(stack), live \ {stack[2]}) /\ Len(Release(stack)) = 1
            /\ \A i \in 1 .. 1 : Release(stack)[i] = stack[i]
        BY <1>1, <2>2, PopTwo
      <3> QED
        BY <2>1, <2>2, <3>1 DEF Sound
    <2>4. Sound(stack', live') /\ stack'[1] = defaultCtx /\ stack' # << >>
      BY <1>1, <2>1, <2>3 DEF Sound
    <2> QED
      BY <2>1, <2>2, <2>3, <2>4, Names, ShowStackInv
  <1>6. CASE gprom_costQuery
    <2>1. /\ pc = "gprom_costQuery" /\ pc' = "cost" /\ base' = Len(stack)
          /\ UNCHANGED << stack, live, released >>
      BY <1>6 DEF gprom_costQuery
    <2>2. Len(stack) = 1 /\ released = << >>
      BY <1>1, <2>1, Names DEF StackInv
    <2>3. /\ Sound(stack', live') /\ stack'[1] = defaultCtx /\ stack' # << >>
          /\ base' = 1 /\ base' = Len(stack') /\ base' \in 1 .. Len(stack')
      BY <1>1, <2>1, <2>2
    <2>4. PipeInv'
      BY <2>1, <2>2, <2>3, PipelineEntered
    <2> QED
      BY <2>1, <2>3, <2>4, Names, ShowStackInv
  <1>7. CASE gprom_costQueryEnds
    <2>1. /\ pc = "cost" /\ pc' = "unlock" /\ PipelineDone
          /\ UNCHANGED << stack, live, released >>
      BY <1>7 DEF gprom_costQueryEnds
    <2>2. PipeInv /\ base = 1
      BY <2>1 DEF StackInv
    <2>3. Len(stack) = 1 /\ released = << >>
      BY <2>1, <2>2, PipelineLeft
    <2> QED
      BY <1>1, <2>1, <2>3, Names, ShowStackInv
  <1> QED
    BY <1>2, <1>3, <1>4, <1>5, <1>6, <1>7

LEMMA PipelineStackInv ==
    ASSUME BlockInv, StackInv, PipelineNext
    PROVE  StackInv'
  <1>1. /\ pc \in {"pipeline", "cost"} /\ PipeInv /\ base \in Nat
        /\ pc = "pipeline" => /\ base = 3 /\ LibContext(Unwound)
                              /\ ctxName[Unwound[3]] = QueryName
        /\ pc = "cost" => base = 1
        /\ OpenBlocks
    BY PipelineBlocks, Names DEF StackInv, BlockInv
  <1>2. CASE enterStage \/ leaveStage \/ visitDown \/ visitUp
    <2>1. /\ PipeInv' /\ base' = base /\ pc' = pc
          /\ \A i \in 1 .. base : Unwound'[i] = Unwound[i]
      BY <1>1, <1>2, PipelineSteps
    <2>2. Sound(stack', live') /\ stack' # << >> /\ stack'[1] = defaultCtx
      BY <2>1, PipelineStack
    <2>3. pc = "pipeline" => Unwound'[2] = Unwound[2] /\ Unwound'[3] = Unwound[3]
      BY <1>1, <2>1
    <2> QED
      BY <1>1, <2>1, <2>2, <2>3, Names, ShowStackInv DEF LibContext
  <1>3. ASSUME NEW s, fail(s) \/ copyFails(s)
        PROVE  StackInv'
    <2>1. /\ Throwing(s) /\ released' = << >>
          /\ Sound(stack', live') /\ stack' # << >> /\ stack'[1] = defaultCtx
          /\ \A i \in 1 .. Len(stack') :
                \/ StageContext(stack'[i])
                \/ i \in 1 .. base /\ \A j \in 1 .. i : stack'[j] = Unwound[j]
      BY <1>1, <1>3, PipelineFails
    <2>2. pc' = "catch"
      BY <1>1, <2>1, ThrownBlocks, Names
    <2>3. ASSUME NEW i \in Named(stack', LibName) PROVE i = 2
      <3>1. i \in 1 .. Len(stack') /\ ctxName[stack'[i]] = LibName
        BY DEF Named
      <3>2. i \in 1 .. base /\ \A j \in 1 .. i : stack'[j] = Unwound[j]
        BY <2>1, <3>1, Names
      <3>3. i # 1
        BY <2>1, <3>1, Names
      <3>4. i \in 1 .. i
        BY <3>2
      <3>5. ctxName[Unwound[i]] = LibName
        BY <3>1, <3>2, <3>4
      <3>6. pc = "pipeline" /\ i # 3
        BY <1>1, <3>2, <3>3, <3>5, Names
      <3> QED
        BY <1>1, <3>2, <3>3, <3>6
    <2> QED
      BY <2>1, <2>2, <2>3, Names, ShowStackInv
  <1> QED
    BY <1>2, <1>3 DEF PipelineNext

\* The callback lets the program go on only where the library's context is on
\* the stack, right above the default one.
LEMMA CatchStackInv ==
    ASSUME BlockInv, StackInv, Catch, "WIPE" \notin Answers
    PROVE  StackInv'
  <1>1. /\ pc = "catch" /\ Sound(stack, live) /\ stack[1] = defaultCtx
        /\ stack # << >> /\ released = << >> /\ Named(stack, LibName) \subseteq {2}
        /\ OpenBlocks
    BY StackFacts, Names
       DEF Running, Catch, catchRewriteInternal, catchLibrary, StackInv, BlockInv
  <1>2. CASE catchRewriteInternal
    <2>1. RETHROW /\ CurFrame.fn = "rewriteQueryInternal" /\ released' = released
      BY <1>2 DEF catchRewriteInternal
    <2>2. /\ frames = << [fn |-> "gprom_rewriteQuery", save |-> 0],
                         [fn |-> "rewriteQueryInternal", save |-> 1] >>
          /\ exceptionBuf = 1
      BY <1>1, <2>1, CatchFacts
    <2>3. pc' = "catch" /\ UNCHANGED << stack, live >>
      BY <2>1, <2>2, RethrowFacts
    <2> QED
      BY <1>1, <2>1, <2>3, Names, SameStackInv DEF Running
  <1>3. CASE catchLibrary
    <2>1. PICK answer \in Answers : processException(answer, "unlock")
      BY <1>3 DEF catchLibrary, handleException
    <2>2. answer \in {"DIE", "ABORT"} /\ released' = released
      BY <1>3, LibAssumption DEF Answer, catchLibrary, handleException
    <2>3. CASE Dies(answer)
      BY <2>1, <2>3, ExitedStackInv DEF processException
    <2>4. CASE ~ Dies(answer)
      <3>1. /\ pc' = "unlock" /\ stack' = Wipe(stack, LibName)
            /\ live' = live \ WipeFrees(stack, LibName)
            /\ Named(stack, LibName) # {}
        BY <2>1, <2>2, <2>4, Names DEF processException, Dies
      <3>2. 2 \in Named(stack, LibName) /\ \A i \in Named(stack, LibName) : i = 2
        BY <1>1, <3>1
      <3>3. /\ Len(stack') = 1 /\ Sound(stack', live')
            /\ \A i \in 1 .. 1 : stack'[i] = stack[i]
        <4>1. PICK p \in Named(stack, LibName) : p = 2
          BY <3>2
        <4>2. /\ Len(stack') = p - 1 /\ Sound(stack', live')
              /\ \A i \in 1 .. p - 1 : stack'[i] = stack[i]
          <5>1. p > 1
            BY <4>1
          <5>2. \A i \in Named(stack, LibName) : i = p
            BY <3>2, <4>1
          <5> QED
            BY <1>1, <3>1, <5>1, <5>2, WipeFacts
        <4> QED
          BY <4>1, <4>2
      <3>4. stack' # << >> /\ stack'[1] = defaultCtx
        BY <1>1, <3>3
      <3> QED
        BY <1>1, <2>2, <3>1, <3>3, <3>4, Names, ShowStackInv
    <2> QED
      BY <2>3, <2>4
  <1> QED
    BY <1>2, <1>3 DEF Catch

LEMMA UnchangedStackInv ==
    ASSUME StackInv, UNCHANGED << pipeVars, pc >>
    PROVE  StackInv'
  <1>1. UNCHANGED << stack, live, released, base, pc >>
    BY DEF pipeVars, excVars
  <1>2. Unwound' = Unwound /\ PipeInv' = PipeInv
    BY <1>1, SamePipeline
  <1>3. Running' = Running /\ StackSound' = StackSound
    BY <1>1 DEF Running, StackSound
  <1>4. Named(stack', LibName) = Named(stack, LibName)
    BY <1>1
  <1> QED
    BY <1>1, <1>2, <1>3, <1>4 DEF StackInv, LibContext

LEMMA NextStackInv ==
    ASSUME "WIPE" \notin Answers, BlockInv, StackInv, [Next]_vars
    PROVE  StackInv'
  <1>1. CASE UNCHANGED << pipeVars, pc >>
    BY <1>1, UnchangedStackInv
  <1>2. CASE \E t \in Thread : LOCK_MUTEX(t)
    <2>1. pc = "idle" /\ pc' \in Op /\ UNCHANGED << stack, live, released >>
      BY <1>2 DEF BlockInv, LOCK_MUTEX, pipeVars, excVars
    <2> QED
      BY <2>1, LibAssumption, Names, SameStackInv DEF Running
  <1>3. CASE UNLOCK_MUTEX
    <2>1. pc = "unlock" /\ pc' = "idle" /\ UNCHANGED << stack, live, released >>
      BY <1>3 DEF UNLOCK_MUTEX, pipeVars, excVars
    <2> QED
      BY <2>1, Names, SameStackInv DEF Running
  <1>4. CASE pipelineStep
    BY <1>4, PipelineStackInv DEF pipelineStep
  <1>5. CASE Catch
    BY <1>5, CatchStackInv
  <1>6. CASE \/ gprom_rewriteQuery \/ rewriteQueryInternal \/ rewriteQueryReturns
             \/ gprom_rewriteQueryEnds \/ gprom_costQuery \/ gprom_costQueryEnds
    BY <1>6, CallStackInv
  <1>7. CASE ThreadStep
    BY <1>1, <1>7, ThreadStepFacts
  <1>8. CASE UNCHANGED vars
    BY <1>1, <1>8 DEF vars
  <1> QED
    BY <1>2, <1>3, <1>4, <1>5, <1>6, <1>7, <1>8 DEF Next, ThreadStep

\* Whether a call succeeds or is aborted, deep in the pipeline or before it has
\* begun, the caller has its memory context back.  (A callback may also ask to
\* go on without a wipe: then it is for the caller to clean up.)
THEOREM CallerHasItsStackBack ==
    ASSUME "WIPE" \notin Answers
    PROVE  Spec => []CallerStackRestored
  <1>1. Init => StackInv
    BY InitStackInv
  <1>2. BlockInv /\ StackInv /\ [Next]_vars => StackInv'
    BY NextStackInv
  <1>3. StackInv => CallerStackRestored
    <2> SUFFICES ASSUME StackInv, pc = "idle" PROVE stack = << defaultCtx >>
      BY DEF CallerStackRestored
    <2>1. Sound(stack, live) /\ stack[1] = defaultCtx /\ Len(stack) = 1
      BY StackFacts DEF StackInv, Running
    <2>2. stack \in Seq(Ctx) /\ << defaultCtx >> \in Seq(Ctx)
      BY <2>1, Names DEF Sound, Stacks
    <2> QED
      BY <2>1, <2>2
  <1> QED
    BY <1>1, <1>2, <1>3, BlockInvHolds, PTL DEF Spec

-----------------------------------------------------------------------------
(***************************************************************************)
(* The mutex and the wrapper                                               *)
(***************************************************************************)

\* The steps of the thread that holds the mutex, between taking it and giving
\* it back: what they do to the state of the wrapper.
Goes(p, q) == pc = p /\ pc' = q /\ UNCHANGED libVars

Returns ==
    \/ Goes("gprom_rewriteQuery", "rewriteQueryInternal")
    \/ Goes("rewriteQueryInternal", "pipeline")
    \/ Goes("pipeline", "rewriteEnd")
    \/ Goes("rewriteEnd", "unlock")
    \/ Goes("gprom_costQuery", "cost")
    \/ Goes("cost", "unlock")
    \/ Goes("catch", "catch")
    \/ pc \in Stages /\ pc' = pc /\ UNCHANGED libVars

Fails ==
    /\ pc \in Stages /\ pc' = "catch"
    /\ failed' = [failed EXCEPT ![lock] = TRUE]
    /\ UNCHANGED << lock, thr, op, exceptions, outcome >>

Reports ==
    /\ pc = "catch" /\ pc' \in {"unlock", "exited"}
    /\ exceptions' = IF op[lock] = "gprom_rewriteQuery"
                     THEN Append(exceptions, lock) ELSE exceptions
    /\ UNCHANGED << lock, thr, op, failed, outcome >>

LEMMA NextCases ==
    ASSUME BlockInv, [Next]_vars
    PROVE  \/ Returns \/ Fails \/ Reports
           \/ \E t \in Thread : LOCK_MUTEX(t)
           \/ UNLOCK_MUTEX
           \/ ThreadStep
           \/ UNCHANGED << pc, libVars >>
  <1>1. OpenBlocks
    BY DEF BlockInv
  <1>2. CASE \/ gprom_rewriteQuery \/ rewriteQueryInternal \/ rewriteQueryReturns
             \/ gprom_rewriteQueryEnds \/ gprom_costQuery \/ gprom_costQueryEnds
    BY <1>2 DEF gprom_rewriteQuery, rewriteQueryInternal, rewriteQueryReturns,
                gprom_rewriteQueryEnds, gprom_costQuery, gprom_costQueryEnds,
                Returns, Goes
  <1>3. CASE pipelineStep
    <2>1. /\ pc \in Stages
          /\ pc' = pc \/ \E s \in Thrown : Throwing(s)
          /\ failed' = IF pc' \in Stages THEN failed ELSE [failed EXCEPT ![lock] = TRUE]
          /\ UNCHANGED << lock, thr, op, exceptions, outcome >>
      BY <1>3, PipelineBlocks DEF pipelineStep
    <2>2. CASE pc' = pc
      BY <2>1, <2>2 DEF Returns, libVars
    <2>3. ASSUME NEW s \in Thrown, Throwing(s)
          PROVE  Fails
      <3>1. pc' = "catch"
        BY <1>1, <2>1, <2>3, ThrownBlocks
      <3> QED
        BY <2>1, <3>1, Names DEF Fails
    <2> QED
      BY <2>1, <2>2, <2>3
  <1>4. CASE catchRewriteInternal
    <2>1. /\ pc = "catch" /\ RETHROW /\ CurFrame.fn = "rewriteQueryInternal"
          /\ UNCHANGED libVars
      BY <1>4 DEF catchRewriteInternal
    <2>2. /\ frames = << [fn |-> "gprom_rewriteQuery", save |-> 0],
                         [fn |-> "rewriteQueryInternal", save |-> 1] >>
          /\ exceptionBuf = 1
      BY <1>1, <2>1, CatchFacts
    <2>3. pc' = "catch"
      BY <2>1, <2>2, RethrowFacts
    <2> QED
      BY <2>1, <2>3 DEF Returns, Goes
  <1>5. CASE catchLibrary
    BY <1>5 DEF catchLibrary, handleException, processException, Reports
  <1> QED
    BY <1>2, <1>3, <1>4, <1>5 DEF Next, Catch, ThreadStep, vars

LEMMA InitLockInv == Init => LockInv
  BY LibAssumption DEF Init, LockInv

\* The mutex is held by the one thread that is in the library, and it has failed
\* exactly from the throw on.
LEMMA NextLockInv == BlockInv /\ LockInv /\ [Next]_vars => LockInv'
  <1> SUFFICES ASSUME BlockInv, LockInv, [Next]_vars PROVE LockInv'
    OBVIOUS
  <1>0. op \in [Thread -> Op] /\ NULL \notin Thread /\ Stages = {"pipeline", "cost"}
        /\ Op \subseteq {"gprom_rewriteQuery", "gprom_costQuery"}
    BY LibAssumption DEF BlockInv
  <1>1. CASE Returns
    BY <1>0, <1>1 DEF Returns, Goes, libVars, LockInv
  <1>2. CASE Fails
    BY <1>0, <1>2 DEF Fails, LockInv
  <1>3. CASE Reports
    BY <1>0, <1>3 DEF Reports, LockInv
  <1>4. ASSUME NEW t \in Thread, LOCK_MUTEX(t) PROVE LockInv'
    BY <1>0, <1>4 DEF LOCK_MUTEX, LockInv
  <1>5. CASE UNLOCK_MUTEX
    BY <1>0, <1>5 DEF UNLOCK_MUTEX, LockInv
  <1>6. ASSUME NEW t \in Thread, NEW o \in Op, call(t, o) PROVE LockInv'
    BY <1>0, <1>6 DEF call, LockInv
  <1>7. ASSUME NEW t \in Thread, checkExceptions(t) PROVE LockInv'
    BY <1>0, <1>7 DEF checkExceptions, LockInv
  <1>8. ASSUME NEW t \in Thread, reportExceptions(t) PROVE LockInv'
    BY <1>0, <1>8 DEF reportExceptions, LockInv
  <1>9. CASE UNCHANGED << pc, libVars >>
    BY <1>9 DEF libVars, LockInv
  <1> QED
    BY <1>1, <1>2, <1>3, <1>4, <1>5, <1>6, <1>7, <1>8, <1>9, NextCases DEF ThreadStep

\* A thread that has begun no rewrite had begun none a step earlier.
LEMMA NoRewriteBefore ==
    ASSUME BlockInv, LockInv, [Next]_vars, NEW u \in Thread, NoRewrite(u)'
    PROVE  NoRewrite(u)
  <1>0. op \in [Thread -> Op] /\ NULL \notin Thread
        /\ Op \subseteq {"gprom_rewriteQuery", "gprom_costQuery"}
    BY LibAssumption DEF BlockInv
  <1>1. CASE UNCHANGED << thr, op, outcome >>
    BY <1>1 DEF NoRewrite
  <1>2. ASSUME NEW t \in Thread, LOCK_MUTEX(t) PROVE NoRewrite(u)
    BY <1>0, <1>2 DEF LOCK_MUTEX, LockInv, NoRewrite
  <1>3. CASE UNLOCK_MUTEX
    BY <1>0, <1>3 DEF UNLOCK_MUTEX, LockInv, NoRewrite
  <1>4. ASSUME NEW t \in Thread, NEW o \in Op, call(t, o) PROVE NoRewrite(u)
    BY <1>0, <1>4 DEF call, LockInv, NoRewrite
  <1>5. ASSUME NEW t \in Thread, checkExceptions(t) PROVE NoRewrite(u)
    BY <1>0, <1>5 DEF checkExceptions, LockInv, NoRewrite
  <1>6. ASSUME NEW t \in Thread, reportExceptions(t) PROVE NoRewrite(u)
    BY <1>0, <1>6 DEF reportExceptions, LockInv, NoRewrite
  <1> QED
    BY <1>1, <1>2, <1>3, <1>4, <1>5, <1>6, NextCases
       DEF ThreadStep, Returns, Goes, Fails, Reports, libVars

LEMMA InitOutcomeInv == Init => OutcomeInv
  BY DEF Init, OutcomeInv, ListInv

LEMMA NextOutcomeInv == BlockInv /\ LockInv /\ OutcomeInv /\ [Next]_vars => OutcomeInv'
  <1> SUFFICES ASSUME BlockInv, LockInv, OutcomeInv, [Next]_vars,
                      NEW t \in Thread, \A u \in Thread \ {t} : NoRewrite(u)'
               PROVE  ListInv(t)'
    BY DEF OutcomeInv
  <1>0. op \in [Thread -> Op] /\ NULL \notin Thread /\ Stages = {"pipeline", "cost"}
        /\ Op \subseteq {"gprom_rewriteQuery", "gprom_costQuery"}
    BY LibAssumption DEF BlockInv
  <1>a. ListInv(t) /\ \A u \in Thread \ {t} : NoRewrite(u)
    BY NoRewriteBefore DEF OutcomeInv
  <1>1. CASE Returns
    BY <1>0, <1>1, <1>a DEF Returns, Goes, libVars, LockInv, ListInv, Running
  <1>2. CASE Fails
    BY <1>0, <1>2, <1>a DEF Fails, LockInv, ListInv, Running
  <1>3. CASE Reports
    BY <1>0, <1>3, <1>a DEF Reports, LockInv, ListInv, NoRewrite, Running
  <1>4. ASSUME NEW u \in Thread, LOCK_MUTEX(u) PROVE ListInv(t)'
    BY <1>0, <1>4, <1>a DEF LOCK_MUTEX, LockInv, ListInv, Running
  <1>5. CASE UNLOCK_MUTEX
    BY <1>0, <1>5, <1>a DEF UNLOCK_MUTEX, LockInv, ListInv, Running
  <1>6. ASSUME NEW u \in Thread, NEW o \in Op, call(u, o) PROVE ListInv(t)'
    BY <1>0, <1>6, <1>a DEF call, pipeVars, LockInv, ListInv, Running
  <1>7. ASSUME NEW u \in Thread, checkExceptions(u) PROVE ListInv(t)'
    BY <1>0, <1>7, <1>a DEF checkExceptions, LockInv, ListInv, Running
  <1>8. ASSUME NEW u \in Thread, reportExceptions(u) PROVE ListInv(t)'
    BY <1>0, <1>8, <1>a DEF reportExceptions, LockInv, ListInv, NoRewrite, Running
  <1>9. CASE UNCHANGED << pc, libVars >>
    BY <1>9, <1>a DEF libVars, ListInv, Running
  <1> QED
    BY <1>1, <1>2, <1>3, <1>4, <1>5, <1>6, <1>7, <1>8, <1>9, NextCases DEF ThreadStep

\* As long as no other thread rewrites queries, the wrapper's caller gets an
\* error for a query exactly when its rewrite threw, whatever other threads ask
\* the library to cost meanwhile.
THEOREM OutcomeBelongsToItsQuery == Spec => []OutcomeIsOwn
  <1>1. OutcomeInv => OutcomeIsOwn
    BY DEF OutcomeInv, OutcomeIsOwn, NoRewrite, ListInv
  <1> QED
    BY <1>1, InitLockInv, NextLockInv, InitOutcomeInv, NextOutcomeInv, BlockInvHolds,
       PTL DEF Spec
=============================================================================
