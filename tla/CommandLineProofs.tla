------------------------- MODULE CommandLineProofs --------------------------
(***************************************************************************)
(* The invariants of a session of the command line client, for any set of  *)
(* contexts, any depth of the operator graph and a session of any length.  *)
(***************************************************************************)
EXTENDS CommandLine, PipelineProofs

\* What IInv says of the stack of a running session.
LEMMA SessionFacts ==
    ASSUME IInv, Running
    PROVE  /\ Sound(stack, live) /\ stack[1] = defaultCtx
           /\ Len(stack) \in Nat /\ Len(stack) >= 1
           /\ 1 \in 1 .. Len(stack) /\ defaultCtx \in live
           /\ unhandled = IF pc = "catch" THEN 1 ELSE 0
  <1>1. /\ Sound(stack, live) /\ stack[1] = defaultCtx /\ stack # << >>
        /\ stack \in Seq(Ctx)
    BY DEF IInv, StackSound, Sound, Injective, Stacks
  <1>2. Len(stack) \in Nat /\ Len(stack) >= 1 /\ 1 \in 1 .. Len(stack)
    BY <1>1
  <1>3. defaultCtx \in live
    BY <1>1, <1>2 DEF Sound, OnStack
  <1> QED
    BY <1>1, <1>2, <1>3 DEF IInv, HandledOnce

\* The parts of IInv that every step of a running session has to show ...
LEMMA ShowIInv ==
    ASSUME OpenBlocks', Sound(stack, live)', stack' # << >>, stack'[1] = defaultCtx,
           unhandled' = IF pc' = "catch" THEN 1 ELSE 0,
           pc' \notin Stages => released' = << >>,
           pc' = "pipeline" => PipeInv' /\ InQuery',
           pc' = "backend" => PipeInv' /\ InBackend',
           pc' = "catch" => Cut',
           pc' \in {"main", "readConf", "setup"} => QueryContexts' = {},
           pc' = "main" => Len(stack') = 1,
           pc' = "readConf" => Len(stack') = 2,
           pc' = "setup" => Len(stack') = 1,
           pc' \in {"prompt", "processInput", "processEnd", "backendEnd", "shutdown"} =>
              Quiet'
    PROVE  IInv'
  BY CommandLineAssumption DEF IInv, HandledOnce, StackSound, Running, Sound, Injective

\* ... and that a step that ends it has not.
LEMMA ExitedIInv ==
    ASSUME pc' = "exited"
    PROVE  IInv'
  BY CommandLineAssumption DEF IInv, OpenBlocks, HandledOnce, StackSound, Running

LEMMA Names ==
    /\ QueryName \notin {StageName, ProcessName, ConfName}
    /\ ctxName[Metadata] # QueryName /\ ctxName[Metadata] # StageName
    /\ ctxName[defaultCtx] # QueryName
    /\ \A c \in LongLived : ctxName[c] # QueryName
    /\ wipeContext = QueryName /\ Stages = {"pipeline", "backend"}
    /\ \A c : StageContext(c) => ctxName[c] # QueryName
    /\ Metadata \in Ctx /\ defaultCtx \in Ctx
  BY CommandLineAssumption, PipelineAssumption, ExceptionAssumption, CtxAssumption
     DEF StageContext

\* The blocks open when something throws, one or two, still are in the handler.
LEMMA ThrownBlocks ==
    ASSUME OpenBlocks, pc \in {"readConf", "pipeline", "backend"}, NEW s, Throwing(s)
    PROVE  OpenBlocks' /\ pc' = "catch" /\ unhandled' = unhandled + 1
  <1> DEFINE one(fn) == << [fn |-> fn, save |-> 0] >>
             a == [fn |-> "process", save |-> 0]
             b == [fn |-> "processInput", save |-> 1]
  <1>1. CASE pc = "pipeline"
    <2>1. frames = << a, b >> /\ exceptionBuf = 2 /\ b.save = 1
      BY <1>1 DEF OpenBlocks
    <2> HIDE DEF a, b
    <2>2. /\ frames' = << a, b >> /\ exceptionBuf' = 1 /\ pc' = "catch"
          /\ unhandled' = unhandled + 1
      BY <2>1, ThrowingFacts
    <2> QED
      BY <2>2 DEF OpenBlocks, a, b
  <1>2. ASSUME NEW fn \in {"readConf", "backend"}, pc = fn
        PROVE  OpenBlocks' /\ pc' = "catch" /\ unhandled' = unhandled + 1
    <2>1. frames = one(fn) /\ exceptionBuf = 1 /\ [fn |-> fn, save |-> 0].save = 0
      BY <1>2 DEF OpenBlocks
    <2>2. /\ frames' = one(fn) /\ exceptionBuf' = 0 /\ pc' = "catch"
          /\ unhandled' = unhandled + 1
      BY <2>1, ThrowingFacts
    <2> QED
      BY <1>2, <2>2 DEF OpenBlocks
  <1> QED
    BY <1>1, <1>2

LEMMA ThrownIInv ==
    ASSUME IInv, pc \in {"readConf", "pipeline", "backend"}, NEW s, Throwing(s),
           released' = << >>, Sound(stack, live)', stack' # << >>,
           stack'[1] = defaultCtx, Cut'
    PROVE  IInv'
  <1>1. OpenBlocks' /\ pc' = "catch" /\ unhandled' = unhandled + 1
    BY ThrownBlocks DEF IInv
  <1>2. unhandled' = 1
    BY <1>1, SessionFacts DEF Running
  <1> QED
    BY <1>1, <1>2, Names, ShowIInv

-----------------------------------------------------------------------------

LEMMA InitIInv == Init => IInv
  <1> SUFFICES ASSUME Init PROVE IInv
    OBVIOUS
  <1>1. /\ stack = << defaultCtx >> /\ live = {defaultCtx} /\ frames = << >>
        /\ exceptionBuf = 0 /\ unhandled = 0 /\ released = << >> /\ pc = "main"
    BY DEF Init, ExcInit
  <1>2. OpenBlocks
    BY <1>1 DEF OpenBlocks
  <1>3. stack \in Stacks /\ StackSound
    <2>1. /\ stack \in Seq(Ctx) /\ Len(stack) = 1 /\ stack[1] = defaultCtx
          /\ stack # << >>
      BY <1>1, Names
    <2>2. \A i \in 1 .. 1 : i = 1
      OBVIOUS
    <2> QED
      BY <1>1, <2>1, <2>2 DEF StackSound, OnStack, Stacks
  <1>4. QueryContexts = {}
    BY <1>1, Names DEF QueryContexts
  <1> QED
    BY <1>1, <1>2, <1>3, <1>4, Names DEF IInv, HandledOnce, Running

LEMMA UnchangedIInv == ASSUME IInv, UNCHANGED vars PROVE IInv'
  <1>1. UNCHANGED << stack, live, frames, exceptionBuf, severity, unhandled, released,
                     base, pc >>
    BY DEF vars, pipeVars, excVars
  <1>2. QueryContexts' = QueryContexts /\ Running' = Running
    BY <1>1 DEF QueryContexts, Running
  <1>3. Unwound' = Unwound /\ PipeInv' = PipeInv
    BY <1>1, SamePipeline
  <1>4. InQuery' = InQuery /\ InBackend' = InBackend /\ Quiet' = Quiet /\ Cut' = Cut
    BY <1>1, <1>2, <1>3 DEF InQuery, InBackend, Quiet, Cut, Named
  <1>5. OpenBlocks' = OpenBlocks /\ HandledOnce' = HandledOnce
    BY <1>1, <1>2 DEF OpenBlocks, HandledOnce
  <1>6. StackSound' = StackSound
    BY <1>1, <1>2 DEF StackSound
  <1> QED
    BY <1>1, <1>2, <1>3, <1>4, <1>5, <1>6 DEF IInv

LEMMA ReadConfIInv ==
    ASSUME IInv, readConf \/ readConfFails \/ readConfEnds \/ setupPlugins
    PROVE  IInv'
  <1>1. CASE readConf
    <2>1. pc = "main" /\ pc' = "readConf" /\ UNCHANGED << unhandled, released >>
      BY <1>1 DEF readConf
    <2>2. /\ Sound(stack, live) /\ stack[1] = defaultCtx /\ Len(stack) = 1
          /\ QueryContexts = {} /\ unhandled = 0 /\ released = << >>
          /\ frames = << >> /\ exceptionBuf = 0
      BY <2>1, SessionFacts, Names DEF IInv, Running, OpenBlocks
    <2>3. PICK c \in Ctx \ live :
             /\ ctxName[c] = ConfName /\ live' = live \union {c}
             /\ Sound(stack', live') /\ Len(stack') = 2
             /\ \A i \in 1 .. Len(stack) : stack'[i] = stack[i]
      BY <1>1, <2>2, NewAndAcquireFacts DEF readConf
    <2>4. QueryContexts' = {}
      BY <2>2, <2>3, Names DEF QueryContexts
    <2>5. OpenBlocks'
      BY <1>1, <2>1, <2>2, TryFacts DEF readConf, OpenBlocks
    <2>6. stack'[1] = defaultCtx /\ stack' # << >>
      BY <2>2, <2>3
    <2> QED
      BY <2>1, <2>2, <2>3, <2>4, <2>5, <2>6, Names, ShowIInv
  <1>2. CASE readConfFails
    <2>1. /\ pc = "readConf" /\ Throwing("RECOVERABLE")
          /\ UNCHANGED << stack, live, released >>
      BY <1>2 DEF readConfFails, THROW
    <2>2. /\ Sound(stack, live) /\ stack[1] = defaultCtx /\ Len(stack) >= 1
          /\ QueryContexts = {} /\ released = << >>
      BY <2>1, SessionFacts, Names DEF IInv, Running
    <2>3. Cut
      <3>1. ASSUME NEW i \in Named(stack, QueryName) PROVE FALSE
        BY <2>2 DEF Named, Sound, Stacks, OnStack, QueryContexts
      <3> QED
        BY <3>1 DEF Cut
    <2>4. Cut' /\ Sound(stack, live)' /\ stack' # << >>
      BY <2>1, <2>2, <2>3 DEF Cut, Named, QueryContexts
    <2> QED
      BY <2>1, <2>2, <2>4, ThrownIInv
  <1>3. CASE readConfEnds
    <2>1. /\ pc = "readConf" /\ pc' = "setup" /\ UNCHANGED << unhandled, released >>
          /\ FreeAndRelease /\ END_TRY
      BY <1>3 DEF readConfEnds
    <2>2. /\ Sound(stack, live) /\ stack[1] = defaultCtx /\ Len(stack) = 2
          /\ QueryContexts = {} /\ unhandled = 0 /\ released = << >>
          /\ frames = << [fn |-> "readConf", save |-> 0] >>
      BY <2>1, SessionFacts, Names DEF IInv, Running, OpenBlocks
    <2>3. /\ Sound(stack', live') /\ Len(stack') = 1 /\ stack'[1] = stack[1]
          /\ live' \subseteq live
      BY <2>1, <2>2, FreeAndReleaseFacts
    <2>4. frames' = << >> /\ exceptionBuf' = 0
      BY <2>1, <2>2, EndTryFacts
    <2>5. OpenBlocks'
      BY <2>1, <2>4 DEF OpenBlocks
    <2>6. QueryContexts' = {}
      BY <2>2, <2>3 DEF QueryContexts
    <2> QED
      BY <2>1, <2>2, <2>3, <2>5, <2>6, Names, ShowIInv
  <1>4. CASE setupPlugins
    <2>1. /\ pc = "setup" /\ released' = released
          /\ \/ /\ live' = live \union {Metadata} /\ pc' = "prompt"
                /\ UNCHANGED << stack, frames, exceptionBuf, unhandled >>
             \/ Throwing("RECOVERABLE")
      BY <1>4 DEF setupPlugins, THROW
    <2>2. /\ Sound(stack, live) /\ stack[1] = defaultCtx /\ Len(stack) = 1
          /\ QueryContexts = {} /\ unhandled = 0 /\ released = << >>
          /\ frames = << >> /\ exceptionBuf = 0 /\ stack # << >>
      BY <2>1, SessionFacts, Names DEF IInv, Running, OpenBlocks
    <2>3. CASE Throwing("RECOVERABLE")
      BY <2>2, <2>3, ThrowingFacts, ExitedIInv
    <2>4. CASE /\ live' = live \union {Metadata} /\ pc' = "prompt"
               /\ UNCHANGED << stack, frames, exceptionBuf, unhandled >>
      <3>1. Sound(stack', live')
        BY <2>2, <2>4 DEF Sound
      <3>2. OpenBlocks'
        BY <2>2, <2>4 DEF OpenBlocks
      <3>3. QueryContexts' = {}
        BY <2>2, <2>4, Names DEF QueryContexts
      <3>4. Len(stack') = 1
        BY <2>2, <2>4
      <3>5. Quiet'
        BY <3>3, <3>4 DEF Quiet
      <3> QED
        BY <2>1, <2>2, <2>4, <3>1, <3>2, <3>3, <3>5, Names, ShowIInv
    <2> QED
      BY <2>1, <2>3, <2>4
  <1> QED
    BY <1>1, <1>2, <1>3, <1>4

\* A query, or a command for the backend, gets its contexts.
LEMMA EnterIInv ==
    ASSUME IInv, process \/ processInput \/ backendCommand
    PROVE  IInv'
  <1>1. /\ Sound(stack, live) /\ stack[1] = defaultCtx /\ Len(stack) >= 1
        /\ Len(stack) \in Nat /\ unhandled = 0 /\ released = << >> /\ Quiet
    BY SessionFacts, Names DEF IInv, Running, process, processInput, backendCommand
  <1>2. CASE process
    <2>1. /\ pc = "prompt" /\ pc' = "processInput" /\ UNCHANGED << unhandled, released >>
          /\ TRY("process") /\ NewAndAcquire(ProcessName)
      BY <1>2 DEF process
    <2>2. PICK c \in Ctx \ live :
             /\ ctxName[c] = ProcessName /\ live' = live \union {c}
             /\ Sound(stack', live') /\ Len(stack') = Len(stack) + 1
             /\ \A i \in 1 .. Len(stack) : stack'[i] = stack[i]
             /\ stack'[Len(stack) + 1] = c
             /\ \A i \in 1 .. Len(stack') : i \in 1 .. Len(stack) \/ i = Len(stack) + 1
      BY <1>1, <2>1, NewAndAcquireFacts
    <2>3. OpenBlocks'
      BY <2>1, TryFacts DEF IInv, OpenBlocks
    <2>4. stack'[1] = defaultCtx /\ stack' # << >> /\ Len(stack') > 1
      BY <1>1, <2>2
    <2>5. Quiet'
      <3>1. QueryContexts' = {}
        BY <1>1, <2>2, Names DEF Quiet, QueryContexts
      <3>2. ASSUME NEW i \in 2 .. Len(stack') PROVE ctxName[stack'[i]] = ProcessName
        <4>1. (i \in 2 .. Len(stack) /\ i \in 1 .. Len(stack)) \/ i = Len(stack) + 1
          BY <1>1, <2>2
        <4> QED
          BY <1>1, <2>2, <4>1 DEF Quiet
      <3> QED
        BY <3>1, <3>2 DEF Quiet
    <2> QED
      BY <1>1, <2>1, <2>2, <2>3, <2>4, <2>5, Names, ShowIInv
  <1>3. CASE processInput
    <2>1. /\ pc = "processInput" /\ pc' = "pipeline" /\ UNCHANGED << unhandled, released >>
          /\ TRY("processInput") /\ NewAndAcquire(QueryName) /\ base' = Len(stack')
      BY <1>3 DEF processInput
    <2>2. PICK c \in Ctx \ live :
             /\ ctxName[c] = QueryName /\ live' = live \union {c}
             /\ Sound(stack', live') /\ Len(stack') = Len(stack) + 1
             /\ \A i \in 1 .. Len(stack) : stack'[i] = stack[i]
             /\ stack'[Len(stack) + 1] = c
      BY <1>1, <2>1, NewAndAcquireFacts
    <2>3. OpenBlocks'
      <3>1. /\ frames = << [fn |-> "process", save |-> 0] >> /\ exceptionBuf = 1
        BY <2>1 DEF IInv, OpenBlocks
      <3>2. /\ frames' = << [fn |-> "process", save |-> 0],
                            [fn |-> "processInput", save |-> 1] >>
            /\ exceptionBuf' = 2
        BY <2>1, <3>1, TryFacts
      <3> QED
        BY <2>1, <3>2 DEF OpenBlocks
    <2>4. /\ stack'[1] = defaultCtx /\ stack' # << >> /\ base' = Len(stack) + 1
          /\ base' \in 1 .. Len(stack')
      BY <1>1, <2>1, <2>2
    <2>5. PipeInv' /\ Unwound' = stack'
      BY <1>1, <2>1, <2>2, <2>4, PipelineEntered
    <2>6. InQuery'
      <3>1. QueryContexts' = {c}
        BY <1>1, <2>2, Names DEF Quiet, QueryContexts
      <3>2. ASSUME NEW i \in 2 .. base' - 1 PROVE ctxName[stack'[i]] = ProcessName
        BY <1>1, <2>2, <2>4 DEF Quiet
      <3> QED
        BY <2>2, <2>4, <2>5, <3>1, <3>2 DEF InQuery
    <2> QED
      BY <1>1, <2>1, <2>2, <2>3, <2>4, <2>5, <2>6, Names, ShowIInv
  <1>4. CASE backendCommand
    <2>1. /\ pc = "prompt" /\ pc' = "backend" /\ UNCHANGED << unhandled, released >>
          /\ TRY("backend") /\ NewAndAcquire(ProcessName) /\ base' = Len(stack')
      BY <1>4 DEF backendCommand
    <2>2. PICK c \in Ctx \ live :
             /\ ctxName[c] = ProcessName /\ live' = live \union {c}
             /\ Sound(stack', live') /\ Len(stack') = Len(stack) + 1
             /\ \A i \in 1 .. Len(stack) : stack'[i] = stack[i]
             /\ stack'[Len(stack) + 1] = c
      BY <1>1, <2>1, NewAndAcquireFacts
    <2>3. OpenBlocks'
      BY <2>1, TryFacts DEF IInv, OpenBlocks
    <2>4. /\ stack'[1] = defaultCtx /\ stack' # << >> /\ base' = Len(stack) + 1
          /\ base' \in 1 .. Len(stack')
      BY <1>1, <2>1, <2>2
    <2>5. PipeInv' /\ Unwound' = stack'
      BY <1>1, <2>1, <2>2, <2>4, PipelineEntered
    <2>6. InBackend'
      <3>1. QueryContexts' = {}
        BY <1>1, <2>2, Names DEF Quiet, QueryContexts
      <3>2. ASSUME NEW i \in 2 .. base' PROVE ctxName[stack'[i]] = ProcessName
        <4>1. (i \in 2 .. Len(stack) /\ i \in 1 .. Len(stack)) \/ i = Len(stack) + 1
          BY <1>1, <2>4
        <4> QED
          BY <1>1, <2>2, <4>1 DEF Quiet
      <3> QED
        BY <2>5, <3>1, <3>2 DEF InBackend
    <2> QED
      BY <1>1, <2>1, <2>2, <2>3, <2>4, <2>5, <2>6, Names, ShowIInv
  <1> QED
    BY <1>2, <1>3, <1>4

LEMMA PipelineIInv ==
    ASSUME IInv, PipelineNext, pc \in Stages
    PROVE  IInv'
  <1>1. /\ pc \in {"pipeline", "backend"} /\ PipeInv /\ unhandled = 0
        /\ Sound(stack, live) /\ base \in Nat /\ base >= 1
    BY SessionFacts, Names DEF IInv, Running, PipeInv, PipeInvOf
  <1>2. CASE enterStage \/ leaveStage \/ visitDown \/ visitUp
    <2>1. /\ PipeInv'
          /\ UNCHANGED << frames, exceptionBuf, unhandled, base, pc >>
          /\ \A i \in 1 .. base : Unwound'[i] = Unwound[i]
          /\ \A c : ctxName[c] # StageName => (c \in live' <=> c \in live)
      BY <1>1, <1>2, PipelineSteps
    <2>2. Sound(stack', live') /\ stack' # << >> /\ stack'[1] = defaultCtx
      BY <2>1, PipelineStack
    <2>3. OpenBlocks'
      BY <1>1, <2>1 DEF IInv, OpenBlocks
    <2>4. QueryContexts' = QueryContexts
      BY <2>1, Names DEF QueryContexts
    <2>5. pc = "pipeline" => InQuery'
      <3> SUFFICES ASSUME pc = "pipeline" PROVE InQuery'
        OBVIOUS
      <3>1. InQuery
        BY DEF IInv
      <3>2. base \in 1 .. base /\ \A i \in 2 .. base - 1 : i \in 1 .. base
        BY <1>1
      <3> QED
        BY <2>1, <2>4, <3>1, <3>2 DEF InQuery
    <2>6. pc = "backend" => InBackend'
      <3> SUFFICES ASSUME pc = "backend" PROVE InBackend'
        OBVIOUS
      <3>1. InBackend
        BY DEF IInv
      <3>2. \A i \in 2 .. base : i \in 1 .. base
        BY <1>1
      <3> QED
        BY <2>1, <2>4, <3>1, <3>2 DEF InBackend
    <2> QED
      BY <1>1, <2>1, <2>2, <2>3, <2>5, <2>6, Names, ShowIInv
  <1>3. ASSUME NEW s, fail(s) \/ copyFails(s)
        PROVE  IInv'
    <2>1. /\ Throwing(s) /\ live' = live /\ released' = << >>
          /\ Sound(stack', live') /\ stack' # << >> /\ stack'[1] = defaultCtx
          /\ \A i \in 1 .. Len(stack') :
                \/ StageContext(stack'[i])
                \/ i \in 1 .. base /\ \A j \in 1 .. i : stack'[j] = Unwound[j]
      BY <1>1, <1>3, PipelineFails
    <2>2. Len(stack') \in Nat
      BY <2>1 DEF Sound, Stacks
    <2>3. QueryContexts' = QueryContexts
      BY <2>1 DEF QueryContexts
    <2>4. Cut'
      <3> SUFFICES ASSUME NEW i \in Named(stack', QueryName)
                   PROVE  /\ \A j \in 2 .. i - 1 : ctxName[stack'[j]] = ProcessName
                          /\ QueryContexts = {stack'[i]}
        BY <2>3 DEF Cut
      <3>1. i \in 1 .. Len(stack') /\ ctxName[stack'[i]] = QueryName
        BY DEF Named
      <3>2. i \in 1 .. base /\ \A j \in 1 .. i : stack'[j] = Unwound[j]
        BY <2>1, <3>1, Names
      <3>3. i \in 1 .. i /\ \A j \in 2 .. i - 1 : j \in 1 .. i
        BY <3>2
      <3>4. ctxName[Unwound[i]] = QueryName /\ stack'[i] = Unwound[i]
        BY <3>1, <3>2, <3>3
      <3>5. ctxName[Unwound[1]] # QueryName
        BY Names, <1>1 DEF PipeInv, PipeInvOf
      <3>6. i # 1
        BY <3>4, <3>5
      <3>7. CASE pc = "pipeline"
        <4>1. InQuery
          BY <3>7 DEF IInv
        <4>2. i = base
          <5>1. i \notin 2 .. base - 1
            BY <3>4, <4>1, Names DEF InQuery
          <5> QED
            BY <1>1, <3>2, <3>6, <5>1
        <4>3. \A j \in 2 .. i - 1 : ctxName[Unwound[j]] = ProcessName
          BY <4>1, <4>2 DEF InQuery
        <4> QED
          BY <3>2, <3>3, <3>4, <4>1, <4>2, <4>3 DEF InQuery
      <3>8. CASE pc = "backend"
        <4>1. InBackend
          BY <3>8 DEF IInv
        <4>2. i \in 2 .. base
          BY <1>1, <3>2, <3>6
        <4> QED
          BY <3>4, <4>1, <4>2, Names DEF InBackend
      <3> QED
        BY <1>1, <3>7, <3>8
    <2> QED
      BY <1>1, <2>1, <2>4, ThrownIInv
  <1> QED
    BY <1>2, <1>3 DEF PipelineNext

\* FREE_AND_RELEASE_CUR_MEM_CONTEXT with contexts of process on the stack.
LEMMA QuietPop ==
    ASSUME Sound(stack, live), Len(stack) >= 1, stack[1] = defaultCtx, FreeAndRelease,
           \A i \in 2 .. Len(stack) - 1 : ctxName[stack[i]] = ProcessName,
           \/ Quiet
           \/ Len(stack) > 1 /\ QueryContexts = {stack[Len(stack)]}
    PROVE  /\ Sound(stack', live') /\ Quiet'
           /\ stack' # << >> /\ stack'[1] = defaultCtx
  <1>1. /\ Sound(stack', live') /\ Len(stack') >= 1 /\ Len(stack') \in Nat
        /\ Len(stack) > 1 => Len(stack') = Len(stack) - 1
                            /\ live' = live \ {stack[Len(stack)]}
        /\ ~ (Len(stack) > 1) => stack' = stack /\ live' = live
        /\ live' \subseteq live
        /\ \A i \in 1 .. Len(stack') : stack'[i] = stack[i] /\ i \in 1 .. Len(stack)
    BY FreeAndReleaseFacts
  <1>2. Len(stack) \in Nat
    BY DEF Sound, Stacks
  <1>3. QueryContexts' = {}
    BY <1>1 DEF Quiet, QueryContexts
  <1>4. ASSUME NEW i \in 2 .. Len(stack')
        PROVE  ctxName[stack'[i]] = ProcessName
    <2>1. Len(stack) > 1 /\ i \in 2 .. Len(stack) - 1 /\ i \in 1 .. Len(stack')
      BY <1>1, <1>2, <1>4
    <2> QED
      BY <1>1, <2>1
  <1>5. stack' # << >> /\ stack'[1] = stack[1]
    BY <1>1
  <1> QED
    BY <1>1, <1>3, <1>4, <1>5 DEF Quiet

\* The contexts are given back in the reverse order.
LEMMA LeaveIInv ==
    ASSUME IInv, processInputEnds \/ processEnds \/ backendCommandEnds \/ backendRelease
    PROVE  IInv'
  <1>1. /\ pc \in {"pipeline", "processEnd", "backend", "backendEnd"}
        /\ Sound(stack, live) /\ stack[1] = defaultCtx /\ Len(stack) >= 1
        /\ Len(stack) \in Nat /\ unhandled = 0 /\ stack # << >>
    BY SessionFacts
       DEF Running, processInputEnds, processEnds, backendCommandEnds, backendRelease
  <1>2. CASE processInputEnds
    <2>1. /\ pc = "pipeline" /\ pc' = "processEnd" /\ PipelineDone /\ FreeAndRelease
          /\ END_TRY /\ UNCHANGED << unhandled, released >>
      BY <1>2 DEF processInputEnds
    <2>2. /\ PipeInv /\ InQuery
          /\ frames = << [fn |-> "process", save |-> 0],
                         [fn |-> "processInput", save |-> 1] >>
      BY <2>1 DEF IInv, OpenBlocks
    <2>3. Unwound = stack /\ released = << >> /\ Len(stack) = base
      BY <2>1, <2>2, PipelineLeft
    <2>4. /\ QueryContexts = {stack[Len(stack)]} /\ ctxName[stack[Len(stack)]] = QueryName
          /\ \A i \in 2 .. Len(stack) - 1 : ctxName[stack[i]] = ProcessName
      BY <2>2, <2>3 DEF InQuery
    <2>5. Len(stack) > 1
      BY <1>1, <2>4, Names
    <2>6. /\ Sound(stack', live') /\ Quiet' /\ stack' # << >> /\ stack'[1] = defaultCtx
      BY <1>1, <2>1, <2>4, <2>5, QuietPop
    <2>7. frames' = << [fn |-> "process", save |-> 0] >> /\ exceptionBuf' = 1
      BY <2>1, <2>2, EndTryFacts
    <2>8. OpenBlocks'
      BY <2>1, <2>7 DEF OpenBlocks
    <2> QED
      BY <1>1, <2>1, <2>3, <2>6, <2>8, Names, ShowIInv
  <1>3. CASE processEnds
    <2>1. /\ pc = "processEnd" /\ pc' \in {"prompt", "shutdown"} /\ FreeAndRelease
          /\ END_TRY /\ UNCHANGED << unhandled, released >>
      BY <1>3 DEF processEnds, AfterProcess
    <2>2. /\ Quiet /\ released = << >> /\ frames = << [fn |-> "process", save |-> 0] >>
      BY <2>1, Names DEF IInv, OpenBlocks, Running
    <2>3. \A i \in 2 .. Len(stack) - 1 : ctxName[stack[i]] = ProcessName
      BY <1>1, <2>2 DEF Quiet
    <2>4. /\ Sound(stack', live') /\ Quiet' /\ stack' # << >> /\ stack'[1] = defaultCtx
      BY <1>1, <2>1, <2>2, <2>3, QuietPop
    <2>5. frames' = << >> /\ exceptionBuf' = 0
      BY <2>1, <2>2, EndTryFacts
    <2>6. OpenBlocks'
      BY <2>1, <2>5 DEF OpenBlocks
    <2> QED
      BY <1>1, <2>1, <2>2, <2>4, <2>6, Names, ShowIInv
  <1>4. CASE backendCommandEnds
    <2>1. /\ pc = "backend" /\ pc' = "backendEnd" /\ PipelineDone /\ END_TRY
          /\ UNCHANGED << stack, live, unhandled, released, base >>
      BY <1>4 DEF backendCommandEnds
    <2>2. /\ PipeInv /\ InBackend /\ frames = << [fn |-> "backend", save |-> 0] >>
      BY <2>1 DEF IInv, OpenBlocks
    <2>3. Unwound = stack /\ released = << >> /\ Len(stack) = base
      BY <2>1, <2>2, PipelineLeft
    <2>4. Quiet
      BY <2>2, <2>3 DEF InBackend, Quiet
    <2>5. Quiet' /\ Sound(stack', live')
      BY <1>1, <2>1, <2>4 DEF Quiet, QueryContexts
    <2>6. frames' = << >> /\ exceptionBuf' = 0
      BY <2>1, <2>2, EndTryFacts
    <2>7. OpenBlocks'
      BY <2>1, <2>6 DEF OpenBlocks
    <2> QED
      BY <1>1, <2>1, <2>3, <2>5, <2>7, Names, ShowIInv
  <1>5. CASE backendRelease
    <2>1. /\ pc = "backendEnd" /\ pc' = "prompt" /\ FreeAndRelease
          /\ UNCHANGED << frames, exceptionBuf, unhandled, released >>
      BY <1>5 DEF backendRelease
    <2>2. Quiet /\ released = << >> /\ frames = << >> /\ exceptionBuf = 0
      BY <2>1, Names DEF IInv, OpenBlocks, Running
    <2>3. \A i \in 2 .. Len(stack) - 1 : ctxName[stack[i]] = ProcessName
      BY <1>1, <2>2 DEF Quiet
    <2>4. /\ Sound(stack', live') /\ Quiet' /\ stack' # << >> /\ stack'[1] = defaultCtx
      BY <1>1, <2>1, <2>2, <2>3, QuietPop
    <2>5. OpenBlocks'
      BY <2>1, <2>2 DEF OpenBlocks
    <2> QED
      BY <1>1, <2>1, <2>2, <2>4, <2>5, Names, ShowIInv
  <1> QED
    BY <1>2, <1>3, <1>4, <1>5

\* The two blocks that may be waiting for an exception.
LEMMA CatchFacts ==
    ASSUME IInv, pc = "catch"
    PROVE  \/ /\ frames = << [fn |-> "process", save |-> 0],
                             [fn |-> "processInput", save |-> 1] >>
              /\ exceptionBuf = 1 /\ CurFrame.fn = "processInput"
           \/ \E fn \in {"readConf", "process", "backend"} :
                 /\ frames = << [fn |-> fn, save |-> 0] >> /\ exceptionBuf = 0
                 /\ CurFrame.fn = fn
  <1> DEFINE one(fn) == << [fn |-> fn, save |-> 0] >>
             a == [fn |-> "process", save |-> 0]
             b == [fn |-> "processInput", save |-> 1]
  <1>1. \/ frames = << a, b >> /\ exceptionBuf = 1
        \/ \E fn \in {"readConf", "process", "backend"} :
              frames = one(fn) /\ exceptionBuf = 0
    BY DEF IInv, OpenBlocks
  <1>2. CASE frames = << a, b >> /\ exceptionBuf = 1
    <2>1. CurFrame = b /\ b.fn = "processInput"
      BY <1>2, FrameFacts DEF CurFrame
    <2> QED
      BY <1>2, <2>1
  <1>3. ASSUME NEW fn \in {"readConf", "process", "backend"}, frames = one(fn)
        PROVE  CurFrame.fn = fn
    BY <1>3, FrameFacts DEF CurFrame
  <1> QED
    BY <1>1, <1>2, <1>3

\* The callback lets the program go on only where the context of the query is
\* on the stack, and the wipe leaves what was below it.
LEMMA HandledFacts ==
    ASSUME IInv, pc = "catch", NEW answer \in {"ABORT", "DIE"}, NEW next,
           processException(answer, next)
    PROVE  \/ pc' = "exited"
           \/ /\ pc' = next /\ END_TRY /\ unhandled' = 0
              /\ Sound(stack', live') /\ stack' # << >> /\ stack'[1] = defaultCtx
              /\ Quiet'
  <1>1. /\ Sound(stack, live) /\ stack[1] = defaultCtx /\ Len(stack) >= 1
        /\ Len(stack) \in Nat /\ unhandled = 1 /\ defaultCtx \in live
        /\ 1 \in 1 .. Len(stack)
    BY SessionFacts DEF Running
  <1> SUFFICES ASSUME ~ Dies(answer)
               PROVE  /\ pc' = next /\ END_TRY /\ unhandled' = 0
                      /\ Sound(stack', live') /\ stack' # << >>
                      /\ stack'[1] = defaultCtx /\ Quiet'
    BY DEF processException
  <1>2. /\ pc' = next /\ END_TRY /\ unhandled' = 0
        /\ stack' = Wipe(stack, QueryName)
        /\ live' = live \ WipeFrees(stack, QueryName)
        /\ Named(stack, QueryName) # {}
    BY <1>1, Names DEF processException, Dies
  <1>3. PICK p : p \in Named(stack, QueryName)
    BY <1>2
  <1>4. p \in 1 .. Len(stack) /\ ctxName[stack[p]] = QueryName /\ p > 1
    BY <1>1, <1>3, Names DEF Named
  <1>5. /\ \A j \in 2 .. p - 1 : ctxName[stack[j]] = ProcessName
        /\ QueryContexts = {stack[p]}
    BY <1>3 DEF IInv, Cut
  <1>6. \A i \in Named(stack, QueryName) : i = p
    <2> SUFFICES ASSUME NEW i \in Named(stack, QueryName) PROVE i = p
      OBVIOUS
    <2>1. i \in 1 .. Len(stack) /\ QueryContexts = {stack[i]}
      BY DEF IInv, Cut, Named
    <2> QED
      BY <1>1, <1>4, <1>5, <2>1 DEF Sound, Injective
  <1>7. /\ Len(stack') = p - 1
        /\ \A i \in 1 .. p - 1 : stack'[i] = stack[i]
        /\ Sound(stack', live')
        /\ stack[p] \in WipeFrees(stack, QueryName) \/ stack[p] \in LongLived
    BY <1>1, <1>2, <1>3, <1>4, <1>6, WipeFacts
  <1>8. stack' # << >> /\ stack'[1] = defaultCtx
    BY <1>1, <1>4, <1>7
  <1>9. QueryContexts' = {}
    BY <1>2, <1>4, <1>5, <1>7, Names DEF QueryContexts
  <1>10. Quiet'
    BY <1>4, <1>5, <1>7, <1>9 DEF Quiet
  <1> QED
    BY <1>2, <1>7, <1>8, <1>10

LEMMA CatchIInv == ASSUME IInv, Catch PROVE IInv'
  <1>1. /\ pc = "catch" /\ Sound(stack, live) /\ stack[1] = defaultCtx /\ stack # << >>
        /\ unhandled = 1 /\ released = << >> /\ Cut
    BY SessionFacts, Names
       DEF IInv, Running, Catch, catchProcessInput, catchProcess, catchBackend,
           catchReadConf
  <1>2. CASE catchProcessInput
    <2>1. RETHROW /\ released' = released /\ CurFrame.fn = "processInput"
      BY <1>2 DEF catchProcessInput
    <2>2. /\ frames = << [fn |-> "process", save |-> 0],
                         [fn |-> "processInput", save |-> 1] >>
          /\ exceptionBuf = 1
      BY <1>1, <2>1, CatchFacts
    <2>3. /\ frames' = << [fn |-> "process", save |-> 0] >> /\ exceptionBuf' = 0
          /\ pc' = "catch" /\ UNCHANGED << stack, live, unhandled >>
      BY <2>1, <2>2, RethrowFacts
    <2>4. OpenBlocks'
      BY <2>3 DEF OpenBlocks
    <2>5. Cut' /\ Sound(stack', live')
      BY <1>1, <2>3 DEF Cut, Named, QueryContexts
    <2> QED
      BY <1>1, <2>1, <2>3, <2>4, <2>5, Names, ShowIInv
  <1>3. CASE catchProcess \/ catchBackend \/ catchReadConf
    <2>1. PICK next \in {"prompt", "shutdown", "backendEnd", "exited"} :
             /\ processException(handleCLIException, next)
             /\ CurFrame.fn # "processInput" /\ released' = released
      BY <1>3 DEF catchProcess, catchBackend, catchReadConf, AfterProcess
    <2>2. handleCLIException \in {"ABORT", "DIE"}
      BY DEF handleCLIException
    <2>3. \/ pc' = "exited"
          \/ /\ pc' = next /\ END_TRY /\ unhandled' = 0
             /\ Sound(stack', live') /\ stack' # << >> /\ stack'[1] = defaultCtx
             /\ Quiet'
      <3> PICK answer : answer = handleCLIException
        OBVIOUS
      <3> QED
        BY <1>1, <2>1, <2>2, HandledFacts
    <2>4. CASE pc' = "exited"
      BY <2>4, ExitedIInv
    <2>5. CASE pc' # "exited"
      <3>1. PICK fn : frames = << [fn |-> fn, save |-> 0] >>
        BY <1>1, <2>1, CatchFacts
      <3>2. frames' = << >> /\ exceptionBuf' = 0
        BY <2>3, <2>5, <3>1, EndTryFacts
      <3>3. pc' \in {"prompt", "shutdown", "backendEnd"}
        BY <2>3, <2>5
      <3>4. OpenBlocks'
        BY <3>2, <3>3 DEF OpenBlocks
      <3> QED
        BY <1>1, <2>1, <2>3, <2>5, <3>3, <3>4, Names, ShowIInv
    <2> QED
      BY <2>4, <2>5
  <1> QED
    BY <1>2, <1>3 DEF Catch

LEMMA NextIInv == IInv /\ [Next]_vars => IInv'
  <1> SUFFICES ASSUME IInv, [Next]_vars PROVE IInv'
    OBVIOUS
  <1>1. CASE UNCHANGED vars
    BY <1>1, UnchangedIInv
  <1>2. CASE readConf \/ readConfFails \/ readConfEnds \/ setupPlugins
    BY <1>2, ReadConfIInv
  <1>3. CASE process \/ processInput \/ backendCommand
    BY <1>3, EnterIInv
  <1>4. CASE PipelineNext
    <2>1. pc \in Stages
      BY <1>4 DEF PipelineNext, enterStage, leaveStage, visitDown, visitUp, fail, copyFails
    <2> QED
      BY <1>4, <2>1, PipelineIInv
  <1>5. CASE processInputEnds \/ processEnds \/ backendCommandEnds \/ backendRelease
    BY <1>5, LeaveIInv
  <1>6. CASE utilityFails
    <2>1. pc = "prompt" /\ Throwing("RECOVERABLE")
      BY <1>6 DEF utilityFails, THROW
    <2>2. frames = << >> /\ exceptionBuf = 0
      BY <2>1 DEF IInv, OpenBlocks
    <2> QED
      BY <2>1, <2>2, ThrowingFacts, ExitedIInv
  <1>7. CASE quit \/ shutdownApplication
    BY <1>7, ExitedIInv DEF quit, shutdownApplication
  <1>8. CASE Catch
    BY <1>8, CatchIInv
  <1> QED
    BY <1>1, <1>2, <1>3, <1>4, <1>5, <1>6, <1>7, <1>8 DEF Next

LEMMA IInvHolds == Spec => []IInv
  <1> QED
    BY InitIInv, NextIInv, PTL DEF Spec

\* A THROW anywhere in a session jumps to the innermost TRY block that is still
\* open, as exception.h promises, and never to one that has returned.
THEOREM HandlersNest == Spec => []HandlerChain
  <1>1. IInv => HandlerChain
    <2> SUFFICES ASSUME IInv PROVE HandlerChain
      OBVIOUS
    <2> DEFINE a == [fn |-> "process", save |-> 0]
               b == [fn |-> "processInput", save |-> 1]
               one(fn) == << [fn |-> fn, save |-> 0] >>
    <2>1. OpenBlocks
      BY DEF IInv
    <2>2. CASE frames = << >> /\ exceptionBuf = 0 /\ pc # "catch"
      BY <2>1, <2>2, FrameFacts DEF OpenBlocks, HandlerChain, Chained
    <2>3. ASSUME NEW fn, frames = one(fn), exceptionBuf = IF pc = "catch" THEN 0 ELSE 1
          PROVE  HandlerChain
      <3>1. Len(frames) = 1 /\ frames[1].save = 1 - 1 /\ \A i \in 1 .. 1 : i = 1
        BY <2>3, FrameFacts
      <3> QED
        BY <2>1, <2>3, <3>1 DEF OpenBlocks, HandlerChain, Chained
    <2>4. ASSUME frames = << a, b >>, exceptionBuf = IF pc = "catch" THEN 1 ELSE 2
          PROVE  HandlerChain
      <3>1. /\ Len(frames) = 2 /\ frames[1].save = 1 - 1 /\ frames[2].save = 2 - 1
            /\ \A i \in 1 .. 2 : i = 1 \/ i = 2
        BY <2>4, FrameFacts
      <3> QED
        BY <2>1, <2>4, <3>1 DEF OpenBlocks, HandlerChain, Chained
    <2>5. CASE pc = "exited"
      BY <2>5 DEF HandlerChain, Running
    <2> QED
      BY <2>1, <2>2, <2>3, <2>4, <2>5 DEF OpenBlocks
  <1> QED
    BY <1>1, IInvHolds, PTL

\* However a session goes, an exception is given to the callback once, by the
\* handler that ends it, before anything else is done.
THEOREM ExceptionsAreHandledOnce == Spec => []HandledOnce
  <1>1. IInv => HandledOnce
    BY DEF IInv
  <1> QED
    BY <1>1, IInvHolds, PTL

\* No exception leaves a freed context, or one twice, on the stack, and none
\* takes the default context off it.
THEOREM StackStaysSound == Spec => []StackSound
  <1>1. IInv => StackSound
    BY DEF IInv
  <1> QED
    BY <1>1, IInvHolds, PTL

\* Whatever a query did to the stack and wherever it failed, none of its
\* contexts is there when the user gets the prompt back.
THEOREM PromptComesBackClean == Spec => []PromptIsClean
  <1>1. IInv => PromptIsClean
    <2> SUFFICES ASSUME IInv, pc = "prompt" PROVE PromptIsClean
      BY DEF PromptIsClean
    <2>1. /\ Len(stack) \in Nat /\ stack[1] = defaultCtx /\ Quiet /\ released = << >>
      BY SessionFacts, Names DEF IInv, Running
    <2>2. ASSUME NEW c \in OnStack(stack)
          PROVE  ctxName[c] \in {ctxName[defaultCtx], ProcessName}
      <3>1. PICK i \in 1 .. Len(stack) : c = stack[i]
        BY <2>2 DEF OnStack
      <3>2. i = 1 \/ i \in 2 .. Len(stack)
        BY <2>1
      <3> QED
        BY <2>1, <3>1, <3>2 DEF Quiet
    <2>3. \A c \in live : ctxName[c] # QueryName
      BY <2>1 DEF Quiet, QueryContexts
    <2> QED
      BY <2>1, <2>2, <2>3 DEF PromptIsClean
  <1> QED
    BY <1>1, IInvHolds, PTL
=============================================================================
