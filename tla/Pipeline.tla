------------------------------ MODULE Pipeline ------------------------------
(***************************************************************************)
(* What parsing, translating, rewriting, optimising, serialising and       *)
(* executing a query do to the stack of memory contexts, and where they    *)
(* throw.  Each stage (parser_oracle.c, translator.c, operator_optimizer.c,*)
(* sql_serializer.c, ...) works in a context of its own and frees it       *)
(* before it returns; metadata lookups push the long-lived context of the  *)
(* plugin; visitQOGraph releases one context per level of the operator     *)
(* graph and acquires it again on the way back.  Any of them may throw at  *)
(* any time: ASSERT and FATAL_LOG are THROWs.                              *)
(*                                                                         *)
(* The calls a stage makes are abstracted to the contexts they push.       *)
(***************************************************************************)
EXTENDS Exceptions

CONSTANTS
    QueryName,   \* QUERY_MEM_CONTEXT
    StageName,   \* the contexts of the stages
    Metadata,    \* the plugin's metadataLookupContext
    Stages,      \* the pc values at which the pipeline runs
    MaxDepth     \* bound: levels visitQOGraph goes down at once

ASSUME PipelineAssumption ==
    /\ {QueryName, StageName} \subseteq Name
    /\ QueryName # StageName
    /\ Metadata \in LongLived
    /\ \A c \in LongLived : ctxName[c] \notin {QueryName, StageName}
    /\ MaxDepth \in Nat

\* The contexts visitQOGraph has released on its way down (its ctxt locals),
\* each with the height of the stack its acquire belongs to.
VARIABLES
    released,
    base        \* the height of the stack when the pipeline was entered

pipeVars == << excVars, released, base >>

LastRelease == released[Len(released)]

\* The height of the stack the running call found: calls return in order, so
\* a call pops what it has pushed and nothing below.
Floor == IF released = << >> THEN base ELSE LastRelease.height

PipelineDone == released = << >> /\ Len(stack) = base

\* A command sent to the backend and a cost estimation only look up metadata;
\* the stages are those of the rewriting pipeline.
enterStage ==
    /\ pc \in Stages
    /\ \/ pc = "pipeline" /\ NewAndAcquire(StageName)
       \/ /\ Metadata \notin OnStack(stack) /\ Metadata \in live
          /\ stack' = Acquire(stack, Metadata)
          /\ UNCHANGED live
    /\ UNCHANGED << frames, exceptionBuf, severity, unhandled,
                    released, base, pc >>

leaveStage ==
    /\ pc \in Stages
    /\ Len(stack) > Floor
    /\ \/ ctxName[Top(stack)] = StageName /\ FreeAndRelease
       \/ Top(stack) = Metadata /\ stack' = Release(stack) /\ UNCHANGED live
    /\ UNCHANGED << frames, exceptionBuf, severity, unhandled,
                    released, base, pc >>

\* internalVisitQOGraph before the recursive call.  The bottom node is not
\* popped; releaseCurMemContext returns NULL for it.
visitDown ==
    /\ pc \in Stages
    /\ Len(released) < MaxDepth
    /\ IF released = << >>
       THEN Len(stack) > base /\ ctxName[Top(stack)] = StageName
       ELSE Len(stack) = Floor
    /\ stack' = Release(stack)
    /\ released' = Append(released,
            [mc |-> IF Len(stack) > 1 THEN Top(stack) ELSE NULL,
             height |-> Len(Release(stack))])
    /\ UNCHANGED << live, frames, exceptionBuf, severity,
                    unhandled, base, pc >>

\* ... and after it, whatever the visitor answered
visitUp ==
    /\ pc \in Stages
    /\ released # << >> /\ Len(stack) = Floor
    /\ stack' = Acquire(stack, LastRelease.mc)
    /\ released' = SubSeq(released, 1, Len(released) - 1)
    /\ UNCHANGED << live, frames, exceptionBuf, severity,
                    unhandled, base, pc >>

\* THROW, FATAL_LOG or a failed ASSERT.  The locals of the calls are lost.
fail(s) ==
    /\ pc \in Stages
    /\ THROW(s)
    /\ released' = << >>
    /\ UNCHANGED base

\* FREE_MEM_CONTEXT_AND_RETURN_COPY releases the context of the stage, copies
\* the result and asserts that the copy is equal before it frees the context: a
\* failure of the copy leaves the context allocated and off the stack.
copyFails(s) ==
    /\ pc \in Stages
    /\ Len(stack) > Floor /\ ctxName[Top(stack)] = StageName
    /\ stack' = Release(stack)
    /\ Throwing(s)
    /\ released' = << >>
    /\ UNCHANGED << live, base >>

PipelineNext ==
    \/ enterStage
    \/ leaveStage
    \/ visitDown
    \/ visitUp
    \/ \E s \in Thrown : fail(s) \/ copyFails(s)

-----------------------------------------------------------------------------
(***************************************************************************)
(* The invariant of a running pipeline, for the proofs of the programs     *)
(* that run it.  Graph visits dig below the height at which the pipeline   *)
(* was entered, so that it has to speak of the stack as it will be once    *)
(* they have returned.                                                     *)
(***************************************************************************)

Injective(s) == \A i, j \in 1 .. Len(s) : s[i] = s[j] => i = j

\* The stack once every graph visit under way has acquired its context again.
Unwound ==
    IF released = << >> THEN stack
    ELSE LET height == released[1].height + 1
         IN  [i \in 1 .. height |->
                 IF i <= LastRelease.height THEN stack[i]
                 ELSE released[height - i + 1].mc]

\* The visits have taken the contexts off the stack u, from its top, up to but
\* not including the one at the bottom.
Visits(u) ==
    IF released = << >> THEN u = stack
    ELSE /\ Len(u) > base
         /\ \A k \in 1 .. Len(released) :
                released[k] = IF k < Len(u)
                              THEN [mc |-> u[Len(u) - k + 1], height |-> Len(u) - k]
                              ELSE [mc |-> NULL, height |-> 1]
         /\ \A i \in 1 .. Floor : stack[i] = u[i]

StageContext(c) == ctxName[c] = StageName \/ c = Metadata

\* Both stacks are sound, only contexts of stages are above the height at which
\* the pipeline was entered, and what the visitor has pushed since the last
\* release is on top of what was left and will not be pushed a second time.
PipeInvOf(u) ==
    /\ released \in Seq([mc : Ctx \union {NULL}, height : Nat])
    /\ u \in Stacks /\ Injective(u) /\ OnStack(u) \subseteq live
    /\ stack \in Stacks /\ Injective(stack) /\ OnStack(stack) \subseteq live
    /\ base \in 1 .. Len(u)
    /\ u[1] = defaultCtx
    /\ Visits(u)
    /\ Floor \in 1 .. Len(stack)
    /\ \A i \in base + 1 .. Len(u) : StageContext(u[i])
    /\ \A i \in Floor + 1 .. Len(stack) :
          /\ StageContext(stack[i])
          /\ released # << >> /\ stack[i] # Metadata => stack[i] \notin OnStack(u)

PipeInv == PipeInvOf(Unwound)
=============================================================================
