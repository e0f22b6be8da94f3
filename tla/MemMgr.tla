------------------------------- MODULE MemMgr -------------------------------
(***************************************************************************)
(* The memory manager of src/src/mem_manager/mem_mgr.c: its static         *)
(* variables and one action per function of its interface.                 *)
(*                                                                         *)
(* The callers are the environment.  They keep to the rules that           *)
(* mem_mgr.h states and setCurMemContext checks for: a context is used     *)
(* only between its creation and its destruction, and a context that is    *)
(* already on the stack is not acquired again unless it is the current     *)
(* one (the nested metadata lookups do that).                              *)
(***************************************************************************)
EXTENDS MemStack

CONSTANT defaultCtx   \* the context initMemManager creates

ASSUME DefaultAssumption == defaultCtx \in Ctx /\ defaultCtx \notin LongLived

VARIABLES
    initialized,
    destroyed,
    exited,            \* the process called exit(1)
    stack,             \* the list starting at topContextNode
    curMemContext,
    contextStackSize,
    created,           \* contexts returned by newMemContext so far
    freed              \* contexts passed to internalFreeMemContext so far

vars == << initialized, destroyed, exited, stack, curMemContext,
           contextStackSize, created, freed >>

TypeOK ==
    /\ initialized \in BOOLEAN
    /\ destroyed \in BOOLEAN
    /\ exited \in BOOLEAN
    /\ stack \in Stacks
    /\ curMemContext \in Ctx \union {NULL}
    /\ contextStackSize \in Nat
    /\ created \subseteq Ctx
    /\ freed \subseteq created

Init ==
    /\ initialized = FALSE
    /\ destroyed = FALSE
    /\ exited = FALSE
    /\ stack = << >>
    /\ curMemContext = NULL
    /\ contextStackSize = 0
    /\ created = {}
    /\ freed = {}

memManagerUsable == initialized /\ ~destroyed

Live == created \ freed

\* setCurMemContext: the node, the counter and the current context change
\* only when something is pushed.
PushContext(mc) ==
    LET s == Acquire(stack, mc)
    IN  /\ stack' = s
        /\ IF s = stack
           THEN UNCHANGED << curMemContext, contextStackSize >>
           ELSE /\ curMemContext' = mc
                /\ contextStackSize' = contextStackSize + 1

\* The pops that leave the stack s, a prefix of the present one: each of them
\* decrements the counter and makes the new top the current context.
PopTo(s) ==
    /\ stack' = s
    /\ IF s = stack
       THEN UNCHANGED << curMemContext, contextStackSize >>
       ELSE /\ curMemContext' = Top(s)
            /\ contextStackSize' = contextStackSize - (Len(stack) - Len(s))

Exit ==
    /\ exited' = TRUE
    /\ UNCHANGED << initialized, destroyed, stack, curMemContext,
                    contextStackSize, created, freed >>

-----------------------------------------------------------------------------

initMemManager ==
    /\ ~exited
    /\ IF initialized \/ destroyed
       THEN Exit
       ELSE /\ created' = created \union {defaultCtx}
            /\ initialized' = TRUE
            /\ PushContext(defaultCtx)
            /\ UNCHANGED << destroyed, exited, freed >>

\* topContextNode is left pointing at the freed bottom node: the stack that
\* remains is that one node and nothing may look at it any more.
destroyMemManager ==
    /\ ~exited
    /\ IF ~initialized \/ destroyed
       THEN Exit
       ELSE /\ freed' = freed \union DestroyFrees(stack)
            /\ destroyed' = TRUE
            /\ PopTo(SubSeq(stack, 1, 1))
            /\ UNCHANGED << initialized, exited, created >>

newMemContext(c) ==
    /\ ~exited /\ memManagerUsable
    /\ c \notin created
    /\ created' = created \union {c}
    /\ UNCHANGED << initialized, destroyed, exited, stack, curMemContext,
                    contextStackSize, freed >>

setCurMemContext(mc) ==
    /\ ~exited /\ memManagerUsable
    /\ mc \in Live \union {NULL}
    /\ mc \notin BelowTop(stack)
    /\ PushContext(mc)
    /\ UNCHANGED << initialized, destroyed, exited, created, freed >>

releaseCurMemContext ==
    /\ ~exited /\ memManagerUsable
    /\ PopTo(Release(stack))
    /\ UNCHANGED << initialized, destroyed, exited, created, freed >>

\* FREE_AND_RELEASE_CUR_MEM_CONTEXT, the only form in which freeCurMemContext
\* is used outside the manager.
freeAndReleaseCurMemContext ==
    /\ ~exited /\ memManagerUsable
    /\ freed' = freed \union FreeCur(stack)
    /\ PopTo(Release(stack))
    /\ UNCHANGED << initialized, destroyed, exited, created >>

\* FREE_MEM_CONTEXT(mc), for a context that is not on the stack or current.
freeMemContext(mc) ==
    /\ ~exited /\ memManagerUsable
    /\ mc \in Live
    /\ mc \notin BelowTop(stack)
    /\ freed' = freed \union FreeMemContextFrees(stack, mc)
    /\ PopTo(FreeMemContext(stack, mc))
    /\ UNCHANGED << initialized, destroyed, exited, created >>

freeMemContextAndChildren(name) ==
    /\ ~exited /\ memManagerUsable
    /\ IF Named(stack, name) = {}
       THEN Exit
       ELSE /\ freed' = freed \union WipeFrees(stack, name)
            /\ PopTo(Wipe(stack, name))
            /\ UNCHANGED << initialized, destroyed, exited, created >>

\* malloc_ refuses to run outside the life of the manager; what it does to a
\* context is ChunkAlloc.
malloc_ ==
    /\ ~exited
    /\ ~memManagerUsable
    /\ Exit

Next ==
    \/ initMemManager
    \/ destroyMemManager
    \/ \E c \in Ctx : newMemContext(c)
    \/ \E mc \in Ctx \union {NULL} : setCurMemContext(mc)
    \/ releaseCurMemContext
    \/ freeAndReleaseCurMemContext
    \/ \E mc \in Ctx : freeMemContext(mc)
    \/ \E name \in Name : freeMemContextAndChildren(name)
    \/ malloc_

Spec == Init /\ [][Next]_vars

-----------------------------------------------------------------------------

\* The default context lies at the bottom of the stack from initMemManager
\* to destroyMemManager ("default context always lies on the bottom of the
\* stack", mem_mgr.c:110) and is not freed in between, whatever is released,
\* freed or wiped: releaseCurMemContext, freeCurMemContext and
\* freeMemContextAndChildren all stop at the last node.
DefaultAtBottom ==
    memManagerUsable =>
        /\ stack # << >>
        /\ stack[1] = defaultCtx
        /\ defaultCtx \notin freed

\* The three views of the stack agree: allocations go to the context the
\* last acquire or release left on top, and contextStackSize counts the nodes.
CurrentIsTop ==
    memManagerUsable =>
        /\ curMemContext = Top(stack)
        /\ contextStackSize = Len(stack)

\* No context on the stack has been freed, so neither an allocation in the
\* current context nor one after any number of releases touches a freed
\* MemContext, and no sequence of frees and wipes frees a context twice.
NoDanglingContext ==
    memManagerUsable => OnStack(stack) \subseteq Live

\* No context is on the stack twice, so that the number of releases that
\* bring the manager back to a context is well defined ("check that context
\* is not already on the stack which may lead to unrecoverable errors",
\* mem_mgr.c:179); the acquire of the current context must push nothing.
NoDuplicates ==
    memManagerUsable =>
        \A i, j \in 1 .. Len(stack) : stack[i] = stack[j] => i = j

\* The inductive invariant: the four invariants need each other (what a free
\* takes away is on the stack once) and the state before initMemManager.
IInv ==
    /\ TypeOK
    /\ ~initialized => stack = << >> /\ created = {} /\ ~destroyed
                          /\ contextStackSize = 0
    /\ DefaultAtBottom
    /\ CurrentIsTop
    /\ NoDanglingContext
    /\ NoDuplicates

\* A wipe (freeMemContextAndChildren) and a release never free a long-lived
\* context: it is freed when a caller does that to the current context, by
\* FREE_MEM_CONTEXT of that very context, or at the end of the manager.
LongLivedSurvivesWipe ==
    [][\A c \in (freed' \ freed) \intersect LongLived :
           \/ destroyMemManager
           \/ freeAndReleaseCurMemContext /\ c = curMemContext
           \/ freeMemContext(c)]_vars

\* One call of the interface never removes a node from the middle of the
\* stack: the old and the new stack agree on their common prefix.
StackDiscipline ==
    [][\A i \in 1 .. Len(stack) : i <= Len(stack') => stack'[i] = stack[i]]_vars
=============================================================================
