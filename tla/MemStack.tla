------------------------------ MODULE MemStack ------------------------------
(***************************************************************************)
(* The stack of memory contexts kept by src/src/mem_manager/mem_mgr.c, as  *)
(* a data structure: what one call of the memory manager does to the list  *)
(* that starts at topContextNode and which contexts it hands to free().    *)
(*                                                                         *)
(* A stack is a sequence of contexts, its last element being the top.      *)
(* The state machine of the manager itself is MemMgr; Exceptions, Pipeline,*)
(* CommandLine, LibGProM and QOGraphVisitor use the same operators for the *)
(* calls their code makes.                                                 *)
(***************************************************************************)
EXTENDS Integers, Sequences

CONSTANTS
    Ctx,        \* every MemContext that may be created
    Name,       \* context names (the string given to newMemContext)
    ctxName,    \* MemContext.contextName, a function from Ctx to Name
    LongLived,  \* the contexts created by NEW_LONGLIVED_MEMCONTEXT
    NULL        \* the C null pointer

ASSUME CtxAssumption ==
    /\ ctxName \in [Ctx -> Name]
    /\ LongLived \subseteq Ctx
    /\ NULL \notin Ctx

Stacks == Seq(Ctx)

\* topContextNode->mc
Top(s) == s[Len(s)]

OnStack(s) == {s[i] : i \in 1 .. Len(s)}

BelowTop(s) == {s[i] : i \in 1 .. Len(s) - 1}

\* setCurMemContext: nothing is pushed for NULL or for the context that is
\* already the current one; a context found deeper on the stack is reported
\* in the log and pushed all the same.
Acquire(s, mc) ==
    IF mc = NULL \/ (s # << >> /\ mc = Top(s)) THEN s ELSE Append(s, mc)

\* releaseCurMemContext: the bottom node stays.
Release(s) == IF Len(s) > 1 THEN SubSeq(s, 1, Len(s) - 1) ELSE s

\* Mutant: the guard that keeps the bottom context is missing.
FreeCurUnguarded(s) == {Top(s)}

\* freeCurMemContext: what internalFreeMemContext is called on.  The node
\* stays on the stack until the next Release.
FreeCur(s) == IF Len(s) > 1 THEN {Top(s)} ELSE {}

\* freeMemContextAndChildren, first half: the nodes that carry the name.
\* The topmost one is what the search from topContextNode finds.
Named(s, name) == {i \in 1 .. Len(s) : ctxName[s[i]] = name}

TopmostNamed(s, name) ==
    CHOOSE i \in Named(s, name) : \A j \in Named(s, name) : j <= i

\* Mutant: the named node is unlinked and the ones above it stay.
WipeOnlyNamed(s, name) ==
    LET p == TopmostNamed(s, name)
    IN  IF p = 1 THEN s ELSE SubSeq(s, 1, p - 1) \o SubSeq(s, p + 1, Len(s))

\* Second half: pop until a context with that name has been popped.  The
\* bottom node cannot be popped, so the loop ends there as well.
Wipe(s, name) ==
    LET p == TopmostNamed(s, name)
    IN  SubSeq(s, 1, IF p = 1 THEN 1 ELSE p - 1)

\* Mutant: isLongLived is not looked at.
WipeFreesAll(s, name) ==
    {s[i] : i \in {j \in 2 .. Len(s) : j >= TopmostNamed(s, name)}}

\* Long-lived contexts are popped but not freed.
WipeFrees(s, name) ==
    {s[i] : i \in {j \in 2 .. Len(s) : j >= TopmostNamed(s, name)}} \ LongLived

\* destroyMemManager: every node above the bottom is freed and popped, then
\* the default context at the bottom is freed.
DestroyFrees(s) == OnStack(s)

\* Mutant: the release of FREE_MEM_CONTEXT is missing.
FreeWithoutRelease(s, mc) == Acquire(s, mc)

\* The pairs of macros of mem_mgr.h that several callers use.
\* FREE_MEM_CONTEXT(mc): acquire, free current, release.
FreeMemContext(s, mc) == Release(Acquire(s, mc))

FreeMemContextFrees(s, mc) == FreeCur(Acquire(s, mc))
=============================================================================
