---------------------------- MODULE MemMgrProofs ----------------------------
(***************************************************************************)
(* Proofs about mem_mgr.c: the stack of contexts (MemMgr), for every set   *)
(* of contexts and names, and the chunks of one context (ChunkAlloc), for  *)
(* every chunk size, every initial size of the arrays and every set of     *)
(* requests.                                                               *)
(***************************************************************************)
EXTENDS MemMgr, ChunkAlloc, WellFoundedInduction, TLAPS

\* What a push leaves on the stack (setCurMemContext).
LEMMA AcquireFacts ==
    ASSUME NEW s \in Stacks, NEW mc \in Ctx \union {NULL}
    PROVE  /\ Acquire(s, mc) \in Stacks
           /\ \/ Acquire(s, mc) = s
              \/ /\ mc \in Ctx
                 /\ s # << >> => mc # Top(s)
                 /\ Acquire(s, mc) # s
                 /\ Len(Acquire(s, mc)) = Len(s) + 1
                 /\ Acquire(s, mc)[Len(s) + 1] = mc
                 /\ \A i \in 1 .. Len(s) : Acquire(s, mc)[i] = s[i]
  <1>1. CASE mc = NULL \/ (s # << >> /\ mc = Top(s))
    BY <1>1 DEF Acquire
  <1>2. CASE ~(mc = NULL \/ (s # << >> /\ mc = Top(s)))
    <2>1. Acquire(s, mc) = Append(s, mc)
      BY <1>2 DEF Acquire
    <2>2. mc \in Ctx
      BY <1>2
    <2>3. /\ Append(s, mc) \in Seq(Ctx)
          /\ Len(Append(s, mc)) = Len(s) + 1
          /\ Append(s, mc)[Len(s) + 1] = mc
          /\ \A i \in 1 .. Len(s) : Append(s, mc)[i] = s[i]
          /\ Len(s) \in Nat
      BY <2>2 DEF Stacks
    <2>4. Append(s, mc) # s
      BY <2>3
    <2> QED
      BY <1>2, <2>1, <2>2, <2>3, <2>4 DEF Stacks
  <1> QED
    BY <1>1, <1>2

\* A prefix of a stack, which every pop leaves.
LEMMA PrefixFacts ==
    ASSUME NEW s \in Stacks, NEW n \in 0 .. Len(s)
    PROVE  /\ SubSeq(s, 1, n) \in Stacks
           /\ Len(SubSeq(s, 1, n)) = n
           /\ \A i \in 1 .. n : SubSeq(s, 1, n)[i] = s[i]
  BY DEF Stacks

\* r is what some pops leave of the non-empty stack s.
PrefixOf(r, s) ==
    /\ r \in Stacks
    /\ Len(r) \in 1 .. Len(s)
    /\ \A i \in 1 .. Len(r) : r[i] = s[i]

\* releaseCurMemContext pops one node unless it is the last one.
LEMMA ReleaseFacts ==
    ASSUME NEW s \in Stacks, s # << >>
    PROVE  /\ PrefixOf(Release(s), s)
           /\ Len(Release(s)) = IF Len(s) > 1 THEN Len(s) - 1 ELSE Len(s)
  <1>1. Len(s) \in Nat /\ Len(s) > 0
    BY DEF Stacks
  <1>2. CASE Len(s) > 1
    <2>1. Len(s) - 1 \in 0 .. Len(s)
      BY <1>1, <1>2
    <2>2. Release(s) = SubSeq(s, 1, Len(s) - 1)
      BY <1>2 DEF Release
    <2> QED
      BY <1>1, <1>2, <2>1, <2>2, PrefixFacts DEF PrefixOf
  <1>3. CASE ~(Len(s) > 1)
    BY <1>1, <1>3 DEF Release, PrefixOf
  <1> QED
    BY <1>2, <1>3

\* The macros that acquire and release again end where they started.
LEMMA PushThenRelease ==
    ASSUME NEW s \in Stacks, s # << >>, NEW mc \in Ctx
    PROVE  Release(Append(s, mc)) = s
  <1>1. /\ Append(s, mc) \in Stacks /\ Len(Append(s, mc)) = Len(s) + 1
        /\ Len(s) \in Nat /\ Len(s) > 0
        /\ \A i \in 1 .. Len(s) : Append(s, mc)[i] = s[i]
    BY DEF Stacks
  <1>2. Release(Append(s, mc)) = SubSeq(Append(s, mc), 1, Len(s))
    BY <1>1 DEF Release
  <1>3. /\ Release(Append(s, mc)) \in Stacks
        /\ Len(Release(Append(s, mc))) = Len(s)
        /\ \A i \in 1 .. Len(s) : Release(Append(s, mc))[i] = s[i]
    <2>1. Len(s) \in 0 .. Len(Append(s, mc))
      BY <1>1
    <2> HIDE DEF Stacks
    <2>2. /\ SubSeq(Append(s, mc), 1, Len(s)) \in Stacks
          /\ Len(SubSeq(Append(s, mc), 1, Len(s))) = Len(s)
          /\ \A i \in 1 .. Len(s) :
                SubSeq(Append(s, mc), 1, Len(s))[i] = Append(s, mc)[i]
      BY <1>1, <2>1, PrefixFacts
    <2> QED
      BY <1>1, <1>2, <2>2
  <1> QED
    BY <1>3 DEF Stacks

\* A non-empty set of positive numbers with an upper bound has a largest
\* member: the distance to the bound has a least one.
LEMMA LargestExists ==
    ASSUME NEW n \in Nat, NEW T \in SUBSET (1 .. n), T # {}
    PROVE  \E x \in T : \A y \in T : y <= x
  <1> DEFINE D == {n - i : i \in T}
  <1>1. D \subseteq Nat /\ D # {}
    <2>1. \A i \in T : n - i \in Nat
      OBVIOUS
    <2>2. PICK i \in T : TRUE
      OBVIOUS
    <2>3. n - i \in D
      OBVIOUS
    <2> QED
      BY <2>1, <2>3
  <1>2. IsWellFoundedOn(OpToRel(<, Nat), Nat)
    BY NatLessThanWellFounded
  <1>3. \E x \in D : \A y \in D : ~ (<<y, x>> \in OpToRel(<, Nat))
    <2> HIDE DEF D
    <2> QED
      BY <1>1, <1>2, WFMin
  <1>4. PICK x \in D : \A y \in D : ~ (<<y, x>> \in OpToRel(<, Nat))
    BY <1>3
  <1>5. \A y \in D : ~ (y < x)
    BY <1>1, <1>4 DEF OpToRel
  <1>6. PICK i \in T : x = n - i
    BY <1>4
  <1>7. ASSUME NEW j \in T PROVE j <= i
    <2>1. ~ (n - j < n - i)
      BY <1>5, <1>6
    <2>2. n \in Int /\ i \in Int /\ j \in Int
      OBVIOUS
    <2> QED
      BY ONLY <2>1, <2>2
  <1> QED
    BY <1>6, <1>7

\* The search of freeMemContextAndChildren, when it succeeds, finds the
\* topmost node with the name.
LEMMA TopmostNamedFacts ==
    ASSUME NEW s \in Stacks, NEW name, Named(s, name) # {}
    PROVE  /\ TopmostNamed(s, name) \in 1 .. Len(s)
           /\ ctxName[s[TopmostNamed(s, name)]] = name
           /\ \A j \in Named(s, name) : j <= TopmostNamed(s, name)
  <1>1. Len(s) \in Nat /\ Named(s, name) \in SUBSET (1 .. Len(s))
    BY DEF Stacks, Named
  <1>2. \E i \in Named(s, name) : \A j \in Named(s, name) : j <= i
    BY <1>1, LargestExists
  <1>3. TopmostNamed(s, name) \in Named(s, name)
        /\ \A j \in Named(s, name) : j <= TopmostNamed(s, name)
    BY <1>2 DEF TopmostNamed
  <1> QED
    BY <1>1, <1>3 DEF Named

\* The loop of freeMemContextAndChildren pops everything from the topmost
\* node with the name upwards, and frees nothing it does not pop.
LEMMA WipeFacts ==
    ASSUME NEW s \in Stacks, NEW name, Named(s, name) # {}
    PROVE  /\ PrefixOf(Wipe(s, name), s)
           /\ WipeFrees(s, name) \subseteq
                 {s[i] : i \in (Len(Wipe(s, name)) + 1) .. Len(s)}
  <1> DEFINE p == TopmostNamed(s, name)
             n == IF p = 1 THEN 1 ELSE p - 1
  <1>1. Len(s) \in Nat /\ p \in 1 .. Len(s)
    BY TopmostNamedFacts DEF Stacks
  <1>2. n \in 1 .. Len(s) /\ n \in 0 .. Len(s)
    BY <1>1
  <1>3. Wipe(s, name) = SubSeq(s, 1, n)
    BY DEF Wipe
  <1>4. Wipe(s, name) \in Stacks /\ Len(Wipe(s, name)) = n
        /\ \A i \in 1 .. n : Wipe(s, name)[i] = s[i]
    <2> HIDE DEF n
    <2> QED BY <1>2, <1>3, PrefixFacts
  <1>5. \A j \in 2 .. Len(s) : j >= p => j \in (n + 1) .. Len(s)
    BY <1>1
  <1> QED
    BY <1>2, <1>4, <1>5 DEF PrefixOf, WipeFrees
-----------------------------------------------------------------------------

\* The initial state satisfies the inductive invariant.
LEMMA InitIInv == Init => IInv
  <1> SUFFICES ASSUME Init PROVE IInv
    OBVIOUS
  <1> USE DEF Init
  <1>1. stack \in Stacks /\ contextStackSize \in Nat
    BY DEF Stacks
  <1>2. TypeOK
    BY <1>1 DEF TypeOK
  <1>3. ~memManagerUsable /\ ~destroyed
    BY DEF memManagerUsable
  <1> QED
    BY <1>2, <1>3 DEF IInv, DefaultAtBottom, CurrentIsTop, NoDanglingContext,
       NoDuplicates

\* A pop of the usable manager that frees only what it pops keeps the invariant.
LEMMA PopKeepsIInv ==
    ASSUME IInv, memManagerUsable,
           NEW s, PrefixOf(s, stack), PopTo(s),
           freed' \subseteq freed \union {stack[i] : i \in (Len(s) + 1) .. Len(stack)},
           freed' \subseteq created,
           UNCHANGED << initialized, destroyed, exited, created >>
    PROVE  IInv'
  <1> USE DEF IInv, memManagerUsable
  <1>1. /\ stack \in Stacks /\ stack' = s /\ s \in Stacks
        /\ Len(stack) \in Nat /\ Len(s) \in Nat
        /\ Len(s) \in 1 .. Len(stack)
        /\ \A i \in 1 .. Len(s) : s[i] = stack[i]
    BY DEF PrefixOf, TypeOK, PopTo, Stacks
  <1>2. /\ curMemContext' = Top(s) /\ contextStackSize' = Len(s)
    BY <1>1 DEF PopTo, CurrentIsTop, Top, TypeOK
  <1>3. \A i \in 1 .. Len(s) : s[i] \in Ctx
    BY <1>1 DEF Stacks
  <1>4. TypeOK'
    BY <1>1, <1>2, <1>3 DEF TypeOK, Top
  <1>5. \A i \in 1 .. Len(s) : s[i] \in created /\ s[i] \notin freed'
    <2> TAKE i \in 1 .. Len(s)
    <2>1. s[i] = stack[i] /\ i \in 1 .. Len(stack)
      BY <1>1
    <2>2. stack[i] \in created /\ stack[i] \notin freed
      BY <2>1 DEF NoDanglingContext, Live, OnStack
    <2>3. \A j \in (Len(s) + 1) .. Len(stack) : stack[j] # stack[i]
      BY <1>1, <2>1 DEF NoDuplicates
    <2> QED
      BY <2>1, <2>2, <2>3
  <1>6. NoDanglingContext'
    BY <1>1, <1>5 DEF NoDanglingContext, Live, OnStack
  <1>7. DefaultAtBottom'
    <2>1. s # << >> /\ s[1] = defaultCtx /\ 1 \in 1 .. Len(s)
      BY <1>1 DEF DefaultAtBottom
    <2> QED
      BY <1>1, <1>5, <2>1 DEF DefaultAtBottom
  <1>8. NoDuplicates'
    BY <1>1 DEF NoDuplicates
  <1>9. CurrentIsTop'
    BY <1>1, <1>2 DEF CurrentIsTop
  <1> QED
    BY <1>4, <1>6, <1>7, <1>8, <1>9
\* An acquire of a live context that is not below the top keeps the invariant.
LEMMA PushKeepsIInv ==
    ASSUME IInv, memManagerUsable,
           NEW mc \in Live \union {NULL}, mc \notin BelowTop(stack),
           PushContext(mc),
           UNCHANGED << initialized, destroyed, exited, created, freed >>
    PROVE  IInv'
  <1> USE DEF IInv, memManagerUsable
  <1>1. mc \in Ctx \union {NULL} /\ stack \in Stacks /\ Len(stack) \in Nat
        /\ stack # << >>
    BY DEF Live, TypeOK, DefaultAtBottom, Stacks
  <1> DEFINE s == Acquire(stack, mc)
  <1>2. stack' = s /\ s \in Stacks
    BY <1>1, AcquireFacts DEF PushContext
  <1>3. CASE s = stack
    <2>1. UNCHANGED << stack, curMemContext, contextStackSize >>
      BY <1>3 DEF PushContext
    <2> QED
      BY <2>1 DEF TypeOK, DefaultAtBottom, CurrentIsTop, NoDanglingContext,
         NoDuplicates, Live, OnStack, Top
  <1>4. CASE s # stack
    <2>1. /\ mc \in Ctx /\ mc # Top(stack)
          /\ Len(s) = Len(stack) + 1
          /\ s[Len(stack) + 1] = mc
          /\ \A i \in 1 .. Len(stack) : s[i] = stack[i]
      BY <1>1, <1>4, AcquireFacts
    <2>2. curMemContext' = mc /\ contextStackSize' = contextStackSize + 1
      BY <1>4 DEF PushContext
    <2> HIDE DEF s
    <2>3. mc \in Live
      BY <2>1, CtxAssumption
    <2>4. \A i \in 1 .. Len(stack) : stack[i] # mc
      BY <1>1, <2>1 DEF BelowTop, Top
    <2>5. TypeOK'
      BY <1>2, <2>1, <2>2 DEF TypeOK
    <2>6. DefaultAtBottom'
      <3>1. 1 \in 1 .. Len(stack)
        BY <1>1 DEF Stacks
      <3>2. s[1] = defaultCtx /\ s # << >>
        BY <3>1, <1>1, <1>2, <2>1 DEF DefaultAtBottom
      <3> QED
        BY <1>2, <3>2 DEF DefaultAtBottom
    <2>7. CurrentIsTop'
      BY <1>1, <1>2, <2>1, <2>2 DEF CurrentIsTop, Top
    <2>8. NoDanglingContext'
      <3>1. \A i \in 1 .. Len(s) : s[i] \in Live
        BY <1>1, <2>1, <2>3 DEF NoDanglingContext, OnStack
      <3> QED
        BY <1>2, <3>1 DEF NoDanglingContext, OnStack, Live
    <2>9. NoDuplicates'
      BY <1>1, <1>2, <2>1, <2>4 DEF NoDuplicates
    <2> QED
      BY <2>5, <2>6, <2>7, <2>8, <2>9
  <1> QED
    BY <1>3, <1>4

\* Steps that leave the stack and the life of the manager alone.
LEMMA ExitKeepsIInv == IInv /\ Exit => IInv'
  <1> SUFFICES ASSUME IInv, Exit PROVE IInv'
    OBVIOUS
  <1>1. TypeOK'
    BY DEF Exit, IInv, TypeOK
  <1> QED
    BY <1>1 DEF Exit, IInv, DefaultAtBottom, CurrentIsTop, NoDanglingContext,
       NoDuplicates, memManagerUsable, Live, OnStack, Top
\* Every call of the interface keeps the invariant.
LEMMA NextIInv == IInv /\ [Next]_vars => IInv'
  <1> SUFFICES ASSUME IInv, [Next]_vars PROVE IInv'
    OBVIOUS
  <1>1. CASE initMemManager
    <2>1. CASE initialized \/ destroyed
      BY <1>1, <2>1, ExitKeepsIInv DEF initMemManager
    <2>2. CASE ~(initialized \/ destroyed)
      <3>1. /\ stack = << >> /\ created = {} /\ freed = {} /\ contextStackSize = 0
        BY <2>2 DEF IInv, TypeOK
      <3>2. /\ created' = {defaultCtx} /\ initialized' = TRUE
            /\ PushContext(defaultCtx)
            /\ UNCHANGED << destroyed, exited, freed >>
        BY <1>1, <2>2, <3>1 DEF initMemManager
      <3>3. Acquire(stack, defaultCtx) = << defaultCtx >>
        BY <3>1, CtxAssumption, DefaultAssumption DEF Acquire
      <3>4. << defaultCtx >> # << >>
        OBVIOUS
      <3>5. stack' = << defaultCtx >> /\ curMemContext' = defaultCtx
            /\ contextStackSize' = 1
        BY <3>1, <3>2, <3>3, <3>4 DEF PushContext
      <3>6. TypeOK'
        <4>1. stack' \in Stacks /\ contextStackSize' \in Nat
          BY <3>5, DefaultAssumption DEF Stacks
        <4>2. destroyed' \in BOOLEAN /\ exited' \in BOOLEAN
          BY <3>2 DEF IInv, TypeOK
        <4> QED
          BY <3>1, <3>2, <3>5, <4>1, <4>2, DefaultAssumption DEF TypeOK
      <3>7. Len(stack') = 1 /\ stack'[1] = defaultCtx /\ stack' # << >>
        BY <3>5
      <3>8. OnStack(stack)' = {defaultCtx}
        BY <3>7 DEF OnStack
      <3> QED
        BY <3>1, <3>2, <3>5, <3>6, <3>7, <3>8
        DEF IInv, DefaultAtBottom, CurrentIsTop, NoDanglingContext,
            NoDuplicates, Top, Live
    <2> QED
      BY <2>1, <2>2
  <1>2. CASE destroyMemManager
    <2>1. CASE ~initialized \/ destroyed
      BY <1>2, <2>1, ExitKeepsIInv DEF destroyMemManager
    <2>2. CASE ~(~initialized \/ destroyed)
      <3>1. /\ freed' = freed \union OnStack(stack) /\ destroyed' = TRUE
            /\ PopTo(SubSeq(stack, 1, 1))
            /\ UNCHANGED << initialized, exited, created >>
        BY <1>2, <2>2 DEF destroyMemManager, DestroyFrees
      <3>2. /\ stack \in Stacks /\ stack # << >> /\ Len(stack) \in Nat
            /\ 1 \in 0 .. Len(stack) /\ 1 \in 1 .. Len(stack)
            /\ OnStack(stack) \subseteq created
            /\ contextStackSize = Len(stack) /\ curMemContext \in Ctx
        BY <2>2 DEF IInv, DefaultAtBottom, memManagerUsable, NoDanglingContext,
           Live, TypeOK, Stacks, CurrentIsTop, Top
      <3>3. /\ SubSeq(stack, 1, 1) \in Stacks
            /\ Len(SubSeq(stack, 1, 1)) = 1
            /\ SubSeq(stack, 1, 1)[1] = stack[1]
        BY <3>2, PrefixFacts
      <3>4. stack[1] \in Ctx
        BY <3>2 DEF Stacks
      <3>5. /\ stack' \in Stacks /\ curMemContext' \in Ctx
            /\ contextStackSize' \in Nat
        BY <3>1, <3>2, <3>3, <3>4 DEF PopTo, Top
      <3>6. TypeOK'
        BY <3>1, <3>2, <3>5 DEF IInv, TypeOK
      <3> QED
        BY <2>2, <3>1, <3>6 DEF IInv, DefaultAtBottom, CurrentIsTop,
           NoDanglingContext, NoDuplicates, memManagerUsable
    <2> QED
      BY <2>1, <2>2
  <1>3. ASSUME NEW c \in Ctx, newMemContext(c) PROVE IInv'
    <2>1. TypeOK'
      BY <1>3 DEF newMemContext, IInv, TypeOK
    <2>2. initialized' /\ freed' = freed /\ created \subseteq created'
      BY <1>3 DEF newMemContext, memManagerUsable
    <2> QED
      BY <1>3, <2>1, <2>2 DEF newMemContext, IInv, DefaultAtBottom, CurrentIsTop,
         NoDanglingContext, NoDuplicates, memManagerUsable, Live, OnStack, Top
  <1>4. ASSUME NEW mc \in Ctx \union {NULL}, setCurMemContext(mc) PROVE IInv'
    BY <1>4, PushKeepsIInv DEF setCurMemContext
  <1>5. CASE releaseCurMemContext
    <2>1. memManagerUsable /\ stack \in Stacks /\ stack # << >>
          /\ freed \subseteq created
      BY <1>5 DEF releaseCurMemContext, IInv, TypeOK, DefaultAtBottom
    <2>2. PrefixOf(Release(stack), stack)
      BY <2>1, ReleaseFacts
    <2> QED
      BY <1>5, <2>1, <2>2, PopKeepsIInv DEF releaseCurMemContext
  <1>6. CASE freeAndReleaseCurMemContext
    <2>1. memManagerUsable /\ stack \in Stacks /\ stack # << >>
          /\ freed \subseteq created /\ OnStack(stack) \subseteq created
          /\ Len(stack) \in Nat
      BY <1>6 DEF freeAndReleaseCurMemContext, IInv, TypeOK, DefaultAtBottom,
         NoDanglingContext, Live, Stacks
    <2>2. PrefixOf(Release(stack), stack)
          /\ Len(Release(stack)) = IF Len(stack) > 1 THEN Len(stack) - 1 ELSE Len(stack)
      BY <2>1, ReleaseFacts
    <2>3. FreeCur(stack) \subseteq
             {stack[i] : i \in (Len(Release(stack)) + 1) .. Len(stack)}
      BY <2>1, <2>2 DEF FreeCur, Top
    <2>4. FreeCur(stack) \subseteq created
      BY <2>1 DEF FreeCur, OnStack, Top
    <2> QED
      BY <1>6, <2>1, <2>2, <2>3, <2>4, PopKeepsIInv DEF freeAndReleaseCurMemContext
  <1>7. ASSUME NEW mc \in Ctx, freeMemContext(mc) PROVE IInv'
    <2>1. memManagerUsable /\ stack \in Stacks /\ stack # << >>
          /\ freed \subseteq created /\ OnStack(stack) \subseteq created
          /\ Len(stack) \in Nat /\ mc \in created /\ mc \notin BelowTop(stack)
          /\ mc # NULL
      BY <1>7, CtxAssumption DEF freeMemContext, IInv, TypeOK, DefaultAtBottom,
         NoDanglingContext, Live, Stacks
    <2>2. CASE mc = Top(stack)
      <3>1. Acquire(stack, mc) = stack
        BY <2>1, <2>2 DEF Acquire
      <3>2. PrefixOf(Release(stack), stack)
            /\ Len(Release(stack)) = IF Len(stack) > 1 THEN Len(stack) - 1 ELSE Len(stack)
        BY <2>1, ReleaseFacts
      <3>3. FreeCur(stack) \subseteq
               {stack[i] : i \in (Len(Release(stack)) + 1) .. Len(stack)}
        BY <2>1, <3>2 DEF FreeCur, Top
      <3>4. FreeCur(stack) \subseteq created
        BY <2>1 DEF FreeCur, OnStack, Top
      <3> QED
        BY <1>7, <2>1, <3>1, <3>2, <3>3, <3>4, PopKeepsIInv
        DEF freeMemContext, FreeMemContext, FreeMemContextFrees
    <2>3. CASE mc # Top(stack)
      <3>1. Acquire(stack, mc) = Append(stack, mc)
        BY <2>1, <2>3 DEF Acquire
      <3>2. FreeMemContext(stack, mc) = stack
        BY <2>1, <3>1, PushThenRelease DEF FreeMemContext
      <3>3. FreeMemContextFrees(stack, mc) \subseteq {mc}
        <4>1. Top(Append(stack, mc)) = mc
          BY <2>1 DEF Top, Stacks
        <4> QED
          BY <3>1, <4>1 DEF FreeMemContextFrees, FreeCur
      <3>4. UNCHANGED << initialized, destroyed, exited, stack, curMemContext,
                         contextStackSize, created >>
            /\ freed' \subseteq freed \union {mc}
            /\ freed' \subseteq created
        BY <1>7, <2>1, <3>2, <3>3 DEF freeMemContext, PopTo
      <3>5. mc \notin OnStack(stack)
        BY <2>1, <2>3 DEF OnStack, BelowTop, Top
      <3>6. TypeOK'
        BY <3>4 DEF IInv, TypeOK
      <3>7. NoDanglingContext'
        BY <3>4, <3>5 DEF IInv, NoDanglingContext, memManagerUsable, Live, OnStack
      <3>8. DefaultAtBottom'
        <4>1. defaultCtx \in OnStack(stack)
          <5>1. 1 \in 1 .. Len(stack) /\ stack[1] = defaultCtx
            BY <2>1 DEF IInv, DefaultAtBottom, Stacks
          <5> QED
            BY <5>1 DEF OnStack
        <4> QED
          BY <3>4, <3>5, <4>1 DEF IInv, DefaultAtBottom, memManagerUsable
      <3> QED
        BY <3>4, <3>6, <3>7, <3>8 DEF IInv, CurrentIsTop, NoDuplicates,
           memManagerUsable, Top
    <2> QED
      BY <2>2, <2>3
  <1>8. ASSUME NEW name \in Name, freeMemContextAndChildren(name) PROVE IInv'
    <2>1. CASE Named(stack, name) = {}
      BY <1>8, <2>1, ExitKeepsIInv DEF freeMemContextAndChildren
    <2>2. CASE Named(stack, name) # {}
      <3>1. memManagerUsable /\ stack \in Stacks /\ Len(stack) \in Nat
            /\ freed \subseteq created /\ OnStack(stack) \subseteq created
        BY <1>8 DEF freeMemContextAndChildren, IInv, TypeOK, NoDanglingContext,
           Live, Stacks
      <3>2. WipeFrees(stack, name) \subseteq OnStack(stack)
        BY <3>1 DEF WipeFrees, OnStack
      <3> QED
        BY <1>8, <2>2, <3>1, <3>2, WipeFacts, PopKeepsIInv
        DEF freeMemContextAndChildren
    <2> QED
      BY <2>1, <2>2
  <1>9. CASE malloc_
    BY <1>9, ExitKeepsIInv DEF malloc_
  <1>10. CASE UNCHANGED vars
    <2>1. TypeOK'
      BY <1>10 DEF vars, IInv, TypeOK
    <2> QED
      BY <1>10, <2>1 DEF vars, IInv, DefaultAtBottom, CurrentIsTop, NoDanglingContext,
         NoDuplicates, memManagerUsable, Live, OnStack, Top
  <1> QED
    BY <1>1, <1>2, <1>3, <1>4, <1>5, <1>6, <1>7, <1>8, <1>9, <1>10 DEF Next
\* Type correctness of the memory manager.
THEOREM TypeCorrect == Spec => []TypeOK
  <1>1. IInv => TypeOK
    BY DEF IInv
  <1> QED
    BY <1>1, InitIInv, NextIInv, PTL DEF Spec

\* For any number of contexts and any order of calls, no context on the stack
\* has been freed: the manager of mem_mgr.c never makes a freed MemContext the
\* current one and never frees one twice, as long as its callers do not acquire
\* a context that lies below the top.
THEOREM NoContextDangles == Spec => []NoDanglingContext
  <1>1. IInv => NoDanglingContext
    BY DEF IInv
  <1> QED
    BY <1>1, InitIInv, NextIInv, PTL DEF Spec

\* The default context stays at the bottom until destroyMemManager, and the
\* current context and the counter follow the stack.
THEOREM DefaultContextStays == Spec => [](DefaultAtBottom /\ CurrentIsTop /\ NoDuplicates)
  <1>1. IInv => DefaultAtBottom /\ CurrentIsTop /\ NoDuplicates
    BY DEF IInv
  <1> QED
    BY <1>1, InitIInv, NextIInv, PTL DEF Spec
\* No call removes or replaces a node below the ones it pops: what a caller
\* finds after its releases is what was there before its acquires.
THEOREM StackIsDisciplined == Spec => StackDiscipline
  <1> DEFINE Kept == \A i \in 1 .. Len(stack) : i <= Len(stack') => stack'[i] = stack[i]
  <1>1. ASSUME IInv, [Next]_vars PROVE [Kept]_vars
    <2>1. stack \in Stacks /\ Len(stack) \in Nat
      BY <1>1 DEF IInv, TypeOK, Stacks
    <2>2. ASSUME NEW s, PrefixOf(s, stack), stack' = s PROVE Kept
      BY <2>1, <2>2 DEF PrefixOf
    <2>3. ASSUME NEW mc \in Ctx \union {NULL}, stack' = Acquire(stack, mc) PROVE Kept
      BY <2>1, <2>3, AcquireFacts
    <2>4. ASSUME UNCHANGED stack PROVE Kept
      BY <2>4
    <2>5. memManagerUsable => stack # << >>
      BY <1>1 DEF IInv, DefaultAtBottom
    <2>6. CASE initMemManager
      BY <2>3, <2>4, <2>6, DefaultAssumption
      DEF initMemManager, Exit, PushContext
    <2>7. CASE destroyMemManager
      <3>1. CASE ~initialized \/ destroyed
        BY <2>4, <2>7, <3>1 DEF destroyMemManager, Exit
      <3>2. CASE ~(~initialized \/ destroyed)
        <4>1. stack' = SubSeq(stack, 1, 1) /\ 1 \in 0 .. Len(stack)
          BY <2>1, <2>5, <2>7, <3>2
          DEF destroyMemManager, PopTo, memManagerUsable, Stacks
        <4> QED
          BY <2>1, <4>1, PrefixFacts
      <3> QED
        BY <3>1, <3>2
    <2>8. ASSUME NEW c \in Ctx, newMemContext(c) PROVE Kept
      BY <2>4, <2>8 DEF newMemContext
    <2>9. ASSUME NEW mc \in Ctx \union {NULL}, setCurMemContext(mc) PROVE Kept
      BY <2>3, <2>9 DEF setCurMemContext, PushContext
    <2>10. CASE releaseCurMemContext
      BY <2>1, <2>2, <2>5, <2>10, ReleaseFacts DEF releaseCurMemContext, PopTo
    <2>11. CASE freeAndReleaseCurMemContext
      BY <2>1, <2>2, <2>5, <2>11, ReleaseFacts DEF freeAndReleaseCurMemContext, PopTo
    <2>12. ASSUME NEW mc \in Ctx, freeMemContext(mc) PROVE Kept
      <3>1. stack' = Release(Acquire(stack, mc)) /\ memManagerUsable /\ mc # NULL
        BY <2>12, CtxAssumption DEF freeMemContext, PopTo, FreeMemContext
      <3>2. CASE mc = Top(stack)
        BY <2>1, <2>2, <2>5, <3>1, <3>2, ReleaseFacts DEF Acquire
      <3>3. CASE mc # Top(stack)
        <4>1. Acquire(stack, mc) = Append(stack, mc)
          BY <3>1, <3>3 DEF Acquire
        <4>2. stack' = stack
          BY <2>1, <2>5, <3>1, <4>1, PushThenRelease
        <4> QED
          BY <2>4, <4>2
      <3> QED
        BY <3>2, <3>3
    <2>13. ASSUME NEW name \in Name, freeMemContextAndChildren(name) PROVE Kept
      BY <2>1, <2>2, <2>4, <2>13, WipeFacts DEF freeMemContextAndChildren, PopTo, Exit
    <2>14. CASE malloc_
      BY <2>4, <2>14 DEF malloc_, Exit
    <2> QED
      BY <1>1, <2>6, <2>7, <2>8, <2>9, <2>10, <2>11, <2>12, <2>13, <2>14 DEF Next
  <1> QED
    BY <1>1, InitIInv, NextIInv, PTL DEF Spec, StackDiscipline

\* freeMemContextAndChildren pops a long-lived context that lies above the
\* wiped one but does not free it, a release frees nothing, and the two ways to
\* free one context free the current one or the one that is named.
THEOREM WipeSparesLongLived == Spec => LongLivedSurvivesWipe
  <1> DEFINE Spared ==
               \A c \in (freed' \ freed) \intersect LongLived :
                  \/ destroyMemManager
                  \/ freeAndReleaseCurMemContext /\ c = curMemContext
                  \/ freeMemContext(c)
  <1>1. ASSUME IInv, [Next]_vars PROVE [Spared]_vars
    <2> SUFFICES ASSUME NEW c \in freed' \ freed, c \in LongLived
                 PROVE  \/ destroyMemManager
                        \/ freeAndReleaseCurMemContext /\ c = curMemContext
                        \/ freeMemContext(c)
      OBVIOUS
    <2>1. memManagerUsable => /\ stack \in Stacks /\ stack # << >>
                              /\ curMemContext = Top(stack)
      BY <1>1 DEF IInv, TypeOK, DefaultAtBottom, CurrentIsTop
    <2>2. CASE freeAndReleaseCurMemContext
      <3>1. c \in FreeCur(stack) /\ memManagerUsable
        BY <2>2 DEF freeAndReleaseCurMemContext
      <3>2. c = Top(stack)
        BY <3>1 DEF FreeCur
      <3> QED
        BY <2>1, <2>2, <3>1, <3>2
    <2>3. ASSUME NEW mc \in Ctx, freeMemContext(mc) PROVE freeMemContext(c)
      <3>1. c \in FreeCur(Acquire(stack, mc)) /\ memManagerUsable /\ mc # NULL
        BY <2>3, CtxAssumption DEF freeMemContext, FreeMemContextFrees
      <3>2. c = Top(Acquire(stack, mc))
        BY <3>1 DEF FreeCur
      <3>3. c = mc
        BY <2>1, <3>1, <3>2 DEF Acquire, Top, Stacks
      <3> QED
        BY <2>3, <3>3
    <2>4. ASSUME NEW name \in Name, freeMemContextAndChildren(name) PROVE FALSE
      <3>1. c \in WipeFrees(stack, name)
        BY <2>4 DEF freeMemContextAndChildren, Exit
      <3> QED
        BY <3>1 DEF WipeFrees
    <2>5. ASSUME UNCHANGED freed PROVE FALSE
      BY <2>5
    <2>6. CASE initMemManager
      BY <2>5, <2>6 DEF initMemManager, Exit
    <2>7. ASSUME NEW d \in Ctx, newMemContext(d) PROVE FALSE
      BY <2>5, <2>7 DEF newMemContext
    <2>8. ASSUME NEW mc \in Ctx \union {NULL}, setCurMemContext(mc) PROVE FALSE
      BY <2>5, <2>8 DEF setCurMemContext
    <2>9. CASE releaseCurMemContext
      BY <2>5, <2>9 DEF releaseCurMemContext
    <2>10. CASE malloc_
      BY <2>5, <2>10 DEF malloc_, Exit
    <2>11. CASE UNCHANGED vars
      BY <2>5, <2>11 DEF vars
    <2> QED
      BY <1>1, <2>2, <2>3, <2>4, <2>6, <2>7, <2>8, <2>9, <2>10, <2>11 DEF Next
  <1> QED
    BY <1>1, InitIInv, NextIInv, PTL DEF Spec, LongLivedSurvivesWipe

-----------------------------------------------------------------------------

(***************************************************************************)
(* One context: malloc_ returns memory that lies inside a live chunk and   *)
(* that no other block uses.                                               *)
(***************************************************************************)

\* The sequence operations createChunk is modelled with.
LEMMA AppendFacts ==
    ASSUME NEW s \in Seq(Nat), NEW e \in Nat
    PROVE  /\ Append(s, e) \in Seq(Nat)
           /\ Len(s) \in Nat
           /\ Len(Append(s, e)) = Len(s) + 1
           /\ Append(s, e)[Len(s) + 1] = e
           /\ \A i \in 1 .. Len(s) : Append(s, e)[i] = s[i] /\ s[i] \in Nat
  OBVIOUS

\* The initial state satisfies the inductive invariant.
LEMMA ChunkInitIInv == ChunkInit => ChunkIInv
  <1> SUFFICES ASSUME ChunkInit PROVE ChunkIInv
    OBVIOUS
  <1> USE DEF ChunkInit
  <1>1. ChunkTypeOK
    BY DEF ChunkTypeOK, Pos
  <1> QED
    BY <1>1 DEF ChunkIInv, BlocksDisjoint, ArraysLargeEnough, ChunksTracked, numChunks

\* newMemContext: one chunk, nothing handed out.
LEMMA NewKeepsIInv == ChunkIInv /\ createFirstChunk => ChunkIInv'
  <1> SUFFICES ASSUME ChunkIInv, createFirstChunk PROVE ChunkIInv'
    OBVIOUS
  <1> USE ChunkAssumption DEF createFirstChunk
  <1>1. blocks' = {}
    BY DEF ChunkIInv
  <1>2. ChunkTypeOK'
    BY <1>1 DEF ChunkIInv, ChunkTypeOK, Pos
  <1>3. Len(chunks') = 1 /\ chunks'[1] = 1 /\ Len(size') = 1
        /\ size'[1] = DEFAULT_CHUNK_SIZE
    OBVIOUS
  <1> QED
    BY <1>1, <1>2, <1>3 DEF ChunkIInv, BlocksDisjoint, ArraysLargeEnough, ChunksTracked,
       numChunks

\* A block cut off the current chunk starts where all earlier ones have ended.
LEMMA CurChunkKeepsIInv ==
    ASSUME ChunkIInv, NEW bytes \in Request, allocBytes(bytes), AllocFromCurChunk(bytes)
    PROVE  ChunkIInv'
  <1> DEFINE nb == [chunk |-> curAllocPos.chunk, off |-> curAllocPos.off, len |-> bytes]
  <1>1. /\ state = "live" /\ state' = "live" /\ bytes \in Nat
        /\ memLeftInChunk \in Nat /\ memLeftInChunk >= bytes
        /\ curAllocPos \in Pos /\ asked \in Nat /\ asked' = asked + 1
        /\ blocks' = blocks \union {nb}
        /\ curAllocPos' = [chunk |-> curAllocPos.chunk, off |-> curAllocPos.off + bytes]
        /\ memLeftInChunk' = memLeftInChunk - bytes
        /\ UNCHANGED << unusedBytes, size, heap, curChunkArraySize, chunks >>
    BY ChunkAssumption DEF ChunkIInv, ChunkTypeOK, allocBytes, AllocFromCurChunk
  <1>2. /\ curAllocPos.chunk \in Nat /\ curAllocPos.off \in Nat
        /\ curAllocPos'.chunk = curAllocPos.chunk
        /\ curAllocPos'.off = curAllocPos.off + bytes
        /\ curAllocPos' \in Pos /\ nb \in Block
        /\ nb.chunk = curAllocPos.chunk /\ nb.off = curAllocPos.off /\ nb.len = bytes
    BY <1>1 DEF Pos, Block
  <1>3. ChunkTypeOK'
    <2>1. memLeftInChunk' \in Nat /\ asked' \in Nat
      BY <1>1
    <2>2. blocks' \subseteq Block
      BY <1>1, <1>2 DEF ChunkIInv, ChunkTypeOK
    <2> HIDE DEF nb
    <2> QED
      BY <1>1, <1>2, <2>1, <2>2 DEF ChunkIInv, ChunkTypeOK
  <1>4. /\ curAllocPos.chunk \in 1 .. Len(size)
        /\ memLeftInChunk > 0 => curAllocPos.chunk \in heap
        /\ curAllocPos.off + memLeftInChunk <= size[curAllocPos.chunk]
        /\ size[curAllocPos.chunk] \in Nat
    BY <1>1 DEF ChunkIInv, ChunkTypeOK
  <1>5. \A b \in blocks : b.len \in Nat /\ b.off \in Nat /\ b.chunk \in Nat
    BY DEF ChunkIInv, ChunkTypeOK, Block
  <1>6. \A b \in blocks : b.len > 0 =>
           /\ b.chunk \in heap
           /\ b.chunk = curAllocPos.chunk => b.off + b.len <= curAllocPos.off
           /\ b.chunk # curAllocPos.chunk => b.off + b.len <= size[b.chunk]
    BY DEF ChunkIInv, EndOfBlocks
  <1>7. /\ curAllocPos'.chunk \in 1 .. Len(size')
        /\ memLeftInChunk' > 0 => curAllocPos'.chunk \in heap'
        /\ curAllocPos'.off + memLeftInChunk' <= size'[curAllocPos'.chunk]
    BY <1>1, <1>2, <1>4
  <1> HIDE DEF nb
  <1>8. ASSUME NEW b \in blocks', b.len > 0
        PROVE  b.chunk \in heap' /\ b.off + b.len <= EndOfBlocks(b.chunk)'
    <2>1. CASE b = nb
      BY <1>1, <1>2, <1>4, <1>8, <2>1 DEF EndOfBlocks
    <2>2. CASE b \in blocks
      BY <1>1, <1>2, <1>5, <1>6, <1>8, <2>2 DEF EndOfBlocks
    <2> QED
      BY <1>1, <2>1, <2>2
  <1>9. BlocksDisjoint'
    <2> SUFFICES ASSUME NEW a \in blocks', NEW b \in blocks', a # b,
                        a.len > 0, b.len > 0
                 PROVE  ~Overlap(a, b)
      BY DEF BlocksDisjoint, Overlap
    <2>1. CASE a \in blocks /\ b \in blocks
      BY <2>1 DEF ChunkIInv, BlocksDisjoint
    <2>2. CASE a = nb /\ b \in blocks
      BY <1>2, <1>5, <1>6, <2>2 DEF Overlap
    <2>3. CASE b = nb /\ a \in blocks
      BY <1>2, <1>5, <1>6, <2>3 DEF Overlap
    <2> QED
      BY <1>1, <2>1, <2>2, <2>3
  <1>10. ArraysLargeEnough' /\ ChunksTracked'
         /\ (\A i \in 1 .. numChunks' : chunks'[i] \in heap')
         /\ 1 <= curChunkArraySize'
    BY <1>1 DEF ChunkIInv, ArraysLargeEnough, ChunksTracked, numChunks
  <1> QED
    BY <1>1, <1>3, <1>7, <1>8, <1>9, <1>10 DEF ChunkIInv
\* A new chunk is fresh: no earlier block lies in it, and it is long enough.
LEMMA NewChunkKeepsIInv ==
    ASSUME ChunkIInv, NEW bytes \in Request, allocBytes(bytes), AllocFromNewChunk(bytes)
    PROVE  ChunkIInv'
  <1> DEFINE c == Len(size) + 1
             nb == [chunk |-> c, off |-> 0, len |-> bytes]
             n == ActualSize(bytes)
  <1>1. /\ state = "live" /\ state' = "live" /\ bytes \in Nat
        /\ memLeftInChunk \in Nat /\ memLeftInChunk < bytes
        /\ asked \in Nat /\ asked' = asked + 1
        /\ unusedBytes \in Nat /\ unusedBytes' = unusedBytes + memLeftInChunk
        /\ size \in Seq(Nat) /\ chunks \in Seq(Nat) /\ heap \subseteq 1 .. Len(size)
        /\ curChunkArraySize \in Nat /\ 1 <= curChunkArraySize
        /\ numChunks <= curChunkArraySize
    BY ChunkAssumption DEF ChunkIInv, ChunkTypeOK, allocBytes, AllocFromNewChunk, ArraysLargeEnough
  <1>2. /\ size' = Append(size, n)
        /\ heap' = heap \union {c}
        /\ curChunkArraySize' = GrownArraySize
        /\ chunks' = Append(chunks, c)
        /\ blocks' = blocks \union {nb}
        /\ curAllocPos' = [chunk |-> c, off |-> bytes]
        /\ memLeftInChunk' = n - bytes
    BY DEF AllocFromNewChunk
  <1>3. n \in Nat /\ n >= bytes /\ Len(size) \in Nat /\ c \in Nat
    BY <1>1, ChunkAssumption DEF ActualSize
  <1>4. /\ nb \in Block /\ nb.chunk = c /\ nb.off = 0 /\ nb.len = bytes
        /\ curAllocPos' \in Pos /\ curAllocPos'.chunk = c /\ curAllocPos'.off = bytes
    BY <1>1, <1>2, <1>3 DEF Block, Pos
  <1> HIDE DEF n
  <1>5. /\ size' \in Seq(Nat) /\ Len(size') = c /\ size'[c] = n
        /\ \A i \in 1 .. Len(size) : size'[i] = size[i] /\ size[i] \in Nat
    BY <1>1, <1>2, <1>3, AppendFacts
  <1>6. /\ chunks' \in Seq(Nat) /\ Len(chunks) \in Nat
        /\ Len(chunks') = Len(chunks) + 1 /\ chunks'[Len(chunks) + 1] = c
        /\ \A i \in 1 .. Len(chunks) : chunks'[i] = chunks[i]
    BY <1>1, <1>2, <1>3, AppendFacts
  <1> HIDE DEF nb, c
  <1>7. curChunkArraySize' \in Nat /\ Len(chunks') <= curChunkArraySize'
        /\ 1 <= curChunkArraySize'
    BY <1>1, <1>2, <1>6 DEF GrownArraySize, numChunks
  <1>8. heap' \subseteq 1 .. Len(size') /\ c \notin heap /\ c \in heap'
    <2>1. Len(size) \in Nat /\ c = Len(size) + 1 /\ Len(size') = Len(size) + 1
      BY <1>3, <1>5 DEF c
    <2>2. \A i \in heap : i \in 1 .. Len(size) /\ i # c
      BY <1>1, <2>1
    <2>3. \A i \in heap' : i \in 1 .. Len(size')
      BY <1>2, <2>1, <2>2
    <2> QED
      BY <1>2, <2>2, <2>3
  <1>9. ChunkTypeOK'
    <2>1. memLeftInChunk' \in Nat /\ asked' \in Nat /\ unusedBytes' \in Nat
      BY <1>1, <1>2, <1>3
    <2>2. blocks' \subseteq Block
      BY <1>2, <1>4 DEF ChunkIInv, ChunkTypeOK
    <2> QED
      BY <1>1, <1>4, <1>5, <1>6, <1>7, <1>8, <2>1, <2>2 DEF ChunkTypeOK
  <1>10. \A b \in blocks : b.len \in Nat /\ b.off \in Nat /\ b.chunk \in Nat
    BY DEF ChunkIInv, ChunkTypeOK, Block
  <1>11. \A b \in blocks : b.len > 0 =>
           b.chunk \in heap /\ b.off + b.len <= size[b.chunk]
    <2> TAKE b \in blocks
    <2> HAVE b.len > 0
    <2>1. b.chunk \in heap /\ b.off + b.len <= EndOfBlocks(b.chunk)
      BY DEF ChunkIInv
    <2>2. /\ curAllocPos.off + memLeftInChunk <= size[curAllocPos.chunk]
          /\ curAllocPos.chunk \in 1 .. Len(size) /\ curAllocPos.off \in Nat
      BY <1>1 DEF ChunkIInv, ChunkTypeOK, Pos
    <2>3. size[curAllocPos.chunk] \in Nat
      BY <1>5, <2>2
    <2>4. b.off + b.len \in Nat
      BY <1>10
    <2>5. CASE b.chunk = curAllocPos.chunk
      <3>1. b.off + b.len <= curAllocPos.off
        BY <2>1, <2>5 DEF EndOfBlocks
      <3>2. curAllocPos.off <= size[curAllocPos.chunk]
        BY <1>1, <2>2, <2>3
      <3> QED
        BY <2>1, <2>2, <2>3, <2>4, <2>5, <3>1, <3>2
    <2>6. CASE b.chunk # curAllocPos.chunk
      BY <2>1, <2>6 DEF EndOfBlocks
    <2> QED
      BY <2>5, <2>6
  <1>12. ASSUME NEW b \in blocks', b.len > 0
         PROVE  b.chunk \in heap' /\ b.off + b.len <= EndOfBlocks(b.chunk)'
    <2>1. CASE b = nb
      BY <1>1, <1>4, <1>8, <2>1 DEF EndOfBlocks
    <2>2. CASE b \in blocks
      BY <1>1, <1>2, <1>4, <1>5, <1>8, <1>11, <1>12, <2>2 DEF EndOfBlocks
    <2> QED
      BY <1>2, <2>1, <2>2
  <1>13. BlocksDisjoint'
    <2> SUFFICES ASSUME NEW a \in blocks', NEW b \in blocks', a # b,
                        a.len > 0, b.len > 0
                 PROVE  ~Overlap(a, b)
      BY DEF BlocksDisjoint, Overlap
    <2>1. CASE a \in blocks /\ b \in blocks
      BY <2>1 DEF ChunkIInv, BlocksDisjoint
    <2>2. CASE a = nb /\ b \in blocks
      BY <1>4, <1>8, <1>11, <2>2 DEF Overlap
    <2>3. CASE b = nb /\ a \in blocks
      BY <1>4, <1>8, <1>11, <2>3 DEF Overlap
    <2> QED
      BY <1>2, <2>1, <2>2, <2>3
  <1>14. ChunksTracked' /\ \A i \in 1 .. numChunks' : chunks'[i] \in heap'
    <2>1. heap = {chunks[i] : i \in 1 .. Len(chunks)}
      BY <1>1 DEF ChunkIInv, ChunksTracked, numChunks
    <2>2. \A i \in 1 .. Len(chunks') : i \in 1 .. Len(chunks) \/ i = Len(chunks) + 1
      BY <1>6
    <2>3. \A i \in 1 .. Len(chunks') : chunks'[i] \in heap'
      BY <1>2, <1>6, <2>1, <2>2
    <2>4. heap' \subseteq {chunks'[i] : i \in 1 .. Len(chunks')}
      <3>1. Len(chunks) + 1 \in 1 .. Len(chunks')
            /\ \A i \in 1 .. Len(chunks) : i \in 1 .. Len(chunks')
        BY <1>6
      <3> QED
        BY <1>2, <1>6, <2>1, <3>1
    <2> QED
      BY <2>3, <2>4 DEF ChunksTracked, numChunks
  <1>15. curAllocPos'.chunk \in 1 .. Len(size')
         /\ curAllocPos'.chunk \in heap'
         /\ curAllocPos'.off + memLeftInChunk' <= size'[curAllocPos'.chunk]
    BY <1>1, <1>2, <1>3, <1>4, <1>5, <1>8
  <1> QED
    BY <1>1, <1>7, <1>9, <1>12, <1>13, <1>14, <1>15
    DEF ChunkIInv, ArraysLargeEnough, numChunks

\* clearAMemContext gives every chunk back and forgets every block.
LEMMA ClearKeepsIInv == ChunkIInv /\ clearAMemContext => ChunkIInv'
  <1> SUFFICES ASSUME ChunkIInv, clearAMemContext PROVE ChunkIInv'
    OBVIOUS
  <1>1. /\ state = "live" /\ state' = "live" /\ chunks' = << >> /\ blocks' = {}
        /\ memLeftInChunk' = 0 /\ heap' = {}
        /\ UNCHANGED << curChunkArraySize, curAllocPos, unusedBytes, size, asked >>
    BY DEF clearAMemContext, ChunkIInv, ChunksTracked
  <1>2. ChunkTypeOK'
    BY <1>1 DEF ChunkIInv, ChunkTypeOK
  <1>3. Len(chunks') = 0
    BY <1>1
  <1>4. curAllocPos.off + 0 <= size[curAllocPos.chunk]
    BY <1>1 DEF ChunkIInv, ChunkTypeOK, Pos
  <1> QED
    BY <1>1, <1>2, <1>3, <1>4 DEF ChunkIInv, BlocksDisjoint, ArraysLargeEnough,
       ChunksTracked, numChunks, ChunkTypeOK

\* internalFreeMemContext leaves the arrays and the chunks as they are.
LEMMA FreeKeepsIInv == ChunkIInv /\ internalFreeMemContext => ChunkIInv'
  <1> SUFFICES ASSUME ChunkIInv, internalFreeMemContext PROVE ChunkIInv'
    OBVIOUS
  <1>1. ChunkTypeOK'
    BY DEF internalFreeMemContext, ChunkIInv, ChunkTypeOK
  <1> QED
    BY <1>1 DEF internalFreeMemContext, ChunkIInv, BlocksDisjoint, ArraysLargeEnough,
       ChunksTracked, numChunks

\* Every operation keeps the invariant.
LEMMA ChunkNextIInv == ChunkIInv /\ [ChunkNext]_chunkVars => ChunkIInv'
  <1> SUFFICES ASSUME ChunkIInv, [ChunkNext]_chunkVars PROVE ChunkIInv'
    OBVIOUS
  <1>1. ASSUME NEW bytes \in Request, allocBytes(bytes) PROVE ChunkIInv'
    BY <1>1, CurChunkKeepsIInv, NewChunkKeepsIInv DEF allocBytes
  <1>2. CASE UNCHANGED chunkVars
    <2>1. ChunkTypeOK'
      BY <1>2 DEF chunkVars, ChunkIInv, ChunkTypeOK
    <2> QED
      BY <1>2, <2>1 DEF chunkVars, ChunkIInv, BlocksDisjoint, Overlap, ArraysLargeEnough,
         ChunksTracked, numChunks, EndOfBlocks
  <1> QED
    BY <1>1, <1>2, NewKeepsIInv, ClearKeepsIInv, FreeKeepsIInv DEF ChunkNext

\* malloc_ and calloc_ of mem_mgr.c return memory inside a live chunk, whatever
\* the chunk size and the requests, across chunk changes, growth of the arrays
\* and clears.
THEOREM AllocationIsSafe == ChunkSpec => []BlocksInChunks
  <1>1. ChunkIInv => BlocksInChunks
    <2> SUFFICES ASSUME ChunkIInv, NEW b \in blocks, b.len > 0
                 PROVE  b.chunk \in heap /\ b.off + b.len <= size[b.chunk]
      BY DEF ChunkIInv, BlocksInChunks
    <2>1. b.chunk \in heap /\ b.off + b.len <= EndOfBlocks(b.chunk)
      BY DEF ChunkIInv
    <2>2. CASE state = "live"
      <3>1. /\ curAllocPos.off + memLeftInChunk <= size[curAllocPos.chunk]
            /\ curAllocPos.chunk \in 1 .. Len(size) /\ curAllocPos.off \in Nat
            /\ memLeftInChunk \in Nat /\ b.off \in Nat /\ b.len \in Nat
            /\ size \in Seq(Nat)
        BY <2>2 DEF ChunkIInv, ChunkTypeOK, Pos, Block
      <3>2. size[curAllocPos.chunk] \in Nat
        BY <3>1
      <3> QED
        BY <2>1, <3>1, <3>2 DEF EndOfBlocks
    <2>3. CASE state # "live"
      BY <2>3 DEF ChunkIInv, ChunkTypeOK
    <2> QED
      BY <2>2, <2>3
  <1> QED
    BY <1>1, ChunkInitIInv, ChunkNextIInv, PTL DEF ChunkSpec

\* No block that malloc_ hands out overlaps one handed out since the last clear.
THEOREM BlocksNeverOverlap == ChunkSpec => []BlocksDisjoint
  <1>1. ChunkIInv => BlocksDisjoint
    BY DEF ChunkIInv
  <1> QED
    BY <1>1, ChunkInitIInv, ChunkNextIInv, PTL DEF ChunkSpec

\* createChunk never writes past the end of the arrays chunks and chunkSizes,
\* and the context keeps track of every chunk it owns.
THEOREM ArraysNeverOverrun == ChunkSpec => [](ArraysLargeEnough /\ ChunksTracked)
  <1>1. ChunkIInv => ArraysLargeEnough /\ ChunksTracked
    BY DEF ChunkIInv
  <1> QED
    BY <1>1, ChunkInitIInv, ChunkNextIInv, PTL DEF ChunkSpec
=============================================================================
