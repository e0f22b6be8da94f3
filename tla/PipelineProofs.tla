--------------------------- MODULE PipelineProofs ---------------------------
(***************************************************************************)
(* What every program that runs the pipeline may rely on, for any stack,   *)
(* any stages and any depth of the operator graph: a step of the pipeline  *)
(* keeps PipeInv, leaves the stack it will return to alone up to the       *)
(* height at which it was entered, and creates and frees only contexts of  *)
(* stages.  CommandLineProofs and LibGProMProofs rest on these lemmas.     *)
(***************************************************************************)
EXTENDS Pipeline, TLAPS

\* A stack that holds allocated contexts only, none of them twice.
Sound(s, l) == s \in Stacks /\ Injective(s) /\ OnStack(s) \subseteq l

-----------------------------------------------------------------------------

LEMMA PushFacts ==
    ASSUME NEW s \in Stacks, NEW c \in Ctx
    PROVE  /\ Append(s, c) \in Stacks /\ Len(Append(s, c)) = Len(s) + 1
           /\ \A i \in 1 .. Len(s) : Append(s, c)[i] = s[i]
           /\ Append(s, c)[Len(s) + 1] = c
           /\ \A i \in 1 .. Len(s) + 1 : i \in 1 .. Len(s) \/ i = Len(s) + 1
           /\ Len(s) \in Nat
  <1>1. s \in Seq(Ctx) /\ Len(s) \in Nat
    BY DEF Stacks
  <1>2. Append(s, c) \in Seq(Ctx) /\ Len(Append(s, c)) = Len(s) + 1
    BY <1>1
  <1>3. /\ \A i \in 1 .. Len(s) : Append(s, c)[i] = s[i]
        /\ Append(s, c)[Len(s) + 1] = c
    BY <1>1
  <1> QED
    BY <1>1, <1>2, <1>3 DEF Stacks

LEMMA PrefixFacts ==
    ASSUME NEW s \in Stacks, NEW n \in 0 .. Len(s)
    PROVE  /\ SubSeq(s, 1, n) \in Stacks /\ Len(SubSeq(s, 1, n)) = n
           /\ \A i \in 1 .. n : SubSeq(s, 1, n)[i] = s[i] /\ i \in 1 .. Len(s)
  BY DEF Stacks

\* Pushing a context that is not on the stack keeps it sound.
LEMMA PushKeepsSound ==
    ASSUME NEW l, NEW s, Sound(s, l), NEW c \in Ctx, c \notin OnStack(s)
    PROVE  Sound(Append(s, c), l \union {c})
  <1>1. /\ Append(s, c) \in Stacks /\ Len(Append(s, c)) = Len(s) + 1
        /\ \A i \in 1 .. Len(s) : Append(s, c)[i] = s[i]
        /\ Append(s, c)[Len(s) + 1] = c
        /\ \A i \in 1 .. Len(s) + 1 : i \in 1 .. Len(s) \/ i = Len(s) + 1
    BY PushFacts DEF Sound
  <1>2. Injective(Append(s, c))
    BY <1>1 DEF Sound, Injective, OnStack
  <1>3. OnStack(Append(s, c)) \subseteq l \union {c}
    BY <1>1 DEF Sound, OnStack
  <1> QED
    BY <1>1, <1>2, <1>3 DEF Sound

\* So does cutting it, and freeing what is no longer on it.
LEMMA PrefixKeepsSound ==
    ASSUME NEW l, NEW s, Sound(s, l), NEW n \in 0 .. Len(s), NEW freed,
           \A c \in freed : \A i \in 1 .. n : s[i] # c
    PROVE  Sound(SubSeq(s, 1, n), l \ freed)
  <1>1. /\ SubSeq(s, 1, n) \in Stacks /\ Len(SubSeq(s, 1, n)) = n
        /\ \A i \in 1 .. n : SubSeq(s, 1, n)[i] = s[i] /\ i \in 1 .. Len(s)
    BY PrefixFacts DEF Sound
  <1>2. Injective(SubSeq(s, 1, n))
    BY <1>1 DEF Sound, Injective
  <1>3. OnStack(SubSeq(s, 1, n)) \subseteq l \ freed
    BY <1>1 DEF Sound, OnStack
  <1> QED
    BY <1>1, <1>2, <1>3 DEF Sound

\* FREE_AND_RELEASE_CUR_MEM_CONTEXT pops the top and frees nothing below it.
LEMMA PopFacts ==
    ASSUME NEW l, NEW s, Sound(s, l), Len(s) > 1
    PROVE  /\ Release(s) = SubSeq(s, 1, Len(s) - 1)
           /\ FreeCur(s) = {s[Len(s)]} /\ Top(s) = s[Len(s)]
           /\ Sound(Release(s), l \ {s[Len(s)]})
           /\ Len(Release(s)) = Len(s) - 1
           /\ \A i \in 1 .. Len(s) - 1 : Release(s)[i] = s[i] /\ i \in 1 .. Len(s)
           /\ Len(s) \in 1 .. Len(s)
  <1>1. Len(s) \in Nat /\ Len(s) - 1 \in 0 .. Len(s) /\ Len(s) \in 1 .. Len(s)
    BY DEF Sound, Stacks
  <1>2. Release(s) = SubSeq(s, 1, Len(s) - 1) /\ FreeCur(s) = {s[Len(s)]}
    BY <1>1 DEF Release, FreeCur, Top
  <1>3. \A c \in {s[Len(s)]} : \A i \in 1 .. Len(s) - 1 : s[i] # c
    BY <1>1 DEF Sound, Injective
  <1>4. Sound(SubSeq(s, 1, Len(s) - 1), l \ {s[Len(s)]})
    BY <1>1, <1>3, PrefixKeepsSound
  <1> QED
    BY <1>1, <1>2, <1>4, PrefixFacts DEF Sound, Top

LEMMA NewCtxFacts ==
    ASSUME NEW name, Available(name) # {}
    PROVE  NewCtx(name) \in Ctx \ live /\ ctxName[NewCtx(name)] = name
  <1>1. NewCtx(name) \in Available(name)
    BY DEF NewCtx
  <1> QED
    BY <1>1 DEF Available

\* NEW_AND_ACQUIRE_MEMCONTEXT pushes a context that was not allocated before.
LEMMA NewAndAcquireFacts ==
    ASSUME Sound(stack, live), NEW name, NewAndAcquire(name)
    PROVE  \E c \in Ctx \ live :
              /\ ctxName[c] = name
              /\ live' = live \union {c} /\ stack' = Append(stack, c)
              /\ Sound(stack', live')
              /\ Len(stack') = Len(stack) + 1 /\ Len(stack) \in Nat
              /\ \A i \in 1 .. Len(stack) : stack'[i] = stack[i]
              /\ stack'[Len(stack) + 1] = c
              /\ \A i \in 1 .. Len(stack') : i \in 1 .. Len(stack) \/ i = Len(stack) + 1
  <1> DEFINE c == NewCtx(name)
  <1>1. c \in Ctx \ live /\ ctxName[c] = name /\ live' = live \union {c}
        /\ stack' = Acquire(stack, c)
    BY NewCtxFacts DEF NewAndAcquire
  <1> HIDE DEF c
  <1>2. c \notin OnStack(stack)
    BY <1>1 DEF Sound
  <1>3. stack' = Append(stack, c)
    <2>1. c # NULL
      BY <1>1, CtxAssumption
    <2>2. stack # << >> => Top(stack) \in OnStack(stack)
      BY DEF Sound, Stacks, Top, OnStack
    <2> QED
      BY <1>1, <1>2, <2>1, <2>2 DEF Acquire
  <1>4. Sound(stack', live')
    BY <1>1, <1>2, <1>3, PushKeepsSound
  <1> QED
    BY <1>1, <1>3, <1>4, PushFacts DEF Sound

\* FREE_AND_RELEASE_CUR_MEM_CONTEXT, also when only the bottom is left.
LEMMA FreeAndReleaseFacts ==
    ASSUME Sound(stack, live), Len(stack) >= 1, FreeAndRelease
    PROVE  /\ Sound(stack', live') /\ Len(stack') >= 1 /\ Len(stack') \in Nat
           /\ Len(stack) > 1 => Len(stack') = Len(stack) - 1
                               /\ live' = live \ {stack[Len(stack)]}
           /\ ~ (Len(stack) > 1) => stack' = stack /\ live' = live
           /\ live' \subseteq live
           /\ \A i \in 1 .. Len(stack') : stack'[i] = stack[i] /\ i \in 1 .. Len(stack)
  <1>1. Len(stack) \in Nat
    BY DEF Sound, Stacks
  <1>2. CASE Len(stack) > 1
    <2>1. /\ live' = live \ {stack[Len(stack)]} /\ Sound(stack', live')
          /\ Len(stack') = Len(stack) - 1
          /\ \A i \in 1 .. Len(stack) - 1 : stack'[i] = stack[i] /\ i \in 1 .. Len(stack)
      BY <1>2, PopFacts DEF FreeAndRelease
    <2> QED
      BY <1>1, <1>2, <2>1
  <1>3. CASE ~ (Len(stack) > 1)
    <2>1. stack' = stack /\ live' = live
      BY <1>3 DEF FreeAndRelease, FreeCur, Release
    <2> QED
      BY <1>1, <1>3, <2>1
  <1> QED
    BY <1>2, <1>3

LEMMA SameElements ==
    ASSUME NEW S, NEW r \in Seq(S), NEW s \in Seq(S), Len(r) = Len(s),
           \A i \in 1 .. Len(r) : r[i] = s[i]
    PROVE  r = s
  OBVIOUS

\* The frames of at most two open TRY blocks.
LEMMA FrameFacts ==
    ASSUME NEW a, NEW b
    PROVE  /\ Append(<< >>, a) = << a >> /\ Append(<< a >>, b) = << a, b >>
           /\ Len(<< >>) = 0 /\ Len(<< a >>) = 1 /\ Len(<< a, b >>) = 2
           /\ SubSeq(<< a >>, 1, 0) = << >> /\ SubSeq(<< a >>, 1, 1) = << a >>
           /\ SubSeq(<< a, b >>, 1, 1) = << a >>
           /\ SubSeq(<< a, b >>, 1, 2) = << a, b >>
           /\ << a >>[1] = a /\ << a, b >>[1] = a /\ << a, b >>[2] = b
  <1> DEFINE S == {a, b}
  <1>1. /\ << >> \in Seq(S) /\ << a >> \in Seq(S) /\ << a, b >> \in Seq(S)
        /\ Append(<< >>, a) \in Seq(S) /\ Append(<< a >>, b) \in Seq(S)
        /\ SubSeq(<< a, b >>, 1, 1) \in Seq(S) /\ SubSeq(<< a, b >>, 1, 2) \in Seq(S)
        /\ SubSeq(<< a >>, 1, 0) \in Seq(S) /\ SubSeq(<< a >>, 1, 1) \in Seq(S)
    OBVIOUS
  <1>2. /\ Len(<< >>) = 0 /\ Len(<< a >>) = 1 /\ Len(<< a, b >>) = 2
        /\ << a >>[1] = a /\ << a, b >>[1] = a /\ << a, b >>[2] = b
    OBVIOUS
  <1>3. Append(<< >>, a) = << a >>
    <2>1. Len(Append(<< >>, a)) = 1 /\ Append(<< >>, a)[1] = a
      BY <1>1
    <2> QED
      BY <1>1, <1>2, <2>1, SameElements
  <1>4. Append(<< a >>, b) = << a, b >>
    <2>1. Len(Append(<< a >>, b)) = 2
      BY <1>1
    <2>2. Append(<< a >>, b)[1] = a /\ Append(<< a >>, b)[2] = b
      BY <1>1
    <2>3. \A i \in 1 .. 2 : i = 1 \/ i = 2
      OBVIOUS
    <2> QED
      BY <1>1, <1>2, <2>1, <2>2, <2>3, SameElements
  <1>5. SubSeq(<< a >>, 1, 0) = << >> /\ SubSeq(<< a >>, 1, 1) = << a >>
    <2>1. Len(SubSeq(<< a >>, 1, 0)) = 0
      BY <1>1
    <2>2. Len(SubSeq(<< a >>, 1, 1)) = 1 /\ SubSeq(<< a >>, 1, 1)[1] = a
      BY <1>1
    <2>3. SubSeq(<< a >>, 1, 0) = << >>
      BY <1>1, <1>2, <2>1, SameElements
    <2>4. SubSeq(<< a >>, 1, 1) = << a >>
      <3>1. \A i \in 1 .. 1 : i = 1
        OBVIOUS
      <3> QED
        BY <1>1, <1>2, <2>2, <3>1, SameElements
    <2> QED
      BY <2>3, <2>4
  <1>6. SubSeq(<< a, b >>, 1, 1) = << a >>
    <2>1. Len(SubSeq(<< a, b >>, 1, 1)) = 1
      BY <1>1
    <2>2. SubSeq(<< a, b >>, 1, 1)[1] = a
      BY <1>1
    <2>3. \A i \in 1 .. 1 : i = 1
      OBVIOUS
    <2> QED
      BY <1>1, <1>2, <2>1, <2>2, <2>3, SameElements
  <1>7. SubSeq(<< a, b >>, 1, 2) = << a, b >>
    <2>1. Len(SubSeq(<< a, b >>, 1, 2)) = 2
      BY <1>1
    <2>2. SubSeq(<< a, b >>, 1, 2)[1] = a /\ SubSeq(<< a, b >>, 1, 2)[2] = b
      BY <1>1
    <2>3. \A i \in 1 .. 2 : i = 1 \/ i = 2
      OBVIOUS
    <2> QED
      BY <1>1, <1>2, <2>1, <2>2, <2>3, SameElements
  <1> QED
    BY <1>2, <1>3, <1>4, <1>5, <1>6, <1>7

-----------------------------------------------------------------------------

LEMMA TryFacts ==
    ASSUME NEW fn, NEW a, TRY(fn)
    PROVE  /\ frames = << >> /\ exceptionBuf = 0 =>
                 frames' = << [fn |-> fn, save |-> 0] >> /\ exceptionBuf' = 1
           /\ frames = << a >> /\ exceptionBuf = 1 =>
                 frames' = << a, [fn |-> fn, save |-> 1] >> /\ exceptionBuf' = 2
  <1>1. ASSUME frames = << >>, exceptionBuf = 0
        PROVE  frames' = << [fn |-> fn, save |-> 0] >> /\ exceptionBuf' = 1
    <2>1. frames' = Append(<< >>, [fn |-> fn, save |-> 0]) /\ exceptionBuf' = 0 + 1
      BY <1>1 DEF TRY
    <2> QED
      BY <2>1, FrameFacts
  <1>2. ASSUME frames = << a >>, exceptionBuf = 1
        PROVE  frames' = << a, [fn |-> fn, save |-> 1] >> /\ exceptionBuf' = 2
    <2>1. frames' = Append(<< a >>, [fn |-> fn, save |-> 1]) /\ exceptionBuf' = 1 + 1
      BY <1>2 DEF TRY
    <2> QED
      BY <2>1, FrameFacts
  <1> QED
    BY <1>1, <1>2

LEMMA EndTryFacts ==
    ASSUME NEW a, NEW b, END_TRY
    PROVE  /\ frames = << a >> => frames' = << >> /\ exceptionBuf' = a.save
           /\ frames = << a, b >> => frames' = << a >> /\ exceptionBuf' = b.save
  <1>1. ASSUME frames = << a >> PROVE frames' = << >> /\ exceptionBuf' = a.save
    <2>1. frames' = SubSeq(<< a >>, 1, 1 - 1) /\ exceptionBuf' = << a >>[1].save
      BY <1>1 DEF END_TRY, CurFrame
    <2> QED
      BY <2>1, FrameFacts
  <1>2. ASSUME frames = << a, b >> PROVE frames' = << a >> /\ exceptionBuf' = b.save
    <2>1. frames' = SubSeq(<< a, b >>, 1, 2 - 1) /\ exceptionBuf' = << a, b >>[2].save
      BY <1>2 DEF END_TRY, CurFrame
    <2> QED
      BY <2>1, FrameFacts
  <1> QED
    BY <1>1, <1>2

\* A throw in the innermost of two blocks, in the only one, and outside.
LEMMA ThrowingFacts ==
    ASSUME NEW s, NEW a, NEW b, Throwing(s)
    PROVE  /\ frames = << >> /\ exceptionBuf = 0 => pc' = "exited"
           /\ frames = << a >> /\ exceptionBuf = 1 =>
                 frames' = frames /\ exceptionBuf' = a.save /\ pc' = "catch"
           /\ frames = << a, b >> /\ exceptionBuf = 2 =>
                 frames' = frames /\ exceptionBuf' = b.save /\ pc' = "catch"
           /\ unhandled' = unhandled + 1
  <1>1. ASSUME frames = << a >>, exceptionBuf = 1
        PROVE  frames' = frames /\ exceptionBuf' = a.save /\ pc' = "catch"
    <2>1. exceptionBuf # 0 /\ exceptionBuf <= Len(frames)
      BY <1>1, FrameFacts
    <2>2. /\ frames' = SubSeq(<< a >>, 1, 1) /\ exceptionBuf' = << a >>[1].save
          /\ pc' = "catch"
      BY <1>1, <2>1 DEF Throwing, siglongjmp
    <2> QED
      BY <1>1, <2>2, FrameFacts
  <1>2. ASSUME frames = << a, b >>, exceptionBuf = 2
        PROVE  frames' = frames /\ exceptionBuf' = b.save /\ pc' = "catch"
    <2>1. exceptionBuf # 0 /\ exceptionBuf <= Len(frames)
      BY <1>2, FrameFacts
    <2>2. /\ frames' = SubSeq(<< a, b >>, 1, 2) /\ exceptionBuf' = << a, b >>[2].save
          /\ pc' = "catch"
      BY <1>2, <2>1 DEF Throwing, siglongjmp
    <2> QED
      BY <1>2, <2>2, FrameFacts
  <1> QED
    BY <1>1, <1>2 DEF Throwing

\* The handler of the inner block throws on to the outer one.
LEMMA RethrowFacts ==
    ASSUME NEW a, NEW b, RETHROW, frames = << a, b >>, exceptionBuf = 1
    PROVE  /\ frames' = << a >> /\ exceptionBuf' = a.save /\ pc' = "catch"
           /\ UNCHANGED << stack, live, unhandled >>
  <1>1. exceptionBuf <= Len(frames)
    BY FrameFacts
  <1>2. /\ frames' = SubSeq(<< a, b >>, 1, 1) /\ exceptionBuf' = << a, b >>[1].save
        /\ pc' = "catch"
    BY <1>1 DEF RETHROW, siglongjmp
  <1> QED
    BY <1>2, FrameFacts DEF RETHROW

\* The wipe of a context that is on the stack once, above the bottom.
LEMMA WipeFacts ==
    ASSUME Sound(stack, live), NEW name, NEW p \in Named(stack, name), p > 1,
           \A i \in Named(stack, name) : i = p
    PROVE  /\ Wipe(stack, name) = SubSeq(stack, 1, p - 1)
           /\ Len(Wipe(stack, name)) = p - 1 /\ p \in 1 .. Len(stack)
           /\ \A i \in 1 .. p - 1 : /\ Wipe(stack, name)[i] = stack[i]
                                    /\ i \in 1 .. Len(stack)
           /\ Sound(Wipe(stack, name), live \ WipeFrees(stack, name))
           /\ stack[p] \in WipeFrees(stack, name) \/ stack[p] \in LongLived
           /\ stack[1] \notin WipeFrees(stack, name)
  <1> DEFINE F == WipeFrees(stack, name)
  <1>1. p \in 1 .. Len(stack) /\ Len(stack) \in Nat /\ p - 1 \in 0 .. Len(stack)
        /\ p \in Nat /\ 1 \in 1 .. Len(stack)
    BY DEF Named, Sound, Stacks
  <1>2. TopmostNamed(stack, name) = p
    <2>1. \A j \in Named(stack, name) : j <= p
      BY <1>1
    <2>2. /\ TopmostNamed(stack, name) \in Named(stack, name)
      BY <2>1 DEF TopmostNamed
    <2> QED
      BY <2>2
  <1>3. Wipe(stack, name) = SubSeq(stack, 1, p - 1)
    BY <1>1, <1>2 DEF Wipe
  <1>4. F = {stack[i] : i \in {j \in 2 .. Len(stack) : j >= p}} \ LongLived
    BY <1>2 DEF WipeFrees
  <1> HIDE DEF F
  <1>5. \A c \in F : \A i \in 1 .. p - 1 : stack[i] # c
    <2> SUFFICES ASSUME NEW c \in F, NEW i \in 1 .. p - 1, stack[i] = c PROVE FALSE
      OBVIOUS
    <2>1. PICK j \in 2 .. Len(stack) : j >= p /\ c = stack[j]
      BY <1>4
    <2>2. j \in 1 .. Len(stack) /\ i \in 1 .. Len(stack) /\ i # j
      BY <1>1, <2>1
    <2> QED
      BY <2>1, <2>2 DEF Sound, Injective
  <1>6. Sound(SubSeq(stack, 1, p - 1), live \ F)
    BY <1>1, <1>5, PrefixKeepsSound
  <1>7. stack[p] \in F \/ stack[p] \in LongLived
    BY <1>1, <1>4
  <1>8. stack[1] \notin F
    BY <1>1, <1>5
  <1> QED
    BY <1>1, <1>3, <1>6, <1>7, <1>8, PrefixFacts DEF F, Sound

-----------------------------------------------------------------------------

\* The invariant determines the stack the visits return to.
LEMMA UnwoundIs ==
    ASSUME NEW u, PipeInvOf(u)'
    PROVE  Unwound' = u
  <1>1. /\ u \in Stacks /\ base' \in 1 .. Len(u) /\ Visits(u)'
        /\ released' \in Seq([mc : Ctx \union {NULL}, height : Nat])
    BY DEF PipeInvOf
  <1>2. CASE released' = << >>
    BY <1>1, <1>2 DEF Visits, Unwound
  <1>3. CASE released' # << >>
    <2> DEFINE n == Len(released')
    <2>1. /\ n \in Nat /\ n >= 1 /\ 1 \in 1 .. n /\ n \in 1 .. n
          /\ Len(u) \in Nat /\ Len(u) > 1
          /\ u = [i \in 1 .. Len(u) |-> u[i]]
      BY <1>1, <1>3 DEF Visits, Stacks
    <2>2. /\ \A k \in 1 .. n :
                released'[k] = IF k < Len(u)
                               THEN [mc |-> u[Len(u) - k + 1], height |-> Len(u) - k]
                               ELSE [mc |-> NULL, height |-> 1]
          /\ \A i \in 1 .. Floor' : stack'[i] = u[i]
          /\ Floor' = LastRelease'.height /\ LastRelease' = released'[n]
      BY <1>1, <1>3 DEF Visits, Floor, LastRelease
    <2>3. released'[1].height + 1 = Len(u)
      <3>1. released'[1] = [mc |-> u[Len(u) - 1 + 1], height |-> Len(u) - 1]
        BY <2>1, <2>2
      <3>2. released'[1].height = Len(u) - 1
        BY <3>1
      <3> QED
        BY <2>1, <3>2
    <2>4. LastRelease'.height = IF n < Len(u) THEN Len(u) - n ELSE 1
      <3>1. CASE n < Len(u)
        <4>1. released'[n] = [mc |-> u[Len(u) - n + 1], height |-> Len(u) - n]
          BY <2>1, <2>2, <3>1
        <4>2. released'[n].height = Len(u) - n
          BY <4>1
        <4> QED
          BY <2>2, <3>1, <4>2
      <3>2. CASE ~ (n < Len(u))
        <4>1. released'[n] = [mc |-> NULL, height |-> 1]
          BY <2>1, <2>2, <3>2
        <4>2. released'[n].height = 1
          BY <4>1
        <4> QED
          BY <2>2, <3>2, <4>2
      <3> QED
        BY <3>1, <3>2
    <2>5. ASSUME NEW i \in 1 .. Len(u)
          PROVE  u[i] = IF i <= LastRelease'.height THEN stack'[i]
                        ELSE released'[Len(u) - i + 1].mc
      <3>1. CASE i <= LastRelease'.height
        <4>1. i \in 1 .. Floor'
          BY <2>1, <2>2, <2>4, <3>1
        <4> QED
          BY <2>2, <3>1, <4>1
      <3>2. CASE ~ (i <= LastRelease'.height)
        <4> DEFINE k == Len(u) - i + 1
        <4>1. k \in 1 .. n /\ k < Len(u) /\ Len(u) - k + 1 = i
          BY <2>1, <2>4, <3>2
        <4>2. released'[k] = [mc |-> u[i], height |-> Len(u) - k]
          BY <2>2, <4>1
        <4> QED
          BY <3>2, <4>2
      <3> QED
        BY <3>1, <3>2
    <2>6. Unwound' = [i \in 1 .. Len(u) |->
                         IF i <= LastRelease'.height THEN stack'[i]
                         ELSE released'[Len(u) - i + 1].mc]
      BY <1>3, <2>3 DEF Unwound
    <2> HIDE DEF n
    <2> QED
      BY <2>1, <2>5, <2>6
  <1> QED
    BY <1>2, <1>3

\* The last release, as the invariant has it.
LEMMA VisitFacts ==
    ASSUME NEW u, PipeInvOf(u), released # << >>
    PROVE  /\ Len(released) \in Nat /\ Len(released) >= 1
           /\ Len(u) \in Nat /\ Len(u) > base /\ base \in Nat /\ base >= 1
           /\ Floor = LastRelease.height /\ LastRelease = released[Len(released)]
           /\ Len(released) < Len(u) =>
                 LastRelease = [mc |-> u[Len(u) - Len(released) + 1],
                                height |-> Len(u) - Len(released)]
           /\ ~ (Len(released) < Len(u)) => LastRelease = [mc |-> NULL, height |-> 1]
           /\ Floor = IF Len(released) < Len(u) THEN Len(u) - Len(released) ELSE 1
  <1>1. /\ u \in Stacks /\ base \in 1 .. Len(u) /\ Visits(u)
        /\ released \in Seq([mc : Ctx \union {NULL}, height : Nat])
    BY DEF PipeInvOf
  <1>2. /\ Len(released) \in Nat /\ Len(released) >= 1
        /\ Len(released) \in 1 .. Len(released)
        /\ Len(u) \in Nat /\ Len(u) > base /\ base \in Nat /\ base >= 1
    BY <1>1 DEF Visits, Stacks
  <1>3. Floor = LastRelease.height /\ LastRelease = released[Len(released)]
    BY DEF Floor, LastRelease
  <1>4. LastRelease = IF Len(released) < Len(u)
                      THEN [mc |-> u[Len(u) - Len(released) + 1],
                            height |-> Len(u) - Len(released)]
                      ELSE [mc |-> NULL, height |-> 1]
    BY <1>1, <1>2, <1>3 DEF Visits
  <1>5. CASE Len(released) < Len(u)
    BY <1>2, <1>3, <1>4, <1>5
  <1>6. CASE ~ (Len(released) < Len(u))
    BY <1>2, <1>3, <1>4, <1>6
  <1> QED
    BY <1>5, <1>6

\* A stage or a metadata lookup pushes its context.
LEMMA PushKeepsPipeInv ==
    ASSUME NEW u, PipeInvOf(u), NEW c \in Ctx, c \notin OnStack(stack), StageContext(c),
           c = Metadata \/ c \notin live,
           stack' = Append(stack, c), live' = live \union {c},
           UNCHANGED << released, base >>
    PROVE  \E w : PipeInvOf(w)' /\ \A i \in 1 .. base : w[i] = u[i]
  <1>1. /\ Sound(stack, live) /\ Sound(u, live) /\ base \in 1 .. Len(u) /\ Visits(u)
        /\ u \in Stacks /\ stack \in Stacks
        /\ Floor \in 1 .. Len(stack)
        /\ released \in Seq([mc : Ctx \union {NULL}, height : Nat])
    BY DEF PipeInvOf, Sound
  <1>2. Sound(stack', live') /\ Sound(u, live')
    BY <1>1, PushKeepsSound DEF Sound
  <1>3. /\ Len(stack') = Len(stack) + 1
        /\ \A i \in 1 .. Len(stack) : stack'[i] = stack[i]
        /\ stack'[Len(stack) + 1] = c
        /\ \A i \in 1 .. Len(stack) + 1 : i \in 1 .. Len(stack) \/ i = Len(stack) + 1
        /\ Len(stack) \in Nat
    BY <1>1, PushFacts
  <1>4. Floor' = Floor
    BY DEF Floor, LastRelease
  <1>5. \A i \in Floor + 1 .. Len(stack') :
            /\ StageContext(stack'[i])
            /\ released # << >> /\ stack'[i] # Metadata => stack'[i] \notin OnStack(u)
    <2> SUFFICES ASSUME NEW i \in Floor + 1 .. Len(stack')
                 PROVE  /\ StageContext(stack'[i])
                        /\ released # << >> /\ stack'[i] # Metadata =>
                              stack'[i] \notin OnStack(u)
      OBVIOUS
    <2>1. CASE i = Len(stack) + 1
      BY <1>1, <1>3, <2>1 DEF Sound
    <2>2. CASE i # Len(stack) + 1
      <3>1. i \in Floor + 1 .. Len(stack) /\ i \in 1 .. Len(stack)
        BY <1>1, <1>3, <2>2
      <3> QED
        BY <1>3, <3>1 DEF PipeInvOf
    <2> QED
      BY <2>1, <2>2
  <1>6. CASE released = << >>
    <2>1. u = stack /\ Floor = base
      BY <1>1, <1>6 DEF Visits, Floor
    <2>2. base \in 1 .. Len(stack') /\ Floor \in 1 .. Len(stack')
      BY <1>1, <1>3, <2>1
    <2>3. stack'[1] = defaultCtx /\ \A i \in 1 .. base : stack'[i] = u[i]
      BY <1>1, <1>3, <2>1 DEF PipeInvOf
    <2> PICK w : w = stack'
      OBVIOUS
    <2>4. Visits(w)'
      BY <1>6 DEF Visits
    <2>5. PipeInvOf(w)'
      BY <1>1, <1>2, <1>4, <1>5, <1>6, <2>1, <2>2, <2>3, <2>4
         DEF PipeInvOf, Sound, StageContext
    <2> QED
      BY <2>3, <2>5
  <1>7. CASE released # << >>
    <2>1. \A i \in 1 .. Floor : i \in 1 .. Len(stack)
      BY <1>1, <1>3
    <2>2. \A i \in 1 .. Floor' : stack'[i] = u[i]
      BY <1>1, <1>3, <1>4, <1>7, <2>1 DEF Visits
    <2>3. Visits(u)'
      BY <1>1, <1>7, <2>2 DEF Visits
    <2>4. Floor' \in 1 .. Len(stack')
      BY <1>1, <1>3, <1>4
    <2>5. PipeInvOf(u)'
      BY <1>1, <1>2, <1>4, <1>5, <1>7, <2>3, <2>4 DEF PipeInvOf, Sound, StageContext
    <2> QED
      BY <2>5
  <1> QED
    BY <1>6, <1>7

\* It pops it again, freeing it unless it is long-lived.
LEMMA PopKeepsPipeInv ==
    ASSUME NEW u, PipeInvOf(u), Len(stack) > Floor,
           \/ live' = live
           \/ live' = live \ {Top(stack)} /\ ctxName[Top(stack)] = StageName,
           stack' = Release(stack), UNCHANGED << released, base >>
    PROVE  \E w : PipeInvOf(w)' /\ \A i \in 1 .. base : w[i] = u[i]
  <1>1. /\ Sound(stack, live) /\ Sound(u, live) /\ base \in 1 .. Len(u) /\ Visits(u)
        /\ u \in Stacks /\ stack \in Stacks
        /\ Floor \in 1 .. Len(stack) /\ Len(stack) \in Nat /\ Len(stack) > 1
        /\ released \in Seq([mc : Ctx \union {NULL}, height : Nat])
    BY DEF PipeInvOf, Sound, Stacks
  <1>2. /\ Top(stack) = stack[Len(stack)] /\ Sound(stack', live \ {stack[Len(stack)]})
        /\ Len(stack') = Len(stack) - 1
        /\ \A i \in 1 .. Len(stack) - 1 : stack'[i] = stack[i] /\ i \in 1 .. Len(stack)
        /\ Len(stack) \in Floor + 1 .. Len(stack)
    <2>1. Len(stack) \in Floor + 1 .. Len(stack)
      BY <1>1
    <2> QED
      BY <1>1, <2>1, PopFacts
  <1>3. Sound(stack', live')
    BY <1>2 DEF Sound
  <1>4. Floor' = Floor /\ Floor \in 1 .. Len(stack')
    <2>1. Floor' = Floor
      BY DEF Floor, LastRelease
    <2> QED
      BY <1>1, <1>2, <2>1
  <1>5. \A i \in Floor + 1 .. Len(stack') :
            /\ StageContext(stack'[i])
            /\ released # << >> /\ stack'[i] # Metadata => stack'[i] \notin OnStack(u)
    <2> SUFFICES ASSUME NEW i \in Floor + 1 .. Len(stack')
                 PROVE  /\ StageContext(stack'[i])
                        /\ released # << >> /\ stack'[i] # Metadata =>
                              stack'[i] \notin OnStack(u)
      OBVIOUS
    <2>1. i \in Floor + 1 .. Len(stack) /\ i \in 1 .. Len(stack) - 1
      BY <1>1, <1>2
    <2> QED
      BY <1>2, <2>1 DEF PipeInvOf
  <1>6. CASE released = << >>
    <2>1. u = stack /\ Floor = base
      BY <1>1, <1>6 DEF Visits, Floor
    <2>2. base \in 1 .. Len(stack')
      BY <1>4, <2>1
    <2>3. stack'[1] = defaultCtx /\ \A i \in 1 .. base : stack'[i] = u[i]
      BY <1>1, <1>2, <2>1 DEF PipeInvOf
    <2> PICK w : w = stack'
      OBVIOUS
    <2>4. Visits(w)'
      BY <1>6 DEF Visits
    <2>5. PipeInvOf(w)'
      BY <1>1, <1>3, <1>4, <1>5, <1>6, <2>1, <2>2, <2>3, <2>4
         DEF PipeInvOf, Sound, StageContext
    <2> QED
      BY <2>3, <2>5
  <1>7. CASE released # << >>
    <2>1. OnStack(u) \subseteq live'
      <3>1. stack[Len(stack)] # Metadata => stack[Len(stack)] \notin OnStack(u)
        BY <1>2, <1>7 DEF PipeInvOf
      <3>2. ctxName[Metadata] # StageName
        BY PipelineAssumption
      <3> QED
        BY <1>1, <1>2, <3>1, <3>2 DEF Sound
    <2>2. \A i \in 1 .. Floor' : stack'[i] = u[i]
      <3>1. \A i \in 1 .. Floor : stack[i] = u[i]
        BY <1>1, <1>7 DEF Visits
      <3>2. ASSUME NEW i \in 1 .. Floor PROVE stack'[i] = stack[i]
        BY <1>1, <1>2, <1>4
      <3> QED
        BY <1>4, <3>1, <3>2
    <2>3. Visits(u)'
      BY <1>1, <1>7, <2>2 DEF Visits
    <2>4. PipeInvOf(u)'
      BY <1>1, <1>3, <1>4, <1>5, <1>7, <2>1, <2>3 DEF PipeInvOf, Sound, StageContext
    <2> QED
      BY <2>4
  <1> QED
    BY <1>6, <1>7

LEMMA ReleasedFacts ==
    ASSUME NEW R, NEW r \in Seq(R), NEW x \in R
    PROVE  /\ Append(r, x) \in Seq(R) /\ Len(Append(r, x)) = Len(r) + 1
           /\ Append(r, x) # << >>
           /\ \A k \in 1 .. Len(r) : Append(r, x)[k] = r[k]
           /\ Append(r, x)[Len(r) + 1] = x
           /\ Len(r) >= 1 =>
                 /\ SubSeq(r, 1, Len(r) - 1) \in Seq(R)
                 /\ Len(SubSeq(r, 1, Len(r) - 1)) = Len(r) - 1
                 /\ \A k \in 1 .. Len(r) - 1 : SubSeq(r, 1, Len(r) - 1)[k] = r[k]
  <1>1. /\ Append(r, x) \in Seq(R) /\ Len(Append(r, x)) = Len(r) + 1
        /\ \A k \in 1 .. Len(r) : Append(r, x)[k] = r[k]
        /\ Append(r, x)[Len(r) + 1] = x
    OBVIOUS
  <1>2. Append(r, x) # << >>
    BY <1>1
  <1>3. ASSUME Len(r) >= 1
        PROVE  /\ SubSeq(r, 1, Len(r) - 1) \in Seq(R)
               /\ Len(SubSeq(r, 1, Len(r) - 1)) = Len(r) - 1
               /\ \A k \in 1 .. Len(r) - 1 : SubSeq(r, 1, Len(r) - 1)[k] = r[k]
    <2> PICK m : m = Len(r) - 1
      OBVIOUS
    <2>1. m \in 0 .. Len(r)
      BY <1>3
    <2>2. /\ SubSeq(r, 1, m) \in Seq(R) /\ Len(SubSeq(r, 1, m)) = m
          /\ \A k \in 1 .. m : SubSeq(r, 1, m)[k] = r[k]
      BY <2>1
    <2> QED
      BY <2>2
  <1> QED
    BY <1>1, <1>2, <1>3

\* One level down the operator graph: the context that goes off the stack is
\* the next of those still to come back.
LEMMA VisitDownKeepsPipeInv ==
    ASSUME NEW u, PipeInvOf(u), visitDown
    PROVE  PipeInvOf(u)'
  <1> DEFINE Rel == [mc : Ctx \union {NULL}, height : Nat]
             x == [mc |-> IF Len(stack) > 1 THEN Top(stack) ELSE NULL,
                   height |-> Len(Release(stack))]
             n == Len(released)
  <1>1. /\ Sound(stack, live) /\ Sound(u, live) /\ base \in 1 .. Len(u) /\ Visits(u)
        /\ u \in Stacks /\ stack \in Stacks /\ u[1] = defaultCtx
        /\ Floor \in 1 .. Len(stack) /\ Len(stack) \in Nat /\ Len(u) \in Nat
        /\ released \in Seq(Rel)
    BY DEF PipeInvOf, Sound, Stacks
  <1>2. /\ stack' = Release(stack) /\ released' = Append(released, x)
        /\ live' = live /\ base' = base
        /\ IF released = << >> THEN Len(stack) > base ELSE Len(stack) = Floor
    BY DEF visitDown
  <1>3. CASE Len(stack) > 1
    <2>1. /\ Top(stack) = stack[Len(stack)] /\ Len(stack') = Len(stack) - 1
          /\ \A i \in 1 .. Len(stack) - 1 : stack'[i] = stack[i]
          /\ Sound(stack', live \ {stack[Len(stack)]})
      BY <1>1, <1>2, <1>3, PopFacts
    <2>2. /\ stack[Len(stack)] \in Ctx /\ Sound(stack', live)
          /\ x = [mc |-> stack[Len(stack)], height |-> Len(stack) - 1]
      BY <1>1, <1>2, <1>3, <2>1 DEF Sound, Stacks
    <2> HIDE DEF x
    <2>3. x \in Rel /\ x.height = Len(stack) - 1
      BY <1>1, <1>3, <2>2
    <2>4. /\ released' \in Seq(Rel) /\ Len(released') = n + 1 /\ released' # << >>
          /\ \A k \in 1 .. n : released'[k] = released[k]
          /\ released'[n + 1] = x /\ n \in Nat
      BY <1>1, <1>2, <2>3, ReleasedFacts
    <2>5. LastRelease' = x /\ Floor' = Len(stack) - 1
      BY <2>3, <2>4 DEF LastRelease, Floor
    <2>6. /\ Len(stack) = Len(u) - n /\ Len(u) > base
          /\ \A i \in 1 .. Len(stack) : stack[i] = u[i]
          /\ \A k \in 1 .. n : k < Len(u)
      <3>1. CASE released = << >>
        BY <1>1, <1>2, <3>1 DEF Visits
      <3>2. CASE released # << >>
        <4>1. n < Len(u) /\ Len(stack) = Len(u) - n /\ Len(u) > base
          BY <1>1, <1>2, <1>3, <3>2, VisitFacts
        <4> QED
          BY <1>1, <1>2, <2>4, <3>2, <4>1 DEF Visits
      <3> QED
        BY <3>1, <3>2
    <2>7. \A k \in 1 .. n + 1 :
             released'[k] = IF k < Len(u)
                            THEN [mc |-> u[Len(u) - k + 1], height |-> Len(u) - k]
                            ELSE [mc |-> NULL, height |-> 1]
      <3> SUFFICES ASSUME NEW k \in 1 .. n + 1
                   PROVE  released'[k] = IF k < Len(u)
                            THEN [mc |-> u[Len(u) - k + 1], height |-> Len(u) - k]
                            ELSE [mc |-> NULL, height |-> 1]
        OBVIOUS
      <3>1. CASE k = n + 1
        <4>1. /\ k < Len(u) /\ Len(u) - k + 1 = Len(stack) /\ Len(u) - k = Len(stack) - 1
              /\ Len(stack) \in 1 .. Len(stack)
          BY <1>1, <1>3, <2>4, <2>6, <3>1
        <4> QED
          BY <2>2, <2>4, <2>6, <3>1, <4>1
      <3>2. CASE k # n + 1
        <4>1. k \in 1 .. n /\ released # << >>
          BY <2>4, <3>2
        <4> QED
          BY <1>1, <2>4, <4>1 DEF Visits
      <3> QED
        BY <3>1, <3>2
    <2>8. \A i \in 1 .. Floor' : stack'[i] = u[i]
      BY <1>1, <2>1, <2>5, <2>6
    <2>9. Visits(u)'
      BY <1>2, <2>4, <2>6, <2>7, <2>8 DEF Visits
    <2>10. Floor' \in 1 .. Len(stack') /\ Len(stack') = Floor' /\ Floor' \in Nat
      BY <1>1, <1>3, <2>1, <2>5
    <2>11. \A i : i \notin Floor' + 1 .. Len(stack')
      BY <2>10
    <2> QED
      BY <1>1, <1>2, <2>2, <2>4, <2>9, <2>10, <2>11 DEF PipeInvOf, Sound, StageContext
  <1>4. CASE ~ (Len(stack) > 1)
    <2>1. released # << >> /\ Len(stack) = 1 /\ Floor = 1
      <3> PICK h, f : h = Len(stack) /\ f = Floor
        OBVIOUS
      <3>1. h \in Nat /\ f \in 1 .. h /\ ~ (h > 1) /\ base \in Nat /\ base >= 1
        BY <1>1, <1>4
      <3>2. h = 1 /\ f = 1 /\ ~ (h > base)
        BY <3>1
      <3> QED
        BY <1>2, <3>2
    <2>2. /\ n \in Nat /\ n >= 1 /\ Len(u) > base /\ base >= 1 /\ n + 1 >= Len(u)
      BY <1>1, <2>1, VisitFacts
    <2>3. stack' = stack /\ x = [mc |-> NULL, height |-> 1]
      BY <1>2, <1>4, <2>1 DEF Release
    <2> HIDE DEF x
    <2>4. x \in Rel /\ x.height = 1
      BY <2>3
    <2>5. /\ released' \in Seq(Rel) /\ Len(released') = n + 1 /\ released' # << >>
          /\ \A k \in 1 .. n : released'[k] = released[k]
          /\ released'[n + 1] = x
      BY <1>1, <1>2, <2>4, ReleasedFacts
    <2>6. LastRelease' = x /\ Floor' = 1
      BY <2>4, <2>5 DEF LastRelease, Floor
    <2>7. \A k \in 1 .. n + 1 :
             released'[k] = IF k < Len(u)
                            THEN [mc |-> u[Len(u) - k + 1], height |-> Len(u) - k]
                            ELSE [mc |-> NULL, height |-> 1]
      <3> SUFFICES ASSUME NEW k \in 1 .. n + 1
                   PROVE  released'[k] = IF k < Len(u)
                            THEN [mc |-> u[Len(u) - k + 1], height |-> Len(u) - k]
                            ELSE [mc |-> NULL, height |-> 1]
        OBVIOUS
      <3>1. CASE k = n + 1
        BY <1>1, <2>2, <2>3, <2>5, <3>1
      <3>2. CASE k # n + 1
        <4>1. k \in 1 .. n
          BY <2>2, <3>2
        <4> QED
          BY <1>1, <2>1, <2>5, <4>1 DEF Visits
      <3> QED
        BY <3>1, <3>2
    <2>8. \A i \in 1 .. Floor' : stack'[i] = u[i]
      BY <1>1, <2>1, <2>3, <2>6 DEF Visits
    <2>9. Visits(u)'
      BY <1>2, <2>2, <2>5, <2>7, <2>8 DEF Visits
    <2>10. Floor' \in 1 .. Len(stack') /\ \A i \in Floor' + 1 .. Len(stack') : FALSE
      <3>1. Floor' = 1 /\ Len(stack') = 1
        BY <2>1, <2>3, <2>6
      <3> QED
        BY <3>1
    <2> QED
      BY <1>1, <1>2, <2>3, <2>5, <2>9, <2>10 DEF PipeInvOf, Sound, StageContext
  <1> QED
    BY <1>3, <1>4

\* One level up: the context that comes back is the one the invariant has at
\* that height.
LEMMA VisitUpKeepsPipeInv ==
    ASSUME NEW u, PipeInvOf(u), visitUp
    PROVE  PipeInvOf(u)'
  <1> DEFINE Rel == [mc : Ctx \union {NULL}, height : Nat]
             n == Len(released)
  <1>1. /\ Sound(stack, live) /\ Sound(u, live) /\ base \in 1 .. Len(u) /\ Visits(u)
        /\ u \in Stacks /\ stack \in Stacks /\ u[1] = defaultCtx
        /\ Floor \in 1 .. Len(stack) /\ Len(stack) \in Nat /\ Len(u) \in Nat
        /\ released \in Seq(Rel) /\ Injective(u)
    BY DEF PipeInvOf, Sound, Stacks
  <1>2. /\ stack' = Acquire(stack, LastRelease.mc)
        /\ released' = SubSeq(released, 1, n - 1)
        /\ live' = live /\ base' = base
        /\ released # << >> /\ Len(stack) = Floor
    BY DEF visitUp
  <1>3. /\ n \in Nat /\ n >= 1 /\ Len(u) > base /\ base \in Nat /\ base >= 1
        /\ n < Len(u) =>
              LastRelease = [mc |-> u[Len(u) - n + 1], height |-> Len(u) - n]
        /\ ~ (n < Len(u)) => LastRelease = [mc |-> NULL, height |-> 1]
        /\ Floor = IF n < Len(u) THEN Len(u) - n ELSE 1
    BY <1>2, VisitFacts
  <1>4. /\ released' \in Seq(Rel) /\ Len(released') = n - 1
        /\ \A k \in 1 .. n - 1 : released'[k] = released[k] /\ k \in 1 .. n
        /\ n = 1 => released' = << >>
        /\ n > 1 => released' # << >>
    <2>1. [mc |-> NULL, height |-> 0] \in Rel
      OBVIOUS
    <2>2. /\ released' \in Seq(Rel) /\ Len(released') = n - 1
          /\ \A k \in 1 .. n - 1 : released'[k] = released[k]
      <3> HIDE DEF Rel
      <3> QED
        BY <1>1, <1>2, <1>3, <2>1, ReleasedFacts
    <2> HIDE DEF Rel
    <2>3. n = 1 => released' = << >>
      BY <2>2
    <2>4. n > 1 => released' # << >>
      BY <2>2
    <2>5. \A k \in 1 .. n - 1 : k \in 1 .. n
      BY <1>3
    <2> QED
      BY <2>2, <2>3, <2>4, <2>5
  <1>5. \A i \in 1 .. Len(stack) : stack[i] = u[i]
    BY <1>1, <1>2 DEF Visits
  <1>6. \A k \in 1 .. Len(released') :
           released'[k] = IF k < Len(u)
                          THEN [mc |-> u[Len(u) - k + 1], height |-> Len(u) - k]
                          ELSE [mc |-> NULL, height |-> 1]
    BY <1>1, <1>2, <1>4 DEF Visits
  <1>7. ASSUME n > 1
        PROVE  Floor' = IF n - 1 < Len(u) THEN Len(u) - (n - 1) ELSE 1
    <2>1. /\ n - 1 \in 1 .. Len(released') /\ Floor' = LastRelease'.height
          /\ LastRelease' = released'[n - 1]
      BY <1>3, <1>4, <1>7 DEF Floor, LastRelease
    <2>2. CASE n - 1 < Len(u)
      <3>1. LastRelease' = [mc |-> u[Len(u) - (n - 1) + 1], height |-> Len(u) - (n - 1)]
        BY <1>6, <2>1, <2>2
      <3>2. LastRelease'.height = Len(u) - (n - 1)
        BY <3>1
      <3> QED
        BY <2>1, <2>2, <3>2
    <2>3. CASE ~ (n - 1 < Len(u))
      <3>1. LastRelease' = [mc |-> NULL, height |-> 1]
        BY <1>6, <2>1, <2>3
      <3>2. LastRelease'.height = 1
        BY <3>1
      <3> QED
        BY <2>1, <2>3, <3>2
    <2> QED
      BY <2>2, <2>3
  <1>8. CASE n < Len(u)
    <2> DEFINE mc == u[Len(u) - n + 1]
               m == Len(u) - n
    <2>1. /\ m \in 1 .. Len(u) /\ m + 1 \in 1 .. Len(u) /\ Len(stack) = m /\ m # m + 1
          /\ Len(u) - n + 1 = m + 1 /\ m \in 1 .. Len(stack) /\ stack # << >>
      BY <1>1, <1>2, <1>3, <1>8
    <2>2. mc \in Ctx /\ LastRelease.mc = mc /\ mc # NULL /\ mc \in live
      <3>1. mc \in Ctx /\ mc \in live
        <4>1. mc = u[m + 1] /\ m + 1 \in 1 .. Len(u)
          BY <2>1
        <4> HIDE DEF mc, m
        <4> QED
          BY <1>1, <4>1 DEF Stacks, Sound, OnStack
      <3>2. LastRelease.mc = mc
        BY <1>3, <1>8
      <3> QED
        BY <3>1, <3>2, CtxAssumption
    <2>3. mc \notin OnStack(stack) /\ mc # Top(stack)
      <3>1. ASSUME NEW i \in 1 .. Len(stack) PROVE stack[i] # mc
        <4>1. i \in 1 .. Len(u) /\ i # m + 1
          BY <1>1, <2>1
        <4> QED
          BY <1>1, <1>5, <2>1, <4>1 DEF Injective
      <3> QED
        BY <2>1, <3>1 DEF OnStack, Top
    <2>4. stack' = Append(stack, mc)
      BY <1>2, <2>2, <2>3 DEF Acquire
    <2>5. Sound(stack', live)
      <3>1. Sound(stack', live \union {mc})
        BY <1>1, <2>2, <2>3, <2>4, PushKeepsSound
      <3> QED
        BY <2>2, <3>1 DEF Sound
    <2> HIDE DEF mc
    <2>6. /\ Len(stack') = m + 1 /\ stack' \in Stacks
          /\ \A i \in 1 .. m + 1 : stack'[i] = u[i]
      <3>1. /\ stack' \in Stacks /\ Len(stack') = m + 1
            /\ \A i \in 1 .. m : stack'[i] = stack[i]
            /\ stack'[m + 1] = mc
            /\ \A i \in 1 .. m + 1 : i \in 1 .. m \/ i = m + 1
        <4>1. Len(stack) = m
          BY <2>1
        <4> HIDE DEF m
        <4> QED
          BY <1>1, <2>2, <2>4, <4>1, PushFacts
      <3>2. mc = u[m + 1]
        BY <2>1 DEF mc
      <3> QED
        BY <1>5, <2>1, <3>1, <3>2
    <2>7. CASE n = 1
      <3>1. stack' = u
        <4>1. Len(stack') = Len(u)
          BY <1>1, <2>6, <2>7
        <4> QED
          BY <1>1, <2>6, <2>7, <4>1 DEF Stacks
      <3>2. released' = << >> /\ Floor' = base
        BY <1>2, <1>4, <2>7 DEF Floor
      <3>3. Visits(u)'
        BY <3>1, <3>2 DEF Visits
      <3>4. \A i \in base + 1 .. Len(u) : StageContext(u[i])
        BY DEF PipeInvOf
      <3> QED
        BY <1>1, <1>2, <1>4, <2>5, <3>1, <3>2, <3>3, <3>4
           DEF PipeInvOf, Sound, StageContext
    <2>8. CASE n # 1
      <3>1. n > 1 /\ released' # << >> /\ Floor' = m + 1
        BY <1>1, <1>3, <1>4, <1>7, <1>8, <2>8
      <3>2. Visits(u)'
        BY <1>2, <1>3, <1>6, <2>6, <3>1 DEF Visits
      <3>3. Floor' \in 1 .. Len(stack') /\ \A i \in Floor' + 1 .. Len(stack') : FALSE
        BY <2>1, <2>6, <3>1
      <3> QED
        BY <1>1, <1>2, <1>4, <2>5, <3>2, <3>3 DEF PipeInvOf, Sound, StageContext
    <2> QED
      BY <2>7, <2>8
  <1>9. CASE ~ (n < Len(u))
    <2>1. stack' = stack /\ Floor = 1 /\ Len(stack) = 1
      BY <1>2, <1>3, <1>9 DEF Acquire
    <2>2. n > 1 /\ Floor' = 1 /\ released' # << >>
      BY <1>1, <1>3, <1>4, <1>7, <1>9
    <2>3. Visits(u)'
      BY <1>2, <1>3, <1>5, <1>6, <2>1, <2>2 DEF Visits
    <2>4. Floor' \in 1 .. Len(stack') /\ \A i \in Floor' + 1 .. Len(stack') : FALSE
      <3>1. Floor' = 1 /\ Len(stack') = 1
        BY <2>1, <2>2
      <3> QED
        BY <3>1
    <2> QED
      BY <1>1, <1>2, <1>4, <2>1, <2>3, <2>4 DEF PipeInvOf, Sound, StageContext
  <1> QED
    BY <1>8, <1>9

-----------------------------------------------------------------------------

LEMMA SamePipeline ==
    ASSUME UNCHANGED << stack, live, released, base >>
    PROVE  Unwound' = Unwound /\ PipeInv' = PipeInv
  <1>1. Unwound' = Unwound /\ Floor' = Floor
    BY DEF Unwound, LastRelease, Floor
  <1>2. \A u : Visits(u)' = Visits(u)
    BY <1>1 DEF Visits
  <1>3. \A u : PipeInvOf(u)' = PipeInvOf(u)
    BY <1>1, <1>2 DEF PipeInvOf, StageContext
  <1> QED
    BY <1>1, <1>3 DEF PipeInv

\* The contexts in use are those of a sound stack above the default context.
LEMMA PipelineStack ==
    ASSUME PipeInv'
    PROVE  /\ Sound(stack', live') /\ stack' # << >> /\ stack'[1] = defaultCtx
           /\ base' \in Nat /\ base' >= 1
  <1> PICK u : u = Unwound'
    OBVIOUS
  <1>1. /\ Sound(stack', live') /\ Visits(u)' /\ u[1] = defaultCtx /\ u \in Seq(Ctx)
        /\ Floor' \in 1 .. Len(stack') /\ stack' \in Seq(Ctx) /\ base' \in 1 .. Len(u)
    BY DEF PipeInv, PipeInvOf, Sound, Stacks
  <1>2. 1 \in 1 .. Floor' /\ stack' # << >>
    BY <1>1
  <1>3. stack'[1] = u[1]
    BY <1>1, <1>2 DEF Visits
  <1> QED
    BY <1>1, <1>2, <1>3

\* What a program may rely on while its pipeline runs: the stack to return to
\* keeps its contexts up to base, and no context but one of a stage is created
\* or freed.
LEMMA PipelineSteps ==
    ASSUME PipeInv, enterStage \/ leaveStage \/ visitDown \/ visitUp
    PROVE  /\ PipeInv'
           /\ UNCHANGED << frames, exceptionBuf, severity, unhandled, base, pc >>
           /\ \A i \in 1 .. base : Unwound'[i] = Unwound[i]
           /\ \A c : ctxName[c] # StageName => (c \in live' <=> c \in live)
  <1> PICK u : u = Unwound
    OBVIOUS
  <1>1. PipeInvOf(u)
    BY DEF PipeInv
  <1>2. UNCHANGED << frames, exceptionBuf, severity, unhandled, base, pc >>
    BY DEF enterStage, leaveStage, visitDown, visitUp
  <1>3. /\ Sound(stack, live) /\ Metadata \in Ctx /\ ctxName[Metadata] # StageName
        /\ Metadata # NULL
    BY <1>1, PipelineAssumption, CtxAssumption DEF PipeInvOf, Sound
  <1>4. ASSUME NEW w, PipeInvOf(w)', \A i \in 1 .. base : w[i] = u[i]
        PROVE  PipeInv' /\ \A i \in 1 .. base : Unwound'[i] = Unwound[i]
    <2>1. Unwound' = w
      BY <1>4, UnwoundIs
    <2> QED
      BY <1>4, <2>1 DEF PipeInv
  <1>5. CASE enterStage
    <2>1. UNCHANGED << released, base >>
      BY <1>5 DEF enterStage
    <2>2. CASE NewAndAcquire(StageName)
      <3>1. PICK c \in Ctx \ live :
                /\ ctxName[c] = StageName
                /\ live' = live \union {c} /\ stack' = Append(stack, c)
        BY <1>3, <2>2, NewAndAcquireFacts
      <3>2. c \notin OnStack(stack) /\ StageContext(c)
        BY <1>3, <3>1 DEF Sound, StageContext
      <3>3. \E w : PipeInvOf(w)' /\ \A i \in 1 .. base : w[i] = u[i]
        BY <1>1, <2>1, <3>1, <3>2, PushKeepsPipeInv
      <3> QED
        BY <1>2, <1>4, <3>1, <3>3
    <2>3. CASE /\ Metadata \notin OnStack(stack) /\ Metadata \in live
               /\ stack' = Acquire(stack, Metadata)
               /\ UNCHANGED live
      <3>1. stack' = Append(stack, Metadata)
        <4>1. stack # << >> => Top(stack) \in OnStack(stack)
          BY <1>3 DEF Sound, Stacks, Top, OnStack
        <4> QED
          BY <1>3, <2>3, <4>1 DEF Acquire
      <3>2. StageContext(Metadata) /\ live' = live \union {Metadata}
        BY <2>3 DEF StageContext
      <3>3. \E w : PipeInvOf(w)' /\ \A i \in 1 .. base : w[i] = u[i]
        BY <1>1, <1>3, <2>1, <2>3, <3>1, <3>2, PushKeepsPipeInv
      <3> QED
        BY <1>2, <1>4, <2>3, <3>3
    <2> QED
      BY <1>5, <2>2, <2>3 DEF enterStage
  <1>6. CASE leaveStage
    <2>1. /\ UNCHANGED << released, base >> /\ Len(stack) > Floor
          /\ stack' = Release(stack)
          /\ \/ ctxName[Top(stack)] = StageName /\ live' = live \ FreeCur(stack)
             \/ live' = live
      BY <1>6 DEF leaveStage, FreeAndRelease
    <2>2. Len(stack) > 1
      BY <1>1, <2>1 DEF PipeInvOf, Stacks
    <2>3. FreeCur(stack) = {Top(stack)}
      BY <2>2 DEF FreeCur
    <2>4. \/ live' = live
          \/ live' = live \ {Top(stack)} /\ ctxName[Top(stack)] = StageName
      BY <2>1, <2>3
    <2>5. \E w : PipeInvOf(w)' /\ \A i \in 1 .. base : w[i] = u[i]
      BY <1>1, <2>1, <2>4, PopKeepsPipeInv
    <2> QED
      BY <1>2, <1>4, <2>4, <2>5
  <1>7. CASE visitDown
    BY <1>1, <1>2, <1>4, <1>7, VisitDownKeepsPipeInv DEF visitDown
  <1>8. CASE visitUp
    BY <1>1, <1>2, <1>4, <1>8, VisitUpKeepsPipeInv DEF visitUp
  <1> QED
    BY <1>5, <1>6, <1>7, <1>8

\* What is left when the pipeline is cut short: a sound stack, on which nothing
\* but contexts of stages covers an unbroken part of what was there when the
\* pipeline was entered.
LEMMA PipelineFails ==
    ASSUME PipeInv, NEW s, fail(s) \/ copyFails(s)
    PROVE  /\ Throwing(s) /\ live' = live /\ released' = << >>
           /\ Sound(stack', live') /\ stack' # << >> /\ stack'[1] = defaultCtx
           /\ \A i \in 1 .. Len(stack') :
                 \/ StageContext(stack'[i])
                 \/ i \in 1 .. base /\ \A j \in 1 .. i : stack'[j] = Unwound[j]
  <1> PICK u : u = Unwound
    OBVIOUS
  <1>1. /\ Sound(stack, live) /\ Sound(u, live) /\ base \in 1 .. Len(u) /\ Visits(u)
        /\ stack \in Stacks /\ u[1] = defaultCtx
        /\ Floor \in 1 .. Len(stack) /\ Len(stack) \in Nat /\ Len(u) \in Nat
        /\ \A i \in base + 1 .. Len(u) : StageContext(u[i])
        /\ \A i \in Floor + 1 .. Len(stack) : StageContext(stack[i])
    BY DEF PipeInv, PipeInvOf, Sound, Stacks
  <1>2. Throwing(s) /\ live' = live /\ released' = << >>
    BY DEF fail, copyFails, THROW
  <1>3. \A i \in 1 .. Floor : stack[i] = u[i] /\ Floor \in 1 .. Len(u)
    <2>1. CASE released = << >>
      BY <1>1, <2>1 DEF Visits, Floor
    <2>2. CASE released # << >>
      <3>1. Floor \in 1 .. Len(u)
        BY <1>1, <2>2, VisitFacts DEF PipeInv
      <3> QED
        BY <1>1, <2>2, <3>1 DEF Visits
    <2> QED
      BY <2>1, <2>2
  <1>4. stack[1] = defaultCtx
    BY <1>1, <1>3
  <1>5. \A i \in 1 .. Len(stack) :
           \/ StageContext(stack[i])
           \/ i \in 1 .. base /\ \A j \in 1 .. i : stack[j] = u[j]
    <2> SUFFICES ASSUME NEW i \in 1 .. Len(stack), ~ StageContext(stack[i])
                 PROVE  i \in 1 .. base /\ \A j \in 1 .. i : stack[j] = u[j]
      OBVIOUS
    <2>1. i \in 1 .. Floor
      BY <1>1
    <2>2. stack[i] = u[i] /\ i \in 1 .. Len(u) /\ \A j \in 1 .. i : j \in 1 .. Floor
      BY <1>1, <1>3, <2>1
    <2>3. i \in 1 .. base
      BY <1>1, <2>2
    <2> QED
      BY <1>3, <2>2, <2>3
  <1>6. CASE stack' = stack
    <2>1. stack # << >>
      BY <1>1
    <2> QED
      BY <1>1, <1>2, <1>4, <1>5, <1>6, <2>1
  <1>7. CASE stack' = Release(stack) /\ Len(stack) > Floor
    <2>1. Len(stack) > 1
      BY <1>1, <1>7
    <2>2. /\ Sound(stack', live \ {stack[Len(stack)]})
          /\ Len(stack') = Len(stack) - 1
          /\ \A i \in 1 .. Len(stack) - 1 : stack'[i] = stack[i] /\ i \in 1 .. Len(stack)
      BY <1>1, <1>7, <2>1, PopFacts
    <2>3. Sound(stack', live')
      BY <1>2, <2>2 DEF Sound
    <2>4. stack' # << >> /\ stack'[1] = defaultCtx
      BY <1>1, <1>4, <2>1, <2>2
    <2>5. ASSUME NEW i \in 1 .. Len(stack')
          PROVE  \/ StageContext(stack'[i])
                 \/ i \in 1 .. base /\ \A j \in 1 .. i : stack'[j] = u[j]
      <3>1. /\ i \in 1 .. Len(stack) - 1
            /\ \A j \in 1 .. i : j \in 1 .. Len(stack) - 1
        BY <1>1, <2>2
      <3> QED
        BY <1>5, <2>2, <3>1
    <2> QED
      BY <1>2, <2>3, <2>4, <2>5
  <1> QED
    BY <1>6, <1>7 DEF fail, copyFails, THROW

\* The pipeline is entered at the height of the stack.
LEMMA PipelineEntered ==
    ASSUME Sound(stack, live)', released' = << >>, stack'[1] = defaultCtx,
           base' \in 1 .. Len(stack'), base' = Len(stack')
    PROVE  PipeInv' /\ Unwound' = stack'
  <1> PICK w : w = stack'
    OBVIOUS
  <1>1. Visits(w)' /\ Unwound' = w /\ Floor' = base'
    BY DEF Visits, Unwound, Floor
  <1>2. \A i \in base' + 1 .. Len(w) : FALSE
    BY DEF Sound, Stacks
  <1>3. << >> \in Seq([mc : Ctx \union {NULL}, height : Nat])
    OBVIOUS
  <1>4. PipeInvOf(w)'
    BY <1>1, <1>2, <1>3 DEF PipeInvOf, Sound
  <1> QED
    BY <1>1, <1>4 DEF PipeInv

\* It is left as it was entered.
LEMMA PipelineLeft ==
    ASSUME PipeInv, PipelineDone
    PROVE  /\ Sound(stack, live) /\ Unwound = stack /\ released = << >>
           /\ Len(stack) = base /\ base \in Nat /\ base >= 1 /\ stack[1] = defaultCtx
  BY DEF PipeInv, PipeInvOf, PipelineDone, Unwound, Sound
=============================================================================
