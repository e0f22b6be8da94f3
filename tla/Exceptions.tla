----------------------------- MODULE Exceptions -----------------------------
(***************************************************************************)
(* The exception system of src/include/exception/exception.h and           *)
(* src/src/exception/exception.c: TRY blocks are sigsetjmp buffers in the  *)
(* C frames of the functions that open them, chained through the global    *)
(* exceptionBuf, and the registered callback decides what happens to the   *)
(* memory contexts of the failed query.                                    *)
(*                                                                         *)
(* The programs that use it (CommandLine, LibGProM) define the control     *)
(* flow with pc.  A buffer is named by the depth of its frame: a function  *)
(* called at the same depth later puts its buffer at the same place.       *)
(***************************************************************************)
EXTENDS MemStack

CONSTANTS
    defaultCtx,    \* the context at the bottom of the stack
    wipeContext    \* the context name last given to setWipeContext

ASSUME ExceptionAssumption ==
    /\ defaultCtx \in Ctx \ LongLived
    /\ wipeContext \in Name
    /\ wipeContext # ctxName[defaultCtx]

Severity == {"PANIC", "RECOVERABLE", "SIGSEGV"}

\* What the programs throw: only the tests register the signal handler that
\* throws SIGSEGV (its registration in gprom_init is commented out).
Thrown == Severity \ {"SIGSEGV"}

Answer == {"DIE", "ABORT", "WIPE"}

VARIABLES
    stack,          \* the stack of memory contexts
    live,           \* the contexts created and not freed
    frames,         \* the open TRY blocks, outermost first
    exceptionBuf,   \* the frame a THROW jumps to; 0 is NULL
    severity,       \* of the last exception
    unhandled,      \* exceptions thrown and not given to the callback
    pc

excVars == << stack, live, frames, exceptionBuf, severity, unhandled >>

ExcInit(contexts) ==
    /\ stack = << defaultCtx >>
    /\ live = contexts
    /\ frames = << >>
    /\ exceptionBuf = 0
    /\ severity = "RECOVERABLE"
    /\ unhandled = 0

Available(name) == {c \in Ctx \ live : ctxName[c] = name}

\* The address malloc() picks for a new context; addresses are reused.
NewCtx(name) == CHOOSE c \in Available(name) : TRUE

\* NEW_AND_ACQUIRE_MEMCONTEXT.  Ctx bounds the contexts that exist at once.
NewAndAcquire(name) ==
    /\ Available(name) # {}
    /\ stack' = Acquire(stack, NewCtx(name))
    /\ live' = live \union {NewCtx(name)}

\* Mutant: the release after the free is missing.
FreeOnly ==
    /\ live' = live \ FreeCur(stack)
    /\ UNCHANGED stack

\* FREE_AND_RELEASE_CUR_MEM_CONTEXT
FreeAndRelease ==
    /\ live' = live \ FreeCur(stack)
    /\ stack' = Release(stack)

CurFrame == frames[Len(frames)]

TRY(fn) ==
    /\ frames' = Append(frames, [fn |-> fn, save |-> exceptionBuf])
    /\ exceptionBuf' = Len(frames) + 1

\* Mutant: the buffer is cleared instead of restored.
END_TRY_Clears ==
    /\ exceptionBuf' = 0
    /\ frames' = SubSeq(frames, 1, Len(frames) - 1)

\* END_TRY and END_ON_EXCEPTION: both branches restore the saved buffer.
END_TRY ==
    /\ exceptionBuf' = CurFrame.save
    /\ frames' = SubSeq(frames, 1, Len(frames) - 1)

\* A return statement inside a TRY block skips END_TRY.
ReturnInsideTry ==
    /\ frames' = SubSeq(frames, 1, Len(frames) - 1)
    /\ UNCHANGED exceptionBuf

\* siglongjmp: the frames above the target are gone and the handler branch of
\* TRY starts, which restores the saved buffer first.  A target that has
\* returned is undefined behaviour: nothing is known after it.
siglongjmp ==
    IF exceptionBuf <= Len(frames)
    THEN /\ frames' = SubSeq(frames, 1, exceptionBuf)
         /\ exceptionBuf' = frames[exceptionBuf].save
         /\ pc' = "catch"
    ELSE /\ pc' = "undefined"
         /\ UNCHANGED << frames, exceptionBuf >>

\* storeExceptionInfo copies the message into a context of its own, which it
\* frees at once: its push and pop leave the stack as it was.
storeExceptionInfo(s) == severity' = s

\* What a throw does besides the stack and the contexts, which it leaves alone.
Throwing(s) ==
    /\ storeExceptionInfo(s)
    /\ unhandled' = unhandled + 1
    /\ IF exceptionBuf # 0
       THEN siglongjmp
       ELSE pc' = "exited" /\ UNCHANGED << frames, exceptionBuf >>

THROW(s) == Throwing(s) /\ UNCHANGED << stack, live >>

\* Mutant: the callback runs before the exception is thrown on.
RETHROW_Handled ==
    /\ exceptionBuf # 0
    /\ siglongjmp
    /\ unhandled' = unhandled - 1
    /\ UNCHANGED << stack, live, severity >>

\* Mutant: the jump goes to the block that throws on.
RETHROW_ToSelf ==
    /\ exceptionBuf # 0
    /\ pc' = "catch"
    /\ UNCHANGED excVars

\* RETHROW() falls through when there is no enclosing TRY block.
RETHROW ==
    /\ exceptionBuf # 0
    /\ siglongjmp
    /\ UNCHANGED << stack, live, severity, unhandled >>

\* What processException ends in exit(1) for: the callback says so, the wipe
\* does not find its context, or the exception is a PANIC.
Dies(answer) ==
    \/ answer = "DIE"
    \/ answer = "ABORT" /\ Named(stack, wipeContext) = {}
    \/ severity = "PANIC"

\* processException with the callback's answer, up to the end of the TRY
\* block that caught the exception.
processException(answer, next) ==
    /\ unhandled' = unhandled - 1
    /\ IF Dies(answer)
       THEN pc' = "exited" /\ UNCHANGED << stack, live, frames, exceptionBuf >>
       ELSE /\ pc' = next
            /\ END_TRY
            /\ IF answer = "ABORT"
               THEN /\ stack' = Wipe(stack, wipeContext)
                    /\ live' = live \ WipeFrees(stack, wipeContext)
               ELSE UNCHANGED << stack, live >>
    /\ UNCHANGED severity

-----------------------------------------------------------------------------

Running == pc \notin {"exited", "undefined"}

\* The memory manager's own guarantees survive exceptions: the default
\* context stays at the bottom, no context on the stack is freed and none is
\* there twice, wherever a THROW cut the calls that would have released them.
StackSound ==
    Running =>
        /\ stack # << >> /\ stack[1] = defaultCtx
        /\ OnStack(stack) \subseteq live
        /\ \A i, j \in 1 .. Len(stack) : stack[i] = stack[j] => i = j

\* The chain of save_previous_jmpbuf is the nesting of the TRY blocks, and
\* exceptionBuf is the innermost block whose handler is not already running.
Chained ==
    /\ \A i \in 1 .. Len(frames) : frames[i].save = i - 1
    /\ exceptionBuf = IF pc = "catch" THEN Len(frames) - 1 ELSE Len(frames)

\* Every exception is given to the callback exactly once, rethrown or not,
\* before the program goes on.
HandledOnce == Running => unhandled = IF pc = "catch" THEN 1 ELSE 0
=============================================================================
