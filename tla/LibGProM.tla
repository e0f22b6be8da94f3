------------------------------ MODULE LibGProM ------------------------------
(***************************************************************************)
(* The library interface, src/src/libgprom/libgprom.c, with                *)
(* rewriteQueryInternal of src/src/rewriter.c and the JDBC wrapper         *)
(* GProMWrapper.java, whose threads call it.  One global mutex serialises  *)
(* the calls; the wrapper reads its list of exceptions after the native    *)
(* call has returned, outside the mutex.                                   *)
(*                                                                         *)
(* pc is the control state of the thread that holds the mutex.             *)
(***************************************************************************)
EXTENDS Pipeline

CONSTANTS
    Thread,      \* the threads that call the library
    Op,          \* the functions they call
    Answers,     \* what the registered callback may answer
    LibName      \* LIBARY_REWRITE_CONTEXT

ASSUME LibAssumption ==
    /\ NULL \notin Thread
    /\ Op \subseteq {"gprom_rewriteQuery", "gprom_costQuery"}
    /\ Answers \subseteq Answer
    /\ LibName \in Name \ {QueryName, StageName}
    /\ \A c \in LongLived : ctxName[c] # LibName
    /\ wipeContext = LibName
    /\ Stages = {"pipeline", "cost"}

VARIABLES
    lock,         \* the holder of LOCK_NAME, or NULL
    thr,          \* thr[t]: "out", "waiting", "in", "check" or "report"
    op,           \* op[t]: the function t is calling
    failed,       \* failed[t]: the native call of t has thrown
    exceptions,   \* GProMWrapper.exceptions: the threads that added to it
    outcome       \* outcome[t]: what the wrapper last gave its caller

libVars == << lock, thr, op, failed, exceptions, outcome >>
vars == << pipeVars, pc, libVars >>

Init ==
    /\ ExcInit({defaultCtx, Metadata})
    /\ released = << >>
    /\ base = 0
    /\ pc = "idle"
    /\ lock = NULL
    /\ thr = [t \in Thread |-> "out"]
    /\ op \in [Thread -> Op]
    /\ failed = [t \in Thread |-> FALSE]
    /\ exceptions = << >>
    /\ outcome = [t \in Thread |-> "none"]

\* A client thread calls o and waits for the mutex.
call(t, o) ==
    /\ Running
    /\ thr[t] = "out"
    /\ thr' = [thr EXCEPT ![t] = "waiting"]
    /\ op' = [op EXCEPT ![t] = o]
    /\ failed' = [failed EXCEPT ![t] = FALSE]
    /\ UNCHANGED << pipeVars, pc, lock, exceptions, outcome >>

LOCK_MUTEX(t) ==
    /\ pc = "idle" /\ lock = NULL
    /\ thr[t] = "waiting"
    /\ lock' = t
    /\ thr' = [thr EXCEPT ![t] = "in"]
    /\ pc' = op[t]
    /\ UNCHANGED << pipeVars, op, failed, exceptions, outcome >>

gprom_rewriteQuery ==
    /\ pc = "gprom_rewriteQuery"
    /\ NewAndAcquire(LibName)
    /\ TRY("gprom_rewriteQuery")
    /\ pc' = "rewriteQueryInternal"
    /\ UNCHANGED << severity, unhandled, released, base, libVars >>

rewriteQueryInternal ==
    /\ pc = "rewriteQueryInternal"
    /\ NewAndAcquire(QueryName)
    /\ TRY("rewriteQueryInternal")
    /\ pc' = "pipeline"
    /\ base' = Len(stack')
    /\ UNCHANGED << severity, unhandled, released, libVars >>

\* FREE_MEM_CONTEXT_AND_RETURN_STRING_COPY returns from inside the TRY block.
rewriteQueryReturns ==
    /\ pc = "pipeline" /\ PipelineDone
    /\ stack' = FreeMemContext(Release(stack), Top(stack))
    /\ live' = live \ FreeMemContextFrees(Release(stack), Top(stack))
    /\ ReturnInsideTry
    /\ pc' = "rewriteEnd"
    /\ UNCHANGED << severity, unhandled, released, base, libVars >>

\* Mutant: the library returns from inside its TRY block, too.
gprom_rewriteQueryReturns ==
    /\ pc = "rewriteEnd"
    /\ stack' = Release(stack)
    /\ ReturnInsideTry
    /\ pc' = "unlock"
    /\ UNCHANGED << live, severity, unhandled, released, base, libVars >>

\* Mutant: the library context stays on the stack.
gprom_rewriteQueryKeeps ==
    /\ pc = "rewriteEnd"
    /\ END_TRY
    /\ pc' = "unlock"
    /\ UNCHANGED << stack, live, severity, unhandled, released, base, libVars >>

\* RELEASE_MEM_CONTEXT_AND_CREATE_STRING_COPY: the library context is popped
\* and not freed.
gprom_rewriteQueryEnds ==
    /\ pc = "rewriteEnd"
    /\ stack' = Release(stack)
    /\ END_TRY
    /\ pc' = "unlock"
    /\ UNCHANGED << live, severity, unhandled, released, base, libVars >>

gprom_costQuery ==
    /\ pc = "gprom_costQuery"
    /\ TRY("gprom_costQuery")
    /\ pc' = "cost"
    /\ base' = Len(stack)
    /\ UNCHANGED << stack, live, severity, unhandled, released, libVars >>

gprom_costQueryEnds ==
    /\ pc = "cost" /\ PipelineDone
    /\ END_TRY
    /\ pc' = "unlock"
    /\ UNCHANGED << stack, live, severity, unhandled, released, base, libVars >>

pipelineStep ==
    /\ PipelineNext
    /\ failed' = IF pc' \in Stages THEN failed ELSE [failed EXCEPT ![lock] = TRUE]
    /\ UNCHANGED << lock, thr, op, exceptions, outcome >>

\* exceptionCallbackFunction of the wrapper, which calls gprom_rewriteQuery
\* only, runs inside processException; the callbacks of other clients keep no
\* list.
handleException(next) ==
    /\ \E a \in Answers : processException(a, next)
    /\ exceptions' = IF op[lock] = "gprom_rewriteQuery"
                     THEN Append(exceptions, lock) ELSE exceptions
    /\ UNCHANGED << released, base, lock, thr, op, failed, outcome >>

\* rewriteQueryWithRethrow throws on to the library's block.
catchRewriteInternal ==
    /\ pc = "catch" /\ CurFrame.fn = "rewriteQueryInternal"
    /\ RETHROW
    /\ UNCHANGED << released, base, libVars >>

catchLibrary ==
    /\ pc = "catch" /\ CurFrame.fn \in {"gprom_rewriteQuery", "gprom_costQuery"}
    /\ handleException("unlock")

Catch == catchRewriteInternal \/ catchLibrary

UNLOCK_MUTEX ==
    /\ pc = "unlock"
    /\ pc' = "idle"
    /\ lock' = NULL
    /\ thr' = [thr EXCEPT ![lock] =
                   IF op[lock] = "gprom_rewriteQuery" THEN "check" ELSE "out"]
    /\ UNCHANGED << pipeVars, op, failed, exceptions, outcome >>

\* gpromRewriteQuery of the wrapper, after the native call: look at the list ...
checkExceptions(t) ==
    /\ Running
    /\ thr[t] = "check"
    /\ IF exceptions # << >>
       THEN thr' = [thr EXCEPT ![t] = "report"] /\ UNCHANGED outcome
       ELSE /\ thr' = [thr EXCEPT ![t] = "out"]
            /\ outcome' = [outcome EXCEPT ![t] = IF failed[t] THEN "null" ELSE "sql"]
    /\ UNCHANGED << pipeVars, pc, lock, op, failed, exceptions >>

\* Mutant: the list is not cleared.
reportExceptionsKeeps(t) ==
    /\ Running
    /\ thr[t] = "report"
    /\ thr' = [thr EXCEPT ![t] = "out"]
    /\ outcome' = [outcome EXCEPT ![t] = "error"]
    /\ UNCHANGED << pipeVars, pc, lock, op, failed, exceptions >>

\* ... and report and clear what is in it by then
reportExceptions(t) ==
    /\ Running
    /\ thr[t] = "report"
    /\ thr' = [thr EXCEPT ![t] = "out"]
    /\ outcome' = [outcome EXCEPT ![t] = "error"]
    /\ exceptions' = << >>
    /\ UNCHANGED << pipeVars, pc, lock, op, failed >>

Next ==
    \/ \E t \in Thread, o \in Op : call(t, o)
    \/ \E t \in Thread : LOCK_MUTEX(t)
    \/ gprom_rewriteQuery
    \/ rewriteQueryInternal
    \/ rewriteQueryReturns
    \/ gprom_rewriteQueryEnds
    \/ gprom_costQuery
    \/ gprom_costQueryEnds
    \/ pipelineStep
    \/ Catch
    \/ UNLOCK_MUTEX
    \/ \E t \in Thread : checkExceptions(t)
    \/ \E t \in Thread : reportExceptions(t)

\* The thread that holds the mutex goes on running its handlers.
Spec == Init /\ [][Next]_vars /\ WF_vars(Catch) /\ WF_vars(UNLOCK_MUTEX)

-----------------------------------------------------------------------------

\* The return inside rewriteQueryInternal's TRY block leaves exceptionBuf at
\* the buffer of a frame that is gone.  Between that return and the END of
\* the library's own block nothing throws; everywhere else a THROW finds the
\* block it belongs to, none finds one that has returned, and a call leaves no
\* buffer behind.
LibHandlerChain ==
    /\ pc # "undefined"
    /\ Running /\ pc # "rewriteEnd" => Chained
    /\ pc = "rewriteEnd" => \A i \in 1 .. Len(frames) : frames[i].save = i - 1

\* Between calls the current context is the one before them, whether they
\* succeeded or were aborted ("back to context before exception",
\* test_libgprom.c:197, test_exception.c:121), wherever they were cut short.
CallerStackRestored == pc = "idle" => stack = << defaultCtx >>

\* A call that fails gives the mutex back, unless it ends the process.
FailureReleasesLock == pc = "catch" ~> lock = NULL \/ pc = "exited"

\* The wrapper reports an error for a query exactly when the rewrite of that
\* query threw ("check whether exception has occured", GProMWrapper.java:96),
\* as long as no other thread rewrites queries with it: the list of exceptions
\* is shared and read after the native call has given up its mutex.
OutcomeIsOwn ==
    \A t \in Thread :
        /\ outcome[t] # "none" /\ thr[t] = "out" /\ op[t] = "gprom_rewriteQuery"
        /\ \A u \in Thread \ {t} : outcome[u] = "none" /\ thr[u] = "out"
        => outcome[t] = IF failed[t] THEN "error" ELSE "sql"

-----------------------------------------------------------------------------
(***************************************************************************)
(* The inductive invariants of the proofs.                                 *)
(***************************************************************************)

\* The TRY blocks open at every point of a call.
OpenBlocks ==
    LET one(fn) == << [fn |-> fn, save |-> 0] >>
        two == << [fn |-> "gprom_rewriteQuery", save |-> 0],
                  [fn |-> "rewriteQueryInternal", save |-> 1] >>
        Open(f, b) == frames = f /\ exceptionBuf = b
    IN  /\ pc \in {"idle", "gprom_rewriteQuery", "gprom_costQuery",
                   "rewriteQueryInternal", "pipeline", "rewriteEnd", "cost",
                   "catch", "unlock", "exited"}
        /\ pc \in {"idle", "gprom_rewriteQuery", "gprom_costQuery", "unlock"} =>
              Open(<< >>, 0)
        /\ pc = "rewriteQueryInternal" => Open(one("gprom_rewriteQuery"), 1)
        /\ pc = "rewriteEnd" => Open(one("gprom_rewriteQuery"), 2)
        /\ pc = "cost" => Open(one("gprom_costQuery"), 1)
        /\ pc = "pipeline" => Open(two, 2)
        /\ pc = "catch" =>
              \/ Open(two, 1)
              \/ \E fn \in {"gprom_rewriteQuery", "gprom_costQuery"} : Open(one(fn), 0)

BlockInv ==
    /\ op \in [Thread -> Op]
    /\ OpenBlocks
    /\ HandledOnce

\* The contexts of a call: the library's above the default one, the query's
\* above it, and the pipeline on top.
LibContext(s) == ctxName[s[2]] = LibName

StackInv ==
    /\ Running => stack \in Stacks
    /\ StackSound
    /\ Running /\ pc \notin Stages => released = << >>
    /\ pc \in {"idle", "gprom_rewriteQuery", "gprom_costQuery", "unlock"} =>
          Len(stack) = 1
    /\ pc \in {"rewriteQueryInternal", "rewriteEnd"} => Len(stack) = 2 /\ LibContext(stack)
    /\ pc = "pipeline" =>
          PipeInv /\ base = 3 /\ LibContext(Unwound) /\ ctxName[Unwound[3]] = QueryName
    /\ pc = "cost" => PipeInv /\ base = 1
    /\ pc = "catch" => Named(stack, LibName) \subseteq {2}

\* Who holds the mutex, what it is doing and whether it has failed.
LockInv ==
    /\ thr \in [Thread -> {"out", "waiting", "in", "check", "report"}]
    /\ failed \in [Thread -> BOOLEAN]
    /\ outcome \in [Thread -> {"none", "sql", "error", "null"}]
    /\ exceptions \in Seq(Thread)
    /\ lock \in Thread \union {NULL}
    /\ pc = "idle" <=> lock = NULL
    /\ \A t \in Thread : thr[t] = "in" <=> lock = t
    /\ \A t \in Thread : thr[t] = "waiting" => ~ failed[t]
    /\ pc \in {"gprom_rewriteQuery", "rewriteQueryInternal", "pipeline", "rewriteEnd"} =>
          op[lock] = "gprom_rewriteQuery" /\ ~ failed[lock]
    /\ pc \in {"gprom_costQuery", "cost"} =>
          op[lock] = "gprom_costQuery" /\ ~ failed[lock]
    /\ pc = "catch" => failed[lock]

\* A thread whose rewrites cannot have put anything into the list yet, having
\* begun none.
NoRewrite(u) ==
    /\ outcome[u] = "none"
    /\ thr[u] \in {"out", "waiting"} \/ op[u] = "gprom_costQuery"

\* What is in the list when only t rewrites: nothing, but for the time between
\* the call of the callback and the report.
ListInv(t) ==
    /\ thr[t] \in {"out", "waiting"} => exceptions = << >>
    /\ thr[t] = "in" =>
          /\ op[t] = "gprom_costQuery" => exceptions = << >>
          /\ pc = "unlock" /\ op[t] = "gprom_rewriteQuery" =>
                (exceptions # << >> <=> failed[t])
          /\ Running /\ pc # "unlock" => exceptions = << >>
    /\ thr[t] = "check" => (exceptions # << >> <=> failed[t])
    /\ thr[t] = "report" => failed[t]
    /\ outcome[t] # "none" /\ thr[t] = "out" /\ op[t] = "gprom_rewriteQuery" =>
          outcome[t] = IF failed[t] THEN "error" ELSE "sql"

OutcomeInv ==
    \A t \in Thread : (\A u \in Thread \ {t} : NoRewrite(u)) => ListInv(t)
=============================================================================
