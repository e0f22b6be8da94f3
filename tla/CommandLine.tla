---------------------------- MODULE CommandLine -----------------------------
(***************************************************************************)
(* The command line client, src/src/command_line/command_line_main.c,      *)
(* with processInput of src/src/rewriter.c: one session from main() to its *)
(* end, interactive or not, with exceptions thrown anywhere in it.         *)
(***************************************************************************)
EXTENDS Pipeline

CONSTANTS
    ProcessName,   \* PROCESS_CONTEXT_NAME
    ConfName       \* "READ_CONF"

ASSUME CommandLineAssumption ==
    /\ {ProcessName, ConfName} \subseteq Name \ {QueryName}
    /\ wipeContext = QueryName
    /\ Stages = {"pipeline", "backend"}

VARIABLE isInteractiveSession

vars == << pipeVars, pc, isInteractiveSession >>

Init ==
    /\ ExcInit({defaultCtx})
    /\ released = << >>
    /\ base = 0
    /\ pc = "main"
    /\ isInteractiveSession = FALSE

handleCLIException == IF isInteractiveSession THEN "ABORT" ELSE "DIE"

\* initBasicModules has run; the first TRY block is readConf's.
readConf ==
    /\ pc = "main"
    /\ TRY("readConf")
    /\ NewAndAcquire(ConfName)
    /\ pc' = "readConf"
    /\ UNCHANGED << severity, unhandled, released, base, isInteractiveSession >>

readConfFails ==
    /\ pc = "readConf"
    /\ THROW("RECOVERABLE")
    /\ UNCHANGED << released, base, isInteractiveSession >>

readConfEnds ==
    /\ pc = "readConf"
    /\ FreeAndRelease
    /\ END_TRY
    /\ pc' = "setup"
    /\ UNCHANGED << severity, unhandled, released, base, isInteractiveSession >>

\* The session type, then setupPluginsFromOptions, which creates the plugin's
\* long-lived context and runs outside every TRY block.
setupPlugins ==
    /\ pc = "setup"
    /\ isInteractiveSession' \in BOOLEAN
    /\ \/ /\ live' = live \union {Metadata}
          /\ pc' = "prompt"
          /\ UNCHANGED << stack, frames, exceptionBuf, severity, unhandled >>
       \/ THROW("RECOVERABLE")
    /\ UNCHANGED << released, base >>

process ==
    /\ pc = "prompt"
    /\ TRY("process")
    /\ NewAndAcquire(ProcessName)
    /\ pc' = "processInput"
    /\ UNCHANGED << severity, unhandled, released, base, isInteractiveSession >>

processInput ==
    /\ pc = "processInput"
    /\ TRY("processInput")
    /\ NewAndAcquire(QueryName)
    /\ pc' = "pipeline"
    /\ base' = Len(stack')
    /\ UNCHANGED << severity, unhandled, released, isInteractiveSession >>

\* Mutant: the query context is released and not freed.
processInputLeaks ==
    /\ pc = "pipeline" /\ PipelineDone
    /\ stack' = Release(stack)
    /\ END_TRY
    /\ pc' = "processEnd"
    /\ UNCHANGED << live, severity, unhandled, released, base, isInteractiveSession >>

\* The query has been executed: the end of processInput ...
processInputEnds ==
    /\ pc = "pipeline" /\ PipelineDone
    /\ FreeAndRelease
    /\ END_TRY
    /\ pc' = "processEnd"
    /\ UNCHANGED << severity, unhandled, released, base, isInteractiveSession >>

\* What follows process: main() shuts down after the one query of a session
\* that is not interactive.
AfterProcess == IF isInteractiveSession THEN "prompt" ELSE "shutdown"

\* ... and the end of process
processEnds ==
    /\ pc = "processEnd"
    /\ FreeAndRelease
    /\ END_TRY
    /\ pc' = AfterProcess
    /\ UNCHANGED << severity, unhandled, released, base, isInteractiveSession >>

\* \b: the context is acquired in the TRY block and freed after it.
backendCommand ==
    /\ pc = "prompt" /\ isInteractiveSession
    /\ TRY("backend")
    /\ NewAndAcquire(ProcessName)
    /\ pc' = "backend"
    /\ base' = Len(stack')
    /\ UNCHANGED << severity, unhandled, released, isInteractiveSession >>

backendCommandEnds ==
    /\ pc = "backend" /\ PipelineDone
    /\ END_TRY
    /\ pc' = "backendEnd"
    /\ UNCHANGED << stack, live, severity, unhandled, released,
                    base, isInteractiveSession >>

backendRelease ==
    /\ pc = "backendEnd"
    /\ FreeAndRelease
    /\ pc' = "prompt"
    /\ UNCHANGED << frames, exceptionBuf, severity, unhandled,
                    released, base, isInteractiveSession >>

\* \i of a file that cannot be opened and \s of a connection or plugin that
\* cannot be set up throw outside every TRY block.
utilityFails ==
    /\ pc = "prompt" /\ isInteractiveSession
    /\ THROW("RECOVERABLE")
    /\ UNCHANGED << released, base, isInteractiveSession >>

\* \q
quit ==
    /\ pc = "prompt" /\ isInteractiveSession
    /\ pc' = "exited"
    /\ UNCHANGED << pipeVars, isInteractiveSession >>

\* The handler branches.  processInput's rethrows; readConf's calls
\* PROCESS_EXCEPTION_AND_DIE.
catchProcessInput ==
    /\ pc = "catch" /\ CurFrame.fn = "processInput"
    /\ RETHROW
    /\ UNCHANGED << released, base, isInteractiveSession >>

catchProcess ==
    /\ pc = "catch" /\ CurFrame.fn = "process"
    /\ processException(handleCLIException, AfterProcess)
    /\ UNCHANGED << released, base, isInteractiveSession >>

catchBackend ==
    /\ pc = "catch" /\ CurFrame.fn = "backend"
    /\ processException(handleCLIException, "backendEnd")
    /\ UNCHANGED << released, base, isInteractiveSession >>

catchReadConf ==
    /\ pc = "catch" /\ CurFrame.fn = "readConf"
    /\ processException(handleCLIException, "exited")
    /\ UNCHANGED << released, base, isInteractiveSession >>

\* destroyMemManager ends shutdownApplication.
shutdownApplication ==
    /\ pc = "shutdown"
    /\ live' = live \ DestroyFrees(stack)
    /\ pc' = "exited"
    /\ UNCHANGED << stack, frames, exceptionBuf, severity,
                    unhandled, released, base, isInteractiveSession >>

Catch == catchProcessInput \/ catchProcess \/ catchBackend \/ catchReadConf

Next ==
    \/ readConf
    \/ readConfFails
    \/ readConfEnds
    \/ setupPlugins
    \/ process
    \/ processInput
    \/ PipelineNext /\ UNCHANGED isInteractiveSession
    \/ processInputEnds
    \/ processEnds
    \/ backendCommand
    \/ backendCommandEnds
    \/ backendRelease
    \/ utilityFails
    \/ quit
    \/ Catch
    \/ shutdownApplication

\* The handlers are straight-line code of the running thread.
Spec == Init /\ [][Next]_vars /\ WF_vars(Catch) /\ WF_vars(backendRelease)

-----------------------------------------------------------------------------

\* A THROW lands in the innermost TRY block, never in one that has returned,
\* and every block gives the buffer of the block around it back, at every point
\* of the session ("a longjmp to
\* the next try-catch block. If there is no such block then we exit",
\* exception.h:100).
HandlerChain ==
    /\ pc # "undefined"
    /\ Running => Chained

\* Back at the prompt nothing of the last query is left on the stack, however
\* deep in the pipeline it failed and whatever graph visit it cut short: only
\* the default context and the contexts of process, and no query context is
\* still allocated.
PromptIsClean ==
    pc = "prompt" =>
        /\ {ctxName[c] : c \in OnStack(stack)} \subseteq
                {ctxName[defaultCtx], ProcessName}
        /\ \A c \in live : ctxName[c] # QueryName
        /\ released = << >>

\* A failure is always dealt with: the session is back at its prompt, ready
\* to shut down or ended, and no handler jumps back into itself.
FailureIsHandled == pc = "catch" ~> pc \in {"prompt", "shutdown", "exited"}

-----------------------------------------------------------------------------
(***************************************************************************)
(* The inductive invariant of the proofs.                                  *)
(***************************************************************************)

\* The TRY blocks open at every point of the session.
OpenBlocks ==
    LET one(fn) == << [fn |-> fn, save |-> 0] >>
        two == << [fn |-> "process", save |-> 0], [fn |-> "processInput", save |-> 1] >>
        Open(f, b) == frames = f /\ exceptionBuf = b
    IN  /\ pc \in {"main", "readConf", "setup", "prompt", "processInput", "pipeline",
                  "processEnd", "backend", "backendEnd", "catch", "shutdown", "exited"}
        /\ pc \in {"main", "setup", "prompt", "backendEnd", "shutdown"} =>
               Open(<< >>, 0)
        /\ pc = "readConf" => Open(one("readConf"), 1)
        /\ pc \in {"processInput", "processEnd"} => Open(one("process"), 1)
        /\ pc = "backend" => Open(one("backend"), 1)
        /\ pc = "pipeline" => Open(two, 2)
        /\ pc = "catch" =>
              \/ Open(two, 1)
              \/ \E fn \in {"readConf", "process", "backend"} : Open(one(fn), 0)

QueryContexts == {c \in live : ctxName[c] = QueryName}

\* Outside the pipeline: the default context with contexts of process on top,
\* and no query.
Quiet ==
    /\ \A i \in 2 .. Len(stack) : ctxName[stack[i]] = ProcessName
    /\ QueryContexts = {}

\* In the pipeline: the context of the one query on top of those.
InQuery ==
    /\ ctxName[Unwound[base]] = QueryName
    /\ \A i \in 2 .. base - 1 : ctxName[Unwound[i]] = ProcessName
    /\ QueryContexts = {Unwound[base]}

InBackend ==
    /\ \A i \in 2 .. base : ctxName[Unwound[i]] = ProcessName
    /\ QueryContexts = {}

\* Wherever the pipeline was cut short: if the context of the query is still on
\* the stack, it is the only one, and only contexts of process are below it.
Cut ==
    \A i \in Named(stack, QueryName) :
        /\ \A j \in 2 .. i - 1 : ctxName[stack[j]] = ProcessName
        /\ QueryContexts = {stack[i]}

IInv ==
    /\ OpenBlocks
    /\ HandledOnce
    /\ Running => stack \in Stacks
    /\ StackSound
    /\ Running /\ pc \notin Stages => released = << >>
    /\ pc = "pipeline" => PipeInv /\ InQuery
    /\ pc = "backend" => PipeInv /\ InBackend
    /\ pc = "catch" => Cut
    /\ pc \in {"main", "readConf", "setup"} => QueryContexts = {}
    /\ pc = "main" => Len(stack) = 1
    /\ pc = "readConf" => Len(stack) = 2
    /\ pc = "setup" => Len(stack) = 1
    /\ pc \in {"prompt", "processInput", "processEnd", "backendEnd", "shutdown"} =>
          Quiet
=============================================================================
